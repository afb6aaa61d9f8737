-------------------------- MODULE ComponentProofs --------------------------
(***************************************************************************)
(* Proofs about smaller components, each for itself: the byte stream in    *)
(* CFB mode, the connection to the servers, the lookup of translations,    *)
(* the hooks of plugins, padded packets.                                   *)
(***************************************************************************)
EXTENDS AesCfb, Connection, Translator, Hooks, PaddedPackets, SequenceLemmas

(***************************************************************************)
(* What the receiver of a CFB stream decrypts is what was encrypted, for   *)
(* any block cipher, any length of blocks and calls of any length.  The    *)
(* inductive invariant follows the sender through its trail: the cipher    *)
(* byte at i was made by the handle trail[i], and the receiver, once it    *)
(* has done i bytes, has become trail[i + 1], whatever it was before.      *)
(***************************************************************************)

Session == [number : Nat, key : Keys, salt : Blocks,
            unset : SUBSET (Side \X {"key", "salt"})]

CfbTypeOK ==
  /\ aes \in [Side -> Handle] /\ left \in [Side -> Nat] /\ session \in Session
  /\ plain \in Seq(Bytes256) /\ wire \in Seq(Bytes256) /\ arrived \in Seq(Bytes256)
  /\ trail \in Seq(Handle)

\* A handle that has been given its salt and has done no byte since.
Salted(h) == h.idx = -1 /\ h.blk = session.salt

\* Who has been given the key has it, and who has been given the salt too
\* starts with it.
HandlesOK ==
  \A x \in Side :
    session.number > 0 =>
      /\ <<x, "key">> \notin session.unset => aes[x].key = session.key
      /\ <<x, "salt">> \notin session.unset /\ (IF x = "sender" THEN plain ELSE arrived) = <<>>
           => Salted(aes[x])

\* The sender's way through its bytes.
TrailOK ==
  /\ Len(wire) = Len(plain) /\ Len(trail) = Len(plain) + 1
  /\ trail[Len(plain) + 1] = aes["sender"]
  /\ plain # <<>> => /\ Ready("sender")
                     /\ trail[1].key = session.key /\ Salted(trail[1])
  /\ \A i \in 1..Len(plain) :
       /\ wire[i] = XorOf(plain[i], KeyByte(Refilled(trail[i])))
       /\ trail[i + 1] = Fed(Refilled(trail[i]), wire[i])

\* The receiver follows.
FollowOK ==
  /\ StreamArrives
  /\ arrived # <<>> => Ready("receiver") /\ aes["receiver"] = trail[Len(arrived) + 1]

LeftOK ==
  /\ \A x \in Side : left[x] > 0 => Ready(x)
  /\ left["sender"] > 0 => left["sender"] <= Len(Text) - Len(plain)
  /\ left["receiver"] > 0 => left["receiver"] <= Len(wire) - Len(arrived)

CfbInv == CfbTypeOK /\ HandlesOK /\ TrailOK /\ FollowOK /\ LeftOK
-----------------------------------------------------------------------------
\* What the operators on handles return.

LEMMA RefillsTo ==
  ASSUME NEW h \in Handle, h.idx < 0 \/ h.idx > BlockLength - 1
  PROVE  Refilled(h) = [key |-> h.key, idx |-> 0, blk |-> h.blk, crypt |-> Crypt(h.key, h.blk)]
<1>1. Refilled(h) = [[h EXCEPT !.crypt = Crypt(h.key, h.blk)] EXCEPT !.idx = 0]
  BY DEF Refilled
<1> QED BY <1>1 DEF Handle

LEMMA RefilledType ==
  ASSUME NEW h \in Handle
  PROVE  /\ Refilled(h) \in Handle /\ Refilled(h).idx \in 0..(BlockLength - 1)
         /\ Refilled(h).key = h.key
         /\ KeyByte(Refilled(h)) \in Bytes256
<1>1. Crypt(h.key, h.blk) \in Blocks /\ BlockLength \in Nat \ {0}
  BY BlocksAssumption DEF Handle
<1>2. Refilled(h) \in Handle /\ Refilled(h).idx \in 0..(BlockLength - 1) /\ Refilled(h).key = h.key
  <2>1. CASE h.idx < 0 \/ h.idx > BlockLength - 1
    <3>1. /\ h.key \in Keys /\ h.blk \in Blocks /\ 0 \in -1..BlockLength
          /\ 0 \in 0..(BlockLength - 1)
      BY <1>1 DEF Handle
    <3> QED BY <1>1, <2>1, <3>1, RefillsTo DEF Handle
  <2>2. CASE ~ (h.idx < 0 \/ h.idx > BlockLength - 1)
    BY <1>1, <2>2 DEF Handle, Refilled
  <2> QED BY <2>1, <2>2
<1>3. KeyByte(Refilled(h)) \in Bytes256
  BY <1>1, <1>2 DEF Handle, Blocks, KeyByte
<1> QED BY <1>2, <1>3

LEMMA FedType ==
  ASSUME NEW h \in Handle, h.idx \in 0..(BlockLength - 1), NEW ch \in Bytes256
  PROVE  Fed(h, ch) \in Handle /\ Fed(h, ch).key = h.key
<1>1. BlockLength \in Nat /\ h.idx + 1 \in 1..BlockLength /\ h.idx + 1 \in -1..BlockLength
  BY BlocksAssumption
<1> DEFINE blk == [h.blk EXCEPT ![h.idx + 1] = ch]
<1>2. blk \in Blocks BY <1>1 DEF Handle, Blocks
<1>3. Fed(h, ch) = [[h EXCEPT !.blk = blk] EXCEPT !.idx = h.idx + 1]
  BY DEF Fed, Handle
<1> HIDE DEF blk
<1> QED BY <1>1, <1>2, <1>3 DEF Handle

\* Two handles that start with the same key and the same block do the same,
\* whatever their old key streams are.
LEMMA SameStart ==
  ASSUME NEW h \in Handle, NEW g \in Handle,
         h.key = g.key, h.blk = g.blk, h.idx = -1, g.idx = -1
  PROVE  Refilled(h) = Refilled(g)
BY RefillsTo DEF Handle

\* Decryption undoes encryption with the same byte of key stream.
LEMMA ByteComesBack ==
  ASSUME NEW b \in Bytes256, NEW k \in Bytes256
  PROVE  XorOf(b, k) \in Bytes256 /\ XorOf(XorOf(b, k), k) = b
BY XorAssumption
-----------------------------------------------------------------------------
LEMMA CfbInvInit == CfbInit => CfbInv
<1> SUFFICES ASSUME CfbInit PROVE CfbInv OBVIOUS
<1>1. aes \in [Side -> Handle] /\ aes["sender"] \in Handle
  BY BlocksAssumption DEF CfbInit, Side
<1>2. session \in Session /\ session.number = 0
  BY <1>1 DEF CfbInit, Session, Handle
<1>3. CfbTypeOK BY <1>1, <1>2 DEF CfbInit, CfbTypeOK
<1>4. HandlesOK BY <1>2 DEF HandlesOK
<1>5. TrailOK BY <1>1 DEF CfbInit, TrailOK
<1>6. FollowOK /\ LeftOK BY DEF CfbInit, FollowOK, LeftOK, StreamArrives, Side
<1> QED BY <1>3, <1>4, <1>5, <1>6 DEF CfbInv

LEMMA CfbInvAgree ==
  ASSUME CfbInv, NEW k \in Keys, NEW salt \in Salts, Agree(k, salt)
  PROVE  CfbInv'
<1> USE DEF CfbInv, Agree
<1>1. aes["sender"] \in Handle /\ "sender" \in Side /\ "receiver" \in Side
  BY DEF CfbTypeOK, Side
<1>2. session' \in Session /\ session'.unset = Side \X {"key", "salt"}
  <2>1. salt \in Blocks BY BlocksAssumption
  <2>2. session.number + 1 \in Nat BY DEF CfbTypeOK, Session
  <2> QED BY <2>1, <2>2 DEF Session
<1>3. CfbTypeOK' BY <1>1, <1>2 DEF CfbTypeOK
<1>4. HandlesOK' BY <1>2 DEF HandlesOK
<1>5. TrailOK' BY <1>1 DEF TrailOK
<1>6. FollowOK' BY DEF FollowOK, StreamArrives
<1>7. LeftOK' BY <1>1 DEF LeftOK, CfbTypeOK
<1> QED BY <1>3, <1>4, <1>5, <1>6, <1>7

\* AES_SetKey() and AES_SetSalt(): h is what becomes of the handle of x.
LEMMA CfbInvSet ==
  ASSUME CfbInv, NEW x \in Side, NEW what \in {"key", "salt"}, NEW h \in Handle,
         session.number > 0, <<x, what>> \in session.unset,
         aes' = [aes EXCEPT ![x] = h],
         session' = [session EXCEPT !.unset = @ \ {<<x, what>>}],
         Restart(aes'["sender"]), UNCHANGED <<left, plain, wire, arrived>>,
         what = "key" => h.key = session.key /\ h.idx = aes[x].idx /\ h.blk = aes[x].blk,
         what = "salt" => h.key = aes[x].key /\ h.idx = -1 /\ h.blk = session.salt
  PROVE  CfbInv'
<1> USE DEF CfbInv
<1>1. /\ session' \in Session /\ session'.number = session.number
      /\ session'.key = session.key /\ session'.salt = session.salt
      /\ session'.unset = session.unset \ {<<x, what>>}
  BY DEF CfbTypeOK, Session
<1>2. aes' \in [Side -> Handle] /\ aes'[x] = h /\ \A y \in Side : y # x => aes'[y] = aes[y]
  BY DEF CfbTypeOK
<1>3. ~ Ready(x) /\ \A y \in Side : Ready(y) => Ready(y)'
  BY <1>1 DEF Ready
<1>4. "sender" \in Side /\ "receiver" \in Side BY DEF Side
<1>5. (x = "sender" => plain = <<>>) /\ (x = "receiver" => arrived = <<>>)
  BY <1>3 DEF TrailOK, FollowOK
<1>6. trail' = IF plain = <<>> THEN <<aes'["sender"]>> ELSE trail
  BY DEF Restart
<1>7. CfbTypeOK'
  BY <1>1, <1>2, <1>4, <1>6 DEF CfbTypeOK
<1>8. HandlesOK'
  <2> SUFFICES ASSUME NEW y \in Side
      PROVE /\ <<y, "key">> \notin session'.unset => aes'[y].key = session'.key
            /\ <<y, "salt">> \notin session'.unset /\ (IF y = "sender" THEN plain ELSE arrived) = <<>>
                 => aes'[y].idx = -1 /\ aes'[y].blk = session'.salt
    BY DEF HandlesOK, Salted
  <2>1. CASE y # x BY <1>1, <1>2, <2>1 DEF HandlesOK, Salted
  <2>2. CASE y = x /\ what = "key" BY <1>1, <1>2, <2>2 DEF HandlesOK, Salted
  <2>3. CASE y = x /\ what = "salt" BY <1>1, <1>2, <2>3 DEF HandlesOK, Salted
  <2> QED BY <2>1, <2>2, <2>3
<1>9. TrailOK'
  <2>1. CASE plain = <<>>
    BY <1>6, <2>1 DEF TrailOK, CfbTypeOK
  <2>2. CASE plain # <<>>
    <3>1. x # "sender" /\ trail' = trail /\ aes'["sender"] = aes["sender"]
      BY <1>2, <1>4, <1>5, <1>6, <2>2
    <3> QED BY <1>1, <1>3, <1>4, <2>2, <3>1 DEF TrailOK, Salted
  <2> QED BY <2>1, <2>2
<1>10. FollowOK'
  <2>1. StreamArrives' BY DEF FollowOK, StreamArrives
  <2>2. ASSUME arrived # <<>>
        PROVE  Ready("receiver")' /\ aes'["receiver"] = trail'[Len(arrived) + 1]
    <3>1. x # "receiver" /\ Ready("receiver") BY <1>5, <2>2 DEF FollowOK
    <3>2. plain # <<>> BY <2>2 DEF FollowOK, StreamArrives, CfbTypeOK
    <3> QED BY <1>2, <1>3, <1>4, <1>6, <2>2, <3>1, <3>2 DEF FollowOK
  <2> QED BY <2>1, <2>2 DEF FollowOK
<1>11. LeftOK' BY <1>3, <1>4 DEF LeftOK
<1> QED BY <1>7, <1>8, <1>9, <1>10, <1>11

LEMMA CfbInvSetKey ==
  ASSUME CfbInv, NEW x \in Side, AES_SetKey(x)
  PROVE  CfbInv'
<1> DEFINE h == [aes[x] EXCEPT !.key = session.key]
<1>1. aes[x] \in Handle /\ session.key \in Keys BY DEF CfbInv, CfbTypeOK, Session
<1>2. h \in Handle /\ h.key = session.key /\ h.idx = aes[x].idx /\ h.blk = aes[x].blk
  BY <1>1 DEF Handle
<1>3. aes' = [aes EXCEPT ![x] = h] BY DEF AES_SetKey
<1> HIDE DEF h
<1> QED BY <1>2, <1>3, CfbInvSet DEF AES_SetKey

LEMMA CfbInvSetSalt ==
  ASSUME CfbInv, NEW x \in Side, AES_SetSalt(x)
  PROVE  CfbInv'
<1> DEFINE h == [[aes[x] EXCEPT !.idx = -1] EXCEPT !.blk = session.salt]
<1>1. aes \in [Side -> Handle] /\ aes[x] \in Handle /\ session.salt \in Blocks
  BY DEF CfbInv, CfbTypeOK, Session
<1>2. -1 \in -1..BlockLength BY BlocksAssumption
<1>3. h \in Handle /\ h.key = aes[x].key /\ h.idx = -1 /\ h.blk = session.salt
  BY <1>1, <1>2 DEF Handle
<1>4. aes' = [aes EXCEPT ![x] = h] BY <1>1 DEF AES_SetSalt
<1> HIDE DEF h
<1> QED BY <1>3, <1>4, CfbInvSet DEF AES_SetSalt

LEMMA CfbInvBegin ==
  ASSUME CfbInv, NEW len \in Lengths, BeginEncrypt(len) \/ BeginDecrypt(len)
  PROVE  CfbInv'
<1> USE DEF CfbInv
<1>1. len \in Nat BY BlocksAssumption
<1>2. /\ UNCHANGED <<aes, session, plain, wire, arrived, trail>>
      /\ left' \in [Side -> Nat]
  BY <1>1 DEF BeginEncrypt, BeginDecrypt, CfbTypeOK
<1>3. CfbTypeOK' BY <1>2 DEF CfbTypeOK
<1>4. HandlesOK' /\ TrailOK' /\ FollowOK'
  BY <1>2 DEF HandlesOK, TrailOK, FollowOK, StreamArrives, Salted, Ready
<1>5. LeftOK'
  BY <1>1, <1>2 DEF LeftOK, BeginEncrypt, BeginDecrypt, CfbTypeOK, Side, Ready
<1> QED BY <1>3, <1>4, <1>5

LEMMA CfbInvEncryptByte ==
  ASSUME CfbInv, EncryptByte
  PROVE  CfbInv'
<1> USE DEF CfbInv
<1> DEFINE h  == Refilled(aes["sender"])
           d  == Text[Len(plain) + 1]
           ch == XorOf(d, KeyByte(h))
           n  == Len(plain) + 1
<1>1. "sender" \in Side /\ "receiver" \in Side BY DEF Side
<1>2. aes["sender"] \in Handle /\ left["sender"] > 0 /\ Ready("sender")
  BY <1>1 DEF CfbTypeOK, LeftOK, EncryptByte
<1>3. /\ h \in Handle /\ h.idx \in 0..(BlockLength - 1) /\ h.key = aes["sender"].key
      /\ KeyByte(h) \in Bytes256
  BY <1>2, RefilledType
<1>4. d \in Bytes256
  BY <1>1, <1>2, BlocksAssumption DEF LeftOK, CfbTypeOK
<1>5. ch \in Bytes256 BY <1>3, <1>4, ByteComesBack
<1>6. Fed(h, ch) \in Handle /\ Fed(h, ch).key = h.key BY <1>3, <1>5, FedType
<1>7. /\ aes' = [aes EXCEPT !["sender"] = Fed(h, ch)]
      /\ left' = [left EXCEPT !["sender"] = @ - 1]
      /\ plain' = Append(plain, d) /\ wire' = Append(wire, ch)
      /\ trail' = Append(trail, Fed(h, ch))
      /\ UNCHANGED <<session, arrived>>
  BY DEF EncryptByte
<1> HIDE DEF d, ch, h
<1>8. n \in Nat /\ Len(plain) = n - 1 /\ Len(wire) = n - 1 /\ Len(trail) = n /\ trail[n] = aes["sender"]
  BY DEF CfbTypeOK, TrailOK
<1>9. /\ Len(plain') = n /\ Len(wire') = n /\ Len(trail') = n + 1
      /\ plain'[n] = d /\ wire'[n] = ch /\ trail'[n + 1] = Fed(h, ch) /\ trail'[n] = trail[n]
      /\ \A i \in 1..Len(plain) : plain'[i] = plain[i] /\ wire'[i] = wire[i] /\ trail'[i] = trail[i]
      /\ plain' # <<>>
  BY <1>7, <1>8 DEF CfbTypeOK
<1>10. CfbTypeOK'
  BY <1>1, <1>2, <1>4, <1>5, <1>6, <1>7 DEF CfbTypeOK
<1>11. HandlesOK'
  <2>1. aes'["receiver"] = aes["receiver"] /\ aes'["sender"].key = aes["sender"].key
    BY <1>1, <1>3, <1>6, <1>7 DEF CfbTypeOK
  <2> QED BY <1>7, <1>9, <2>1 DEF HandlesOK, Salted, Side
<1>12. TrailOK'
  <2>1. Ready("sender")' BY <1>2, <1>7 DEF Ready
  <2>2. trail'[1].key = session.key /\ Salted(trail'[1])
    <3>1. CASE plain = <<>>
      <4>1. n = 1 /\ trail'[1] = aes["sender"] BY <1>8, <1>9, <3>1
      <4>2. aes["sender"].key = session.key /\ Salted(aes["sender"])
        BY <1>1, <1>2, <3>1 DEF HandlesOK, Ready
      <4> QED BY <4>1, <4>2
    <3>2. CASE plain # <<>>
      BY <1>8, <1>9, <3>2 DEF TrailOK, CfbTypeOK
    <3> QED BY <3>1, <3>2
  <2>3. ASSUME NEW i \in 1..n
        PROVE  /\ wire'[i] = XorOf(plain'[i], KeyByte(Refilled(trail'[i])))
               /\ trail'[i + 1] = Fed(Refilled(trail'[i]), wire'[i])
    <3>1. CASE i = n BY <1>8, <1>9, <3>1 DEF h, ch
    <3>2. CASE i # n
      <4>1. i \in 1..Len(plain) /\ (i + 1 \in 1..Len(plain) \/ i + 1 = n)
        BY <1>8, <3>2
      <4>2. trail'[i + 1] = trail[i + 1] BY <1>9, <4>1
      <4> QED BY <1>9, <4>1, <4>2 DEF TrailOK
    <3> QED BY <3>1, <3>2
  <2>4. aes'["sender"] = Fed(h, ch) BY <1>1, <1>7 DEF CfbTypeOK
  <2> QED BY <1>7, <1>9, <2>1, <2>2, <2>3, <2>4 DEF TrailOK, Salted
<1>13. FollowOK'
  <2>1. Len(arrived) <= n - 1 /\ Len(arrived) \in Nat
    BY <1>8 DEF FollowOK, StreamArrives, CfbTypeOK
  <2>2. StreamArrives'
    BY <1>7, <1>8, <1>9, <2>1 DEF FollowOK, StreamArrives
  <2>3. aes'["receiver"] = aes["receiver"] /\ trail'[Len(arrived) + 1] = trail[Len(arrived) + 1]
    <3>1. Len(arrived) + 1 \in 1..Len(plain) \/ Len(arrived) + 1 = n BY <1>8, <2>1
    <3> QED BY <1>1, <1>7, <1>9, <3>1 DEF CfbTypeOK
  <2> QED BY <1>7, <2>2, <2>3 DEF FollowOK, Ready
<1>14. LeftOK'
  BY <1>1, <1>7, <1>8, <1>9 DEF LeftOK, CfbTypeOK, Ready, Side
<1> QED BY <1>10, <1>11, <1>12, <1>13, <1>14

LEMMA CfbInvDecryptByte ==
  ASSUME CfbInv, DecryptByte
  PROVE  CfbInv'
<1> USE DEF CfbInv
<1> DEFINE g  == aes["receiver"]
           n  == Len(arrived) + 1
           ch == wire[n]
           h  == Refilled(g)
<1>1. "sender" \in Side /\ "receiver" \in Side BY DEF Side
<1>2. g \in Handle /\ left["receiver"] > 0 /\ Ready("receiver")
  BY <1>1 DEF CfbTypeOK, LeftOK, DecryptByte
<1>3. n \in 1..Len(plain) /\ Len(arrived) = n - 1 /\ plain # <<>> /\ Len(wire) = Len(plain)
  BY <1>1, <1>2 DEF LeftOK, CfbTypeOK, TrailOK
<1>4. trail[n] \in Handle /\ plain[n] \in Bytes256 /\ ch \in Bytes256 /\ trail[1] \in Handle
  BY <1>3 DEF CfbTypeOK, TrailOK
<1>5. h = Refilled(trail[n])
  <2>1. CASE arrived = <<>>
    <3>1. /\ g.key = session.key /\ g.idx = -1 /\ g.blk = session.salt
          /\ trail[1].key = session.key /\ trail[1].idx = -1 /\ trail[1].blk = session.salt
      BY <1>1, <1>2, <1>3, <2>1 DEF HandlesOK, TrailOK, Ready, Salted
    <3>2. n = 1 BY <2>1
    <3> QED BY <1>2, <1>4, <3>1, <3>2, SameStart
  <2>2. CASE arrived # <<>>
    BY <2>2 DEF FollowOK
  <2> QED BY <2>1, <2>2
<1>6. /\ h \in Handle /\ h.idx \in 0..(BlockLength - 1) /\ h.key = g.key
      /\ KeyByte(h) \in Bytes256
  BY <1>2, RefilledType
<1>7. Fed(h, ch) \in Handle /\ Fed(h, ch).key = g.key BY <1>4, <1>6, FedType
<1>8. ch = XorOf(plain[n], KeyByte(h)) /\ trail[n + 1] = Fed(h, ch)
  BY <1>3, <1>5 DEF TrailOK
<1>9. XorOf(ch, KeyByte(h)) = plain[n] BY <1>4, <1>6, <1>8, ByteComesBack
<1>10. /\ aes' = [aes EXCEPT !["receiver"] = Fed(h, ch)]
       /\ left' = [left EXCEPT !["receiver"] = @ - 1]
       /\ arrived' = Append(arrived, plain[n])
       /\ UNCHANGED <<session, plain, wire, trail>>
  BY <1>9 DEF DecryptByte
<1> HIDE DEF ch, h, g
<1>11. Len(arrived') = n /\ arrived' # <<>> /\ arrived'[n] = plain[n]
       /\ \A i \in 1..Len(arrived) : arrived'[i] = arrived[i]
  BY <1>3, <1>4, <1>10 DEF CfbTypeOK
<1>12. CfbTypeOK' BY <1>1, <1>2, <1>4, <1>7, <1>10 DEF CfbTypeOK
<1>13. aes'["sender"] = aes["sender"] /\ aes'["receiver"] = Fed(h, ch)
  BY <1>1, <1>10 DEF CfbTypeOK
<1>14. HandlesOK'
  BY <1>7, <1>10, <1>11, <1>13 DEF HandlesOK, Salted, Side, g
<1>15. TrailOK' BY <1>10, <1>13 DEF TrailOK, Salted, Ready
<1>16. FollowOK'
  <2>1. StreamArrives' BY <1>3, <1>10, <1>11 DEF FollowOK, StreamArrives
  <2> QED BY <1>2, <1>8, <1>10, <1>11, <1>13, <2>1 DEF FollowOK, Ready
<1>17. LeftOK'
  BY <1>1, <1>2, <1>3, <1>10, <1>11 DEF LeftOK, CfbTypeOK, Ready, Side
<1> QED BY <1>12, <1>14, <1>15, <1>16, <1>17
-----------------------------------------------------------------------------
\* Bytes arrive as they were encrypted (AES_Encrypt, AES_Decrypt), for every
\* block cipher, block length, key, salt and way to cut the stream into calls,
\* and wherever a handle was in its block when it got a new key and salt.
THEOREM BytesArrive == CfbSpec => []StreamArrives
<1>1. CfbInv /\ [CfbNext]_cfbVars => CfbInv'
  <2> SUFFICES ASSUME CfbInv, [CfbNext]_cfbVars PROVE CfbInv' OBVIOUS
  <2>1. ASSUME NEW k \in Keys, NEW salt \in Salts, Agree(k, salt) PROVE CfbInv'
    BY <2>1, CfbInvAgree
  <2>2. ASSUME NEW x \in Side, AES_SetKey(x) PROVE CfbInv' BY <2>2, CfbInvSetKey
  <2>3. ASSUME NEW x \in Side, AES_SetSalt(x) PROVE CfbInv' BY <2>3, CfbInvSetSalt
  <2>4. ASSUME NEW len \in Lengths, BeginEncrypt(len) \/ BeginDecrypt(len) PROVE CfbInv'
    BY <2>4, CfbInvBegin
  <2>5. CASE EncryptByte BY <2>5, CfbInvEncryptByte
  <2>6. CASE DecryptByte BY <2>6, CfbInvDecryptByte
  <2>7. CASE UNCHANGED cfbVars
    BY <2>7 DEF cfbVars, CfbInv, CfbTypeOK, HandlesOK, TrailOK, FollowOK, LeftOK,
                StreamArrives, Salted, Ready
  <2> QED BY <2>1, <2>2, <2>3, <2>4, <2>5, <2>6, <2>7 DEF CfbNext
<1>2. CfbInv => StreamArrives BY DEF CfbInv, FollowOK
<1> QED BY <1>1, <1>2, CfbInvInit, PTL DEF CfbSpec

-----------------------------------------------------------------------------
(***************************************************************************)
(* That the variables of the connection keep their types, and that the     *)
(* account server is not called twice without a pause, for all servers,    *)
(* messages, settings and bounds.                                          *)
(***************************************************************************)

States == {NOT_CONNECTED, SPECIAL, CONNECTED_TO_MASTER_SERVER,
           CONNECTED_TO_LOGIN_SERVER, CONNECTED_TO_CHAR_SERVER, IN_GAME}
Links == {"none"} \cup DOMAIN Says

(* Who may call the account server again has rested; and who leaves the    *)
(* map server's state by a timeout, which starts no pause of its own, has  *)
(* started one when it called.                                             *)
Rested(c) ==
    /\ c.state = NOT_CONNECTED /\ ~c.tries /\ ~c.no_connect => c.rested
    /\ c.state = CONNECTED_TO_CHAR_SERVER /\ (c.tries \/ Alive(c)) => c.rested

(* What a step other than a call may make of a connection.                 *)
Follows(c, d) ==
    /\ d \in Connections
    /\ Rested(c) => Rested(d)
    /\ d.tries => c.tries

-----------------------------------------------------------------------------
(* What the operators return.                                              *)

(* The items of a sequence.                                                *)
LEMMA ItemType ==
  ASSUME NEW S, NEW s \in Seq(S)
  PROVE  \A k \in 1..Len(s) : s[k] \in S
OBVIOUS

(* A part of it, from any place to one of its places.                      *)
LEMMA PieceType ==
  ASSUME NEW S, NEW s \in Seq(S), NEW i \in Nat \ {0}, NEW j \in 0..Len(s)
  PROVE  SubSeq(s, i, j) \in Seq(S)
<1>1. \A k \in i..j : s[k] \in S
  OBVIOUS
<1>2. i \in Int /\ j \in Int
  OBVIOUS
<1> QED BY <1>1, <1>2, SubSeqProperties

(* Each operator on connections changes the fields it names.               *)
LEMMA InStateType ==
  ASSUME NEW c \in Connections, NEW s \in States
  PROVE  InState(s, c) \in Connections
BY DEF InState, Connections, States

(* The same for the operators without a state.                              *)
LEMMA OperatorTypes ==
  ASSUME NEW c \in Connections
  PROVE  /\ Disconnected(c) \in Connections /\ Untried(c) \in Connections
         /\ Paused(c) \in Connections /\ Quit(c) \in Connections
<1>0. << >> \in Seq(0..255)
  OBVIOUS
<1>1. Disconnected(c) \in Connections
  BY <1>0 DEF Disconnected, Connections
<1>2. Untried(c) \in Connections /\ Paused(c) \in Connections /\ Quit(c) \in Connections
  BY ZenonT(40) DEF Untried, Paused, Quit, Connections
<1> QED BY <1>1, <1>2

(* Relogged goes back to the beginning after a pause.                      *)
LEMMA RelogFollows ==
  ASSUME NEW c \in Connections
  PROVE  Follows(c, Relogged(c)) /\ Follows(c, Quit(Relogged(c)))
<1>0. NOT_CONNECTED \in States /\ NOT_CONNECTED # CONNECTED_TO_CHAR_SERVER
  BY DEF States, NOT_CONNECTED, CONNECTED_TO_CHAR_SERVER
<1>1. /\ Disconnected(c) \in Connections
      /\ Paused(Disconnected(c)) \in Connections
      /\ Untried(Paused(Disconnected(c))) \in Connections
      /\ Relogged(c) \in Connections
  BY <1>0, OperatorTypes, InStateType DEF Relogged
<1>2. Relogged(c).state = NOT_CONNECTED /\ ~Relogged(c).tries /\ Relogged(c).rested
  BY DEF Relogged, Disconnected, InState, Untried, Paused, Quit, Connections
<1>3. Quit(Relogged(c)) \in Connections
  BY <1>1, OperatorTypes
<1>4. /\ Quit(Relogged(c)).state = NOT_CONNECTED
      /\ ~Quit(Relogged(c)).tries /\ Quit(Relogged(c)).rested
  BY DEF Relogged, Disconnected, InState, Untried, Paused, Quit, Connections
<1> QED BY <1>0, <1>1, <1>2, <1>3, <1>4 DEF Follows, Rested

(* What operators change one by one follows, but for a way into the state  *)
(* of the map server without leaving the last one.                         *)
LEMMA OperatorFollows ==
  ASSUME NEW c \in Connections
  PROVE  /\ Follows(c, c)
         /\ Follows(c, Disconnected(c))
         /\ Follows(c, Quit(c))
         /\ Follows(c, Quit(Disconnected(c)))
         /\ \A s \in States \ {NOT_CONNECTED} :
              /\ Follows(c, Untried(InState(s, Disconnected(c))))
              /\ s # CONNECTED_TO_CHAR_SERVER =>
                   /\ Follows(c, InState(s, c))
                   /\ Follows(c, InState(s, Disconnected(c)))
                   /\ Follows(c, Untried(InState(s, c)))
<1>0. Disconnected(c) \in Connections /\ Quit(c) \in Connections
  BY OperatorTypes
<1>1. Follows(c, c) /\ Follows(c, Quit(c))
  BY <1>0 DEF Follows, Rested, Alive, Quit, Connections
<1>2. Follows(c, Disconnected(c))
  BY <1>0 DEF Follows, Rested, Alive, Disconnected, Connections
<1>3. Follows(c, Quit(Disconnected(c)))
  <2>1. Disconnected(c) \in Connections /\ Quit(Disconnected(c)) \in Connections
    BY OperatorTypes
  <2> QED BY <2>1 DEF Follows, Rested, Alive, Disconnected, Quit, Connections
<1>4. ASSUME NEW s \in States \ {NOT_CONNECTED}
      PROVE  /\ Follows(c, Untried(InState(s, Disconnected(c))))
             /\ s # CONNECTED_TO_CHAR_SERVER =>
                  /\ Follows(c, InState(s, c))
                  /\ Follows(c, InState(s, Disconnected(c)))
                  /\ Follows(c, Untried(InState(s, c)))
  <2>1. /\ Disconnected(c) \in Connections
        /\ InState(s, c) \in Connections
        /\ InState(s, Disconnected(c)) \in Connections
        /\ Untried(InState(s, Disconnected(c))) \in Connections
        /\ Untried(InState(s, c)) \in Connections
    BY OperatorTypes, InStateType
  <2>2. Follows(c, Untried(InState(s, Disconnected(c))))
    BY <2>1 DEF Follows, Rested, Alive, Disconnected, InState, Untried, Paused, Quit, Connections
  <2>3. ASSUME s # CONNECTED_TO_CHAR_SERVER
        PROVE  Follows(c, InState(s, c)) /\ Follows(c, InState(s, Disconnected(c)))
    BY <2>1, <2>3 DEF Follows, Rested, Alive, Disconnected, InState, Untried, Paused, Quit, Connections
  <2>4. ASSUME s # CONNECTED_TO_CHAR_SERVER
        PROVE  Follows(c, Untried(InState(s, c)))
    BY <2>1, <2>4 DEF Follows, Rested, Alive, Disconnected, InState, Untried, Paused, Quit, Connections
  <2> QED BY <2>2, <2>3, <2>4
<1> QED BY <1>1, <1>2, <1>3, <1>4

(* Who names a server, or chooses a character, changes nothing else.       *)
Named(c) == [c EXCEPT !.server = TRUE]
Picked(c) == [c EXCEPT !.char = TRUE]
Configured(c, server, char) == [c EXCEPT !.server = server, !.char = char]
Choosing(c) == {Named(c), Picked(c)} \cup {Configured(c, s, h) : s, h \in BOOLEAN}

LEMMA ChoiceKeeps ==
  ASSUME NEW c \in Connections, NEW d \in Choosing(c)
  PROVE  /\ d \in Connections
         /\ d.state = c.state /\ d.tries = c.tries /\ d.link = c.link /\ d.rested = c.rested
         /\ d.no_connect = c.no_connect /\ d.wire = c.wire /\ d.hungUp = c.hungUp
<1> DEFINE Keeps(e) ==
        /\ e \in Connections
        /\ e.state = c.state /\ e.tries = c.tries /\ e.link = c.link /\ e.rested = c.rested
        /\ e.no_connect = c.no_connect /\ e.wire = c.wire /\ e.hungUp = c.hungUp
<1>1. Keeps(Named(c))
  <2>1. Named(c) \in Connections
    BY ZenonT(40) DEF Named, Connections
  <2> QED BY <2>1 DEF Named, Connections
<1>2. Keeps(Picked(c))
  <2>1. Picked(c) \in Connections
    BY ZenonT(40) DEF Picked, Connections
  <2> QED BY <2>1 DEF Picked, Connections
<1>3. ASSUME NEW s \in BOOLEAN, NEW h \in BOOLEAN PROVE Keeps(Configured(c, s, h))
  <2>1. Configured(c, s, h) \in Connections
    BY ZenonT(40) DEF Configured, Connections
  <2> QED BY <2>1 DEF Configured, Connections
<1> HIDE DEF Keeps
<1>4. Keeps(d)
  BY <1>1, <1>2, <1>3 DEF Choosing
<1> QED BY <1>4 DEF Keeps

(* What the screen of characters and the answers of the account server     *)
(* choose.                                                                 *)
LEMMA ScreensChoose ==
  ASSUME NEW c
  PROVE  /\ charSelectScreen(c) \subseteq {c, Quit(c), Relogged(c)} \cup Choosing(c)
         /\ account_server_info(c) \subseteq
              LET a == Untried(InState(CONNECTED_TO_MASTER_SERVER, Disconnected(c)))
              IN  {Quit(a)} \cup Choosing(a)
<1>1. charSelectScreen(c) = {c, Picked(c), Quit(c), Relogged(c)}
  BY Zenon DEF charSelectScreen, Picked
<1> DEFINE a == Untried(InState(CONNECTED_TO_MASTER_SERVER, Disconnected(c)))
<1>2. account_server_info(c) = {Named(a), Quit(a)}
  BY Zenon DEF account_server_info, Named
<1> HIDE DEF a
<1>3. account_server_info(c) \subseteq {Quit(a)} \cup Choosing(a)
  BY <1>2 DEF Choosing
<1> QED BY <1>1, <1>3 DEF Choosing, a

(* And the user, who changes the settings.                                 *)
LEMMA SettingsChoose ==
  ASSUME Configure
  PROVE  conn' \in Choosing(conn)
<1>1. PICK s \in BOOLEAN, h \in BOOLEAN : conn' = [conn EXCEPT !.server = s, !.char = h]
  BY Zenon DEF Configure
<1>2. conn' = Configured(conn, s, h)
  BY <1>1, Zenon DEF Configured
<1> QED BY <1>2 DEF Choosing

LEMMA ChoiceFollows ==
  ASSUME NEW c \in Connections, NEW d \in Choosing(c)
  PROVE  Follows(c, d)
BY ChoiceKeeps DEF Follows, Rested, Alive

-----------------------------------------------------------------------------
(* What the handlers may make of a connection.                             *)

(* A refused login: the types that may end the program, that start a      *)
(* pause, or that keep the try.                                            *)
LEMMA LoginErrorFollows ==
  ASSUME NEW c \in Connections, NEW type, NEW d \in login_error(c, type)
  PROVE  Follows(c, d)
<1> DEFINE a == [Untried(Disconnected(c)) EXCEPT !.pause = FALSE, !.rested = TRUE]
<1>1. Disconnected(c) \in Connections /\ Untried(Disconnected(c)) \in Connections
  BY OperatorTypes
<1>2. a \in Connections
  BY <1>1 DEF Connections
<1>3. a.rested /\ ~a.tries
  BY DEF Untried, Disconnected, Connections
<1>4. Follows(c, a)
  BY <1>2, <1>3 DEF Follows, Rested
<1>5. d \in {Disconnected(c), Quit(Disconnected(c)), a, Relogged(Disconnected(c))}
  <2>1. CASE type \in {0, 1}
    <3>1. login_error(c, type) = {Disconnected(c), Quit(Disconnected(c)), a}
      BY <2>1 DEF login_error
    <3> HIDE DEF a
    <3> QED BY <3>1
  <2>2. CASE type = 4
    BY <2>2 DEF login_error
  <2>3. CASE type \in {5, 105}
    BY <2>3 DEF login_error
  <2>4. CASE type \notin {0, 1, 4, 5, 105}
    BY <2>4 DEF login_error
  <2> QED BY <2>1, <2>2, <2>3, <2>4
<1>6. Follows(c, Relogged(Disconnected(c)))
  BY <1>1, OperatorFollows, RelogFollows DEF Follows
<1> HIDE DEF a
<1> QED BY <1>4, <1>5, <1>6, OperatorFollows

(* A list of characters, with what charSelectScreen makes of it.           *)
LEMMA ReceivedCharactersFollows ==
  ASSUME NEW c \in Connections, NEW m, NEW d \in received_characters(c, m)
  PROVE  Follows(c, d)
<1> DEFINE l == Untried(InState(CONNECTED_TO_LOGIN_SERVER, c))
<1>0. /\ CONNECTED_TO_LOGIN_SERVER \in States \ {NOT_CONNECTED}
      /\ SPECIAL \in States \ {NOT_CONNECTED}
      /\ CONNECTED_TO_LOGIN_SERVER # CONNECTED_TO_CHAR_SERVER
      /\ SPECIAL # CONNECTED_TO_CHAR_SERVER
  BY DEF States, CONNECTED_TO_LOGIN_SERVER, NOT_CONNECTED, SPECIAL, CONNECTED_TO_CHAR_SERVER,
         IN_GAME
<1>1. l \in Connections /\ Follows(c, l)
  BY <1>0, OperatorFollows DEF Follows
<1>2. \A e \in {l, Quit(l), Relogged(l), InState(SPECIAL, l)} \cup Choosing(l) : Follows(l, e)
  BY <1>0, <1>1, OperatorFollows, RelogFollows, ChoiceFollows
<1>3. d = c \/ d \in {l, Quit(l), Relogged(l), InState(SPECIAL, l)} \cup Choosing(l)
  BY ScreensChoose DEF received_characters
<1>4. Follows(c, c)
  BY OperatorFollows
<1> HIDE DEF l
<1> QED BY <1>1, <1>2, <1>3, <1>4 DEF Follows

(* Errors go back to the beginning, after a pause and perhaps for good.    *)
LEMMA ErrorsFollows ==
  ASSUME NEW c \in Connections, NEW type, NEW d \in errors(c, type)
  PROVE  Follows(c, d)
<1> DEFINE a == InState(NOT_CONNECTED, Untried(Paused(c)))
<1>1. a \in Connections /\ Quit(a) \in Connections
  BY OperatorTypes, InStateType DEF States
<1>2. a.state = NOT_CONNECTED /\ a.rested /\ ~a.tries
  BY DEF InState, Untried, Paused, Connections
<1>3. Quit(a).state = NOT_CONNECTED /\ Quit(a).rested /\ ~Quit(a).tries
  BY DEF InState, Untried, Paused, Quit, Connections
<1>4. Follows(c, a) /\ Follows(c, Quit(a))
  BY <1>1, <1>2, <1>3 DEF Follows, Rested, NOT_CONNECTED, CONNECTED_TO_CHAR_SERVER
<1>5. d \in {a, Quit(a), Relogged(c), Quit(Relogged(c))}
  BY DEF errors
<1> QED BY <1>4, <1>5, RelogFollows

(* Whatever the message is.                                                *)
LEMMA HandledFollows ==
  ASSUME NEW c \in Connections, NEW m, NEW d \in Handled(c, m)
  PROVE  Follows(c, d)
<1>0. /\ {CONNECTED_TO_MASTER_SERVER, CONNECTED_TO_CHAR_SERVER, IN_GAME} \subseteq States
      /\ NOT_CONNECTED \notin {CONNECTED_TO_MASTER_SERVER, CONNECTED_TO_CHAR_SERVER, IN_GAME}
      /\ CONNECTED_TO_CHAR_SERVER \notin {CONNECTED_TO_MASTER_SERVER, IN_GAME}
  BY DEF States, CONNECTED_TO_MASTER_SERVER, NOT_CONNECTED, IN_GAME, CONNECTED_TO_CHAR_SERVER
<1>1. ASSUME d \in account_server_info(c) PROVE Follows(c, d)
  <2> DEFINE a == Untried(InState(CONNECTED_TO_MASTER_SERVER, Disconnected(c)))
  <2>1. Follows(c, a) /\ a \in Connections
    BY <1>0, OperatorFollows DEF Follows
  <2>2. d \in {Quit(a)} \cup Choosing(a)
    BY <1>1, ScreensChoose
  <2> HIDE DEF a
  <2>3. Follows(a, d)
    BY <2>1, <2>2, OperatorFollows, ChoiceFollows
  <2> QED BY <2>1, <2>3 DEF Follows
<1>2. ASSUME d \in login_error_game_login_server(c) PROVE Follows(c, d)
  BY <1>2, RelogFollows DEF login_error_game_login_server
<1>3. ASSUME d \in received_character_ID_and_Map(c) PROVE Follows(c, d)
  BY <1>0, <1>3, OperatorFollows DEF received_character_ID_and_Map
<1>4. ASSUME d \in map_loaded(c) PROVE Follows(c, d)
  BY <1>0, <1>4, OperatorFollows DEF map_loaded
<1>5. ASSUME d \in map_changed(c) PROVE Follows(c, d)
  BY <1>0, <1>5, OperatorFollows DEF map_changed
<1>6. ASSUME d \in switch_character(c) PROVE Follows(c, d)
  BY <1>0, <1>6, OperatorFollows DEF switch_character
<1>7. Follows(c, c)
  BY OperatorFollows
<1> DEFINE type == IF Len(m) >= 3 THEN m[3] ELSE 0
<1>8. \/ d \in account_server_info(c) \/ d \in login_error(c, type)
      \/ d \in login_error_game_login_server(c) \/ d \in received_characters(c, m)
      \/ d \in received_character_ID_and_Map(c) \/ d \in map_loaded(c)
      \/ d \in map_changed(c) \/ d \in switch_character(c) \/ d \in errors(c, type) \/ d = c
  BY DEF Handled
<1> HIDE DEF type
<1> QED BY <1>1, <1>2, <1>3, <1>4, <1>5, <1>6, <1>7, <1>8,
           LoginErrorFollows, ReceivedCharactersFollows, ErrorsFollows

-----------------------------------------------------------------------------
(* What the steps make of the connection.                                  *)

(* Branches of checkConnection that call nobody.  The last conjunct is the *)
(* guard that TimesOut adds.                                               *)
LEMMA BranchFollows ==
  ASSUME conn \in Connections, Rested(conn),
         \/ AccountTimeout
         \/ ServerTimeout /\ MayTimeOut
         \/ GameTimeout
         \/ LoseSpecial
         \/ LoseGame
  PROVE  Follows(conn, conn')
<1> USE DEF Follows
<1>0. NOT_CONNECTED \in States /\ NOT_CONNECTED # CONNECTED_TO_CHAR_SERVER
  BY DEF States, NOT_CONNECTED, CONNECTED_TO_CHAR_SERVER
<1>1. CASE AccountTimeout
  <2> DEFINE d == Untried(Disconnected(Paused(conn)))
  <2>1. d \in Connections
    BY OperatorTypes
  <2>2. d.state = conn.state /\ d.rested /\ ~d.tries
    BY DEF Untried, Disconnected, Paused, Connections
  <2>3. conn' \in {Quit(conn), d}
    BY <1>1 DEF AccountTimeout
  <2> HIDE DEF d
  <2> QED BY <2>1, <2>2, <2>3, OperatorFollows DEF Rested
<1>2. CASE ServerTimeout /\ MayTimeOut
  <2> DEFINE d == InState(NOT_CONNECTED, Untried(Disconnected(conn)))
  <2>1. CASE conn' = Relogged(conn)
    BY <2>1, RelogFollows
  <2>2. CASE conn.state = CONNECTED_TO_CHAR_SERVER /\ conn' = d
    <3>0. ~Unchosen
      BY <2>2 DEF Unchosen, CONNECTED_TO_MASTER_SERVER, CONNECTED_TO_LOGIN_SERVER,
                  CONNECTED_TO_CHAR_SERVER
    <3>1. conn.tries \/ Alive(conn)
      BY <1>2, <1>0, <2>2, <3>0 DEF MayTimeOut, MustCall
    <3>2. d \in Connections
      BY <1>0, OperatorTypes, InStateType
    <3>3. conn.rested
      BY <2>2, <3>1 DEF Rested
    <3>4. d.state = NOT_CONNECTED /\ d.rested = conn.rested /\ ~d.tries
      BY DEF InState, Untried, Disconnected, Connections
    <3> QED BY <1>0, <2>2, <3>2, <3>3, <3>4 DEF Rested
  <2> QED BY <1>2, <2>1, <2>2 DEF ServerTimeout
<1>3. CASE GameTimeout \/ LoseGame
  BY <1>3, OperatorFollows, RelogFollows DEF GameTimeout, LoseGame
<1>4. CASE LoseSpecial
  <2> DEFINE c == Untried(InState(NOT_CONNECTED, conn))
             d == [c EXCEPT !.rested = TRUE]
  <2>1. c \in Connections
    BY <1>0, OperatorTypes, InStateType
  <2>2. d \in Connections
    BY <2>1 DEF Connections
  <2>3. d.state = NOT_CONNECTED /\ d.rested /\ ~d.tries
    BY DEF InState, Untried, Connections
  <2>4. conn' = d
    BY <1>4 DEF LoseSpecial
  <2> HIDE DEF d
  <2> QED BY <1>0, <2>2, <2>3, <2>4 DEF Rested
<1> QED BY <1>1, <1>2, <1>3, <1>4

(* Commands: relog pauses, offlineMode forbids calls, connect is allowed   *)
(* to call at once.                                                        *)
LEMMA CommandFollows ==
  ASSUME conn \in Connections, Command
  PROVE  Follows(conn, conn')
<1>0. NOT_CONNECTED \in States /\ NOT_CONNECTED # CONNECTED_TO_CHAR_SERVER
  BY DEF States, NOT_CONNECTED, CONNECTED_TO_CHAR_SERVER
<1>1. CASE Relog
  BY <1>1, RelogFollows DEF Relog
<1>2. CASE Offline
  <2> DEFINE c == Untried(InState(NOT_CONNECTED, Disconnected(conn)))
  <2>1. c \in Connections
    BY <1>0, OperatorTypes, InStateType
  <2>2. conn' = [c EXCEPT !.no_connect = TRUE]
    BY <1>2 DEF Offline, StaysAway
  <2>3. c.state = NOT_CONNECTED /\ ~c.tries
    BY DEF InState, Untried, Disconnected, Connections
  <2> HIDE DEF c
  <2>4. conn' \in Connections /\ conn'.state = NOT_CONNECTED /\ ~conn'.tries /\ conn'.no_connect
    BY <2>1, <2>2, <2>3, ZenonT(40) DEF Connections
  <2> QED BY <1>0, <2>4 DEF Follows, Rested
<1>3. CASE Connect
  <2>0. conn' = [conn EXCEPT !.no_connect = FALSE, !.rested = TRUE]
    BY <1>3 DEF Connect
  <2>1. conn' \in Connections
    BY <2>0, ZenonT(40) DEF Connections
  <2>2. conn'.rested /\ conn'.tries = conn.tries
    BY <1>3 DEF Connect, Connections
  <2> QED BY <2>1, <2>2 DEF Follows, Rested
<1>4. CASE Configure
  <2>1. conn' \in Choosing(conn)
    BY <1>4, SettingsChoose
  <2> QED BY <2>1, ChoiceFollows
<1> QED BY <1>1, <1>2, <1>3, <1>4 DEF Command

(* What the network does to the bytes under way.                           *)
LEMMA NetworkFollows ==
  ASSUME conn \in Connections, Receive \/ Speaks \/ HangsUp \/ PauseEnds
  PROVE  Follows(conn, conn')
<1>1. conn.wire \in Seq(0..255)
  BY DEF Connections
<1>2. CASE Receive
  <2>1. ASSUME NEW n \in 1..Len(conn.wire),
               conn' = [conn EXCEPT !.wire = SubSeq(@, n + 1, Len(@))]
        PROVE  Follows(conn, conn')
    <3>1. SubSeq(conn.wire, n + 1, Len(conn.wire)) \in Seq(0..255)
      <4>1. n + 1 \in Nat \ {0} /\ Len(conn.wire) \in 0..Len(conn.wire)
        BY <1>1
      <4> QED BY <1>1, <4>1, PieceType
    <3>2. conn' \in Connections
      BY <2>1, <3>1, ZenonT(40) DEF Connections
    <3> QED BY <2>1, <3>2 DEF Follows, Rested, Alive, Connections
  <2>2. conn' = Disconnected(conn) => Follows(conn, conn')
    BY OperatorFollows
  <2>3. conn' = conn => Follows(conn, conn')
    BY OperatorFollows
  <2> QED BY <1>2, <2>1, <2>2, <2>3 DEF Receive
<1>3. CASE Speaks
  <2>1. PICK m \in Says[conn.link] : conn' = [conn EXCEPT !.wire = @ \o m]
    BY <1>3 DEF Speaks
  <2>2. m \in Seq(0..255)
    BY <1>3, <2>1, ConnectionAssumption DEF Speaks, Alive, Connections
  <2>3. conn.wire \o m \in Seq(0..255)
    BY <1>1, <2>2
  <2>4. conn' \in Connections
    BY <2>1, <2>3, ZenonT(40) DEF Connections
  <2> QED BY <2>1, <2>4 DEF Follows, Rested, Alive, Connections
<1>4. CASE HangsUp
  <2>1. PICK n \in 0..Len(conn.wire) :
          conn' = [conn EXCEPT !.hungUp = TRUE, !.wire = SubSeq(@, 1, n)]
    BY <1>4 DEF HangsUp
  <2>2. SubSeq(conn.wire, 1, n) \in Seq(0..255)
    BY <1>1, PieceType, 1 \in Nat \ {0}
  <2>3. conn' \in Connections
    BY <2>1, <2>2, ZenonT(40) DEF Connections
  <2> QED BY <2>1, <2>3 DEF Follows, Rested, Alive, Connections
<1>5. CASE PauseEnds
  <2>1. conn' \in Connections
    BY <1>5, ZenonT(40) DEF PauseEnds, Connections
  <2> QED BY <1>5, <2>1 DEF PauseEnds, Follows, Rested, Alive, Connections
<1> QED BY <1>2, <1>3, <1>4, <1>5

(* What a call of the account server makes of the connection, with or      *)
(* without a parser, a connection, and the end of the program.             *)
LEMMA AccountServerAnswers ==
  ASSUME conn \in Connections, NEW d \in AccountServerCalled
  PROVE  d \in Connections /\ d.tries /\ d.state = conn.state /\ d.wire = conn.wire
<1> DEFINE tried == [conn EXCEPT !.tries = TRUE]
           n == IF conn.reconnectCount < config.dcOnMaxReconnections
                  THEN conn.reconnectCount + 1 ELSE conn.reconnectCount
           Call(server) == [tried EXCEPT !.link = server, !.rested = FALSE, !.reconnectCount = n]
           Is(c) == c \in Connections /\ c.tries /\ c.state = conn.state /\ c.wire = conn.wire
<1>1. Is(tried)
  <2>1. tried \in Connections
    BY ZenonT(40) DEF Connections
  <2> QED BY <2>1 DEF Connections
<1>2. n \in Nat
  BY DEF Connections
<1>3. ASSUME NEW server \in {"account", "none"} PROVE Is(Call(server))
  <2>1. server \in {"none"} \cup DOMAIN Says
    BY ConnectionAssumption
  <2> HIDE DEF n
  <2>2. Call(server) \in Connections
    <3> HIDE DEF tried
    <3> QED BY <1>1, <1>2, <2>1, ZenonT(40) DEF Connections
  <2> QED BY <2>2 DEF Connections
<1>4. ASSUME NEW c, Is(c) PROVE Is(Quit(c))
  <2>1. Quit(c) \in Connections
    BY <1>4, OperatorTypes
  <2> QED BY <1>4, <2>1 DEF Quit, Connections
<1>5. d \in {Quit(tried), Call("account"), Call("none"), Quit(Call("none"))}
  BY DEF AccountServerCalled, Connections
<1> HIDE DEF tried, Call, Is
<1>6. Is(d)
  BY <1>1, <1>3, <1>4, <1>5
<1> QED BY <1>6 DEF Is

(* A server that is not in the list: another is chosen, or the user quits. *)
LEMMA AnswerIs ==
  ASSUME conn \in Connections, Answers
  PROVE  /\ conn' \in Connections /\ Rested(conn')
         /\ conn'.link = conn.link /\ conn'.wire = conn.wire /\ conn'.hungUp = conn.hungUp
<1> DEFINE tried == [conn EXCEPT !.tries = TRUE]
<1>0. conn.state = CONNECTED_TO_MASTER_SERVER
  BY DEF Answers, NoSuchServer
<1>1. tried \in Connections
  BY ZenonT(40) DEF Connections
<1>2. /\ tried.state = conn.state /\ tried.link = conn.link
      /\ tried.wire = conn.wire /\ tried.hungUp = conn.hungUp
  BY DEF Connections
<1>3. conn' \in {conn, Quit(tried)}
  BY DEF Answers, NoSuchServer
<1> HIDE DEF tried
<1>4. /\ Quit(tried) \in Connections /\ Quit(tried).state = conn.state
      /\ Quit(tried).link = conn.link /\ Quit(tried).wire = conn.wire
      /\ Quit(tried).hungUp = conn.hungUp
  <2>1. Quit(tried) \in Connections
    BY <1>1, OperatorTypes
  <2> QED BY <1>1, <1>2, <2>1 DEF Quit, Connections
<1>5. /\ conn' \in Connections /\ conn'.state = conn.state
      /\ conn'.link = conn.link /\ conn'.wire = conn.wire /\ conn'.hungUp = conn.hungUp
  BY <1>3, <1>4
<1>6. Rested(conn')
  BY <1>0, <1>5 DEF Rested, NOT_CONNECTED, CONNECTED_TO_MASTER_SERVER, CONNECTED_TO_CHAR_SERVER
<1> QED BY <1>5, <1>6

(* A call counts a try.  The account server's ends the rest, that of the   *)
(* map server begins one.                                                  *)
LEMMA CallFollows ==
  ASSUME conn \in Connections, CallAccountServer \/ CallServer
  PROVE  conn' \in Connections /\ Rested(conn')
<1>0. << >> \in Seq(0..255) /\ AccountID \in Seq(0..255)
  BY TokenizerAssumption
<1>1. CASE CallAccountServer
  <2>1. conn' \in AccountServerCalled /\ conn.state = NOT_CONNECTED
    BY <1>1 DEF CallAccountServer
  <2>2. conn' \in Connections /\ conn'.state = conn.state
    BY <2>1, AccountServerAnswers
  <2> QED BY <2>1, <2>2, AccountServerAnswers DEF Rested, NOT_CONNECTED, CONNECTED_TO_CHAR_SERVER
<1>2. CASE CallServer
  <2> DEFINE server == IF conn.state = CONNECTED_TO_CHAR_SERVER THEN "map" ELSE "char"
             c == IF server = "map" THEN Paused(conn) ELSE conn
  <2>1. c \in Connections
    BY OperatorTypes
  <2>2. c.state = conn.state /\ c.tries = conn.tries
    BY DEF Paused, Connections
  <2>3. conn.state = CONNECTED_TO_CHAR_SERVER => c.rested
    BY DEF Paused, Connections
  <2>4. conn.state # NOT_CONNECTED
    BY <1>2 DEF CallServer
  <2>5. server \in {"none"} \cup DOMAIN Says
    BY ConnectionAssumption
  <2>6. \/ conn' = [c EXCEPT !.tries = TRUE]
        \/ \E hello \in {<< >>, AccountID} :
             conn' = [c EXCEPT !.tries = TRUE, !.link = server, !.wire = hello,
                        !.reconnectCount = IF conn.state = CONNECTED_TO_MASTER_SERVER THEN 0 ELSE @]
    BY <1>2 DEF CallServer
  <2> HIDE DEF c, server
  <2>7. CASE conn' = [c EXCEPT !.tries = TRUE]
    <3>1. conn' \in Connections
      BY <2>1, <2>7 DEF Connections
    <3>2. conn'.state = conn.state /\ conn'.rested = c.rested
      BY <2>1, <2>2, <2>7 DEF Connections
    <3> QED BY <2>3, <2>4, <3>1, <3>2 DEF Rested
  <2>8. ASSUME NEW hello \in {<< >>, AccountID},
               conn' = [c EXCEPT !.tries = TRUE, !.link = server, !.wire = hello,
                          !.reconnectCount = IF conn.state = CONNECTED_TO_MASTER_SERVER THEN 0 ELSE @]
        PROVE  conn' \in Connections /\ Rested(conn')
    <3>1. hello \in Seq(0..255)
      BY <1>0
    <3>2. (IF conn.state = CONNECTED_TO_MASTER_SERVER THEN 0 ELSE c.reconnectCount) \in Nat
      BY <2>1 DEF Connections
    <3>3. conn' \in Connections
      BY <2>1, <2>5, <2>8, <3>1, <3>2, ZenonT(40) DEF Connections
    <3>4. conn'.state = conn.state /\ conn'.rested = c.rested
      BY <2>1, <2>2, <2>8 DEF Connections
    <3> QED BY <2>3, <2>4, <3>3, <3>4 DEF Rested
  <2> QED BY <2>6, <2>7, <2>8
<1> QED BY <1>1, <1>2

-----------------------------------------------------------------------------
(* The theorems.                                                           *)

(* The branches of readNext exclude each other.                            *)
LEMMA LengthCases ==
  ASSUME NEW n \in Nat
  PROVE  /\ n < 2 => ~(n \in 2..3)
         /\ n < 2 => ~(n >= 4)
         /\ n \in 2..3 => ~(n >= 4)
OBVIOUS

(* What readNext leaves in the buffer, and the mark.                       *)
LEMMA ReadNextType ==
  ASSUME buffer \in Seq(0..255), mightBe \in BOOLEAN
  PROVE  ReadNext.buffer \in Seq(0..255) /\ ReadNext.mark \in BOOLEAN
<1>1. ASSUME NEW mark \in BOOLEAN
      PROVE  Undef(mark).buffer \in Seq(0..255) /\ Undef(mark).mark \in BOOLEAN
  BY <1>1 DEF Undef
<1>2. ASSUME NEW type, NEW n \in Nat, n <= Len(buffer)
      PROVE  Cut(type, n).buffer \in Seq(0..255) /\ Cut(type, n).mark \in BOOLEAN
  <2>1. n + 1 \in Nat \ {0} /\ Len(buffer) \in 0..Len(buffer)
    BY <1>2
  <2>2. SubSeq(buffer, n + 1, Len(buffer)) \in Seq(0..255)
    BY <2>1, PieceType
  <2> QED BY <2>2 DEF Cut
<1>3. Len(buffer) \in Nat
  OBVIOUS
<1>4. ASSUME Len(buffer) >= 2
      PROVE  ReadUnmarked.buffer \in Seq(0..255) /\ ReadUnmarked.mark \in BOOLEAN
  <2>1. MessageLength(buffer) \in Nat
    <3>1. CASE ~Known(buffer)
      BY <3>1, <1>3 DEF MessageLength
    <3>2. CASE Known(buffer) /\ Rpackets[Switch(buffer)] > 1
      <4>1. Rpackets[Switch(buffer)] \in Int
        BY <3>2, TokenizerAssumption DEF Known
      <4> QED BY <3>2, <4>1 DEF MessageLength
    <3>3. CASE Known(buffer) /\ ~(Rpackets[Switch(buffer)] > 1)
      <4>1. Len(buffer) >= 4 => Stated(buffer) \in Nat
        <5>1. Len(buffer) >= 4 => 3 \in 1..Len(buffer) /\ 4 \in 1..Len(buffer)
          BY <1>3
        <5>2. \A k \in 1..Len(buffer) : buffer[k] \in 0..255
          BY ItemType
        <5>3. Len(buffer) >= 4 => buffer[3] \in Nat /\ buffer[4] \in Nat
          <6>1. \A v \in 0..255 : v \in Nat
            OBVIOUS
          <6> QED BY <5>1, <5>2, <6>1, Zenon
        <5> QED BY <5>3 DEF Stated
      <4> QED BY <1>3, <3>3, <4>1 DEF MessageLength
    <3> QED BY <3>1, <3>2, <3>3
  <2>2. ReadUnmarked = Undef(FALSE)
        \/ \E type \in {"known", "unknown"} :
             MessageLength(buffer) <= Len(buffer) /\ ReadUnmarked = Cut(type, MessageLength(buffer))
    BY <1>3, <2>1 DEF ReadUnmarked
  <2>3. ASSUME NEW type, MessageLength(buffer) <= Len(buffer),
               ReadUnmarked = Cut(type, MessageLength(buffer))
        PROVE  ReadUnmarked.buffer \in Seq(0..255) /\ ReadUnmarked.mark \in BOOLEAN
    BY <1>2, <2>1, <2>3
  <2> QED BY <1>1, <2>2, <2>3
<1>5. \/ ReadNext = Undef(mightBe)
      \/ ReadNext = Undef(TRUE)
      \/ Len(buffer) >= 4 /\ ReadNext = Cut("account ID", 4)
      \/ Len(buffer) >= 2 /\ ReadNext = ReadUnmarked
  <2>1. CASE Len(buffer) < 2
    <3>1. ~(Len(buffer) \in 2..3)
      BY <1>3, <2>1, LengthCases
    <3>2. ~(Len(buffer) >= 4)
      BY <1>3, <2>1, LengthCases
    <3>3. ReadNext = Undef(mightBe)
      BY <2>1, <3>1, <3>2, Zenon DEF ReadNext
    <3> QED BY <3>3, Zenon
  <2>2. CASE ~(Len(buffer) < 2) /\ Len(buffer) \in 2..3 /\ mightBe
    <3>1. ~(Len(buffer) >= 4)
      BY <1>3, <2>2, LengthCases
    <3>2. ReadNext = Undef(TRUE)
      BY <2>2, <3>1, Zenon DEF ReadNext
    <3> QED BY <3>2, Zenon
  <2>3. CASE /\ ~(Len(buffer) < 2) /\ ~(Len(buffer) \in 2..3 /\ mightBe)
             /\ Len(buffer) >= 4 /\ mightBe /\ SubSeq(buffer, 1, 4) = AccountID
    <3>1. ReadNext = Cut("account ID", 4)
      BY <2>3, Zenon DEF ReadNext
    <3> QED BY <2>3, <3>1, Zenon
  <2>4. CASE /\ ~(Len(buffer) < 2) /\ ~(Len(buffer) \in 2..3 /\ mightBe)
             /\ ~(Len(buffer) >= 4 /\ mightBe /\ SubSeq(buffer, 1, 4) = AccountID)
    <3>1. ReadNext = ReadUnmarked
      BY <2>4, Zenon DEF ReadNext
    <3>2. Len(buffer) >= 2
      BY <1>3, <2>4
    <3> QED BY <3>1, <3>2
  <2> QED BY <2>1, <2>2, <2>3, <2>4
<1> QED BY <1>1, <1>2, <1>3, <1>4, <1>5, ZenonT(40)

(* The inductive invariant: types, and that whoever may call has rested.   *)
ConnInv == ConnTypeOK /\ Rested(conn)

(* It holds at the beginning.                                              *)
LEMMA InvInit == ConnInit => ConnInv
<1> SUFFICES ASSUME ConnInit PROVE ConnInv
  OBVIOUS
<1>1. << >> \in Seq(0..255)
  OBVIOUS
<1>2. conn \in Connections
  <2>1. PICK option, server, char \in BOOLEAN :
          conn = [state |-> NOT_CONNECTED, tries |-> FALSE, link |-> "none", hungUp |-> FALSE,
                  wire |-> << >>, pause |-> FALSE, rested |-> TRUE, reconnectCount |-> 0,
                  no_connect |-> option, server |-> server, char |-> char, quit |-> FALSE]
    BY DEF ConnInit
  <2> QED BY <1>1, <2>1 DEF Connections
<1>3. conn.state = NOT_CONNECTED /\ conn.rested
  BY DEF ConnInit
<1>4. Rested(conn)
  BY <1>3 DEF Rested, NOT_CONNECTED, CONNECTED_TO_CHAR_SERVER
<1>5. /\ config \in Configs /\ step \in {"check", "receive", "process"}
      /\ buffer \in Seq(0..255) /\ {mightBe, clean} \subseteq BOOLEAN
  BY <1>1 DEF ConnInit
<1> QED BY <1>2, <1>4, <1>5 DEF ConnInv, ConnTypeOK

(* Only a call, or who quits instead, makes a try of none; every step      *)
(* leaves a rested connection.                                             *)
LEMMA ConnStep ==
  ASSUME ConnInv, ConnNext
  PROVE  /\ conn' \in Connections /\ Rested(conn')
         /\ conn'.tries => conn.tries \/ Calls \/ Answers
<1>0. conn \in Connections /\ Rested(conn)
  BY DEF ConnInv, ConnTypeOK
<1>1. CASE Calls
  BY <1>0, <1>1, CallFollows DEF Calls
<1>2. Follows(conn, conn) 
  BY <1>0, OperatorFollows
<1>3. CASE Loses \/ TimesOut
  BY <1>0, <1>3, BranchFollows DEF Loses, TimesOut, Follows
<1>4. CASE Waits
  BY <1>0, <1>2, <1>4 DEF Waits, Follows
<1>5. CASE Receive \/ Speaks \/ HangsUp \/ PauseEnds
  BY <1>0, <1>5, NetworkFollows DEF Follows
<1>6. CASE Process
  <2>1. conn' = conn \/ \E m : conn' \in Handled(conn, m)
    BY <1>6 DEF Process
  <2> QED BY <1>0, <1>2, <2>1, HandledFollows DEF Follows
<1>7. CASE Command
  BY <1>0, <1>7, CommandFollows DEF Follows
<1>8. CASE Answers
  BY <1>0, <1>8, AnswerIs
<1> QED BY <1>1, <1>3, <1>4, <1>5, <1>6, <1>7, <1>8 DEF ConnNext

(* The other variables keep their types.                                   *)
LEMMA TypesStep ==
  ASSUME ConnInv, ConnNext
  PROVE  /\ config' \in Configs /\ step' \in {"check", "receive", "process"}
         /\ buffer' \in Seq(0..255) /\ mightBe' \in BOOLEAN /\ clean' \in BOOLEAN
<1>0. /\ conn.wire \in Seq(0..255) /\ config \in Configs
      /\ step \in {"check", "receive", "process"}
      /\ buffer \in Seq(0..255) /\ mightBe \in BOOLEAN /\ clean \in BOOLEAN
  BY DEF ConnInv, ConnTypeOK, Connections
<1>1. << >> \in Seq(0..255)
  OBVIOUS
<1>2. CASE Calls
  BY <1>0, <1>1, <1>2 DEF Calls, CheckStep, CallAccountServer, CallServer
<1>3. CASE Answers \/ Loses \/ TimesOut \/ Waits
  BY <1>0, <1>3 DEF Answers, Loses, TimesOut, Waits, CheckStep, tokenVars
<1>4. CASE Receive
  <2>1. \A n \in 1..Len(conn.wire) : buffer \o SubSeq(conn.wire, 1, n) \in Seq(0..255)
    <3>1. \A n \in 1..Len(conn.wire) : n \in 0..Len(conn.wire) /\ 1 \in Nat \ {0}
      OBVIOUS
    <3>2. \A n \in 1..Len(conn.wire) : SubSeq(conn.wire, 1, n) \in Seq(0..255)
      BY <1>0, <3>1, PieceType
    <3> QED BY <1>0, <3>2
  <2> QED BY <1>0, <1>4, <2>1 DEF Receive
<1>5. CASE Process
  <2>1. buffer' = ReadNext.buffer /\ mightBe' = ReadNext.mark
    BY <1>5 DEF Process
  <2>2. buffer' \in Seq(0..255) /\ mightBe' \in BOOLEAN
    BY <1>0, <2>1, ReadNextType
  <2>3. config' = config /\ step' \in {"check", "process"}
    BY <1>5 DEF Process
  <2>4. clean' \in BOOLEAN
    BY <1>0, <1>5 DEF Process
  <2> QED BY <1>0, <2>2, <2>3, <2>4
<1>6. CASE Command \/ PauseEnds \/ Speaks \/ HangsUp
  BY <1>0, <1>6 DEF Command, PauseEnds, Speaks, HangsUp, tokenVars
<1> QED BY <1>2, <1>3, <1>4, <1>5, <1>6 DEF ConnNext

(* Every step keeps the invariant.                                         *)
LEMMA InvStep ==
  ASSUME ConnInv, [ConnNext]_connVars
  PROVE  ConnInv'
<1>1. CASE ConnNext
  BY <1>1, ConnStep, TypesStep DEF ConnInv, ConnTypeOK
<1>2. CASE UNCHANGED connVars
  BY <1>2 DEF connVars, ConnInv, ConnTypeOK, Rested, Alive
<1> QED BY <1>1, <1>2

(* So it holds in every state.                                             *)
LEMMA Invariant == ConnSpec => []ConnInv
BY InvInit, InvStep, PTL DEF ConnSpec

(* Buffers hold bytes, and the connection is one of those the code knows,  *)
(* whatever servers say and in whatever pieces it arrives.                 *)
THEOREM TypeCorrect == ConnSpec => []ConnTypeOK
<1>1. ConnInv => ConnTypeOK
  BY DEF ConnInv
<1> QED BY <1>1, Invariant, PTL

(* The account server is not called again without a pause, for any         *)
(* settings, any servers and whatever they say, and whatever the user does *)
(* but for the exceptions stated at SparesAccountServer: a call counts a   *)
(* try, and every way back to a state without one starts the pause.        *)
THEOREM AccountServerIsSpared == ConnSpec => SparesAccountServer
<1>1. ASSUME ConnInv, [ConnNext]_connVars
      PROVE  [CallAccountServer => conn.rested]_connVars
  <2>1. SUFFICES ASSUME ConnNext, CallAccountServer PROVE conn.rested
    BY <1>1
  <2>2. conn.state = NOT_CONNECTED /\ ~conn.tries
    BY <2>1 DEF CallAccountServer, MustCall
  <2>3. conn'.tries
    BY <1>1, <2>1, AccountServerAnswers DEF CallAccountServer, ConnInv, ConnTypeOK
  <2>4. ~conn.no_connect
    BY <1>1, <2>1, <2>2, <2>3, ConnStep DEF Calls, Answers
  <2> QED BY <1>1, <2>2, <2>4 DEF ConnInv, Rested
<1> QED BY <1>1, Invariant, PTL DEF ConnSpec, SparesAccountServer
-----------------------------------------------------------------------------
(***************************************************************************)
(* The lookup of translations: in a whole table a search for a message not *)
(* before the first keeps what it searches for between low and high, and   *)
(* neither of them passes 0 or the number of messages, although they are   *)
(* unsigned.                                                               *)
(***************************************************************************)
Promised == Whole(file) /\ NotBefore(file, search.message)

InBounds ==
    search.low \in 0..file.count /\ search.high \in 0..file.count - 1

Enclosed ==
    \A i \in DOMAIN file.messages :
       file.messages[i] = search.message => i - 1 \in search.low..search.high

SearchOfTable ==
  /\ file \in Files
  /\ search \in [message : Nat, low : Int, high : Int]
  /\ Promised => InBounds /\ (Sorted(file) => Enclosed)

LookupInv ==
  /\ file = NoFile \/ (file \in Files /\ Acceptable(file))
  /\ search # NoSearch => Acceptable(file) /\ SearchOfTable

LEMMA TableOf ==
  ASSUME NEW f \in Files, Whole(f)
  PROVE  /\ f.messages \in Seq(Nat) /\ DOMAIN f.messages = 1..f.count
         /\ f.count \in Nat /\ Uint \in Nat /\ 2 * f.count <= Uint
<1>1. f.messages \in Seq(Nat) /\ f.count \in Nat /\ 2 * Len(f.messages) <= Uint /\ Uint \in Nat
  BY FilesAssumption
<1> QED BY <1>1 DEF Whole

(* Unsigned numbers of a whole table do not wrap around.                   *)
LEMMA NoWrap ==
  ASSUME NEW n \in Nat, Uint \in Nat, 2 * n <= Uint, NEW k \in Int, k >= 0, k < 2 * n
  PROVE  Unsigned(k) = k
  BY DEF Unsigned

(* The message in the middle is one of the table's.                        *)
LEMMA MidInTable ==
  ASSUME SearchOfTable, Promised, Searching(search)
  PROVE  /\ Mid(search) \in search.low..search.high
         /\ Mid(search) \in 0..file.count - 1
<1>1. file.count \in Nat /\ Uint \in Nat /\ 2 * file.count <= Uint
  BY TableOf DEF SearchOfTable, Promised
<1>2. search.low \in 0..file.count /\ search.high \in 0..file.count - 1 /\ search.low <= search.high
  BY DEF SearchOfTable, InBounds, Searching
<1>3. Unsigned(search.low + search.high) = search.low + search.high
  <2>1. search.low + search.high \in Int /\ search.low + search.high >= 0
        /\ search.low + search.high < 2 * file.count
    BY <1>1, <1>2
  <2> QED BY <1>1, <2>1, NoWrap
<1>4. Mid(search) \in search.low..search.high
  <2>1. \A l, h \in Nat : l <= h => (l + h) \div 2 \in l..h
    OBVIOUS
  <2> QED BY <1>1, <1>2, <1>3, <2>1 DEF Mid
<1> QED BY <1>1, <1>2, <1>4

(* A turn that compares with a message of the table.                       *)
LEMMA ProbeInTable ==
  ASSUME SearchOfTable, Promised, Searching(search), Probe, search' # NoSearch
  PROVE  \E mid \in search.low..search.high :
            /\ mid \in 0..file.count - 1
            /\ \/ /\ search.message < file.messages[mid + 1]
                  /\ search' = [search EXCEPT !.high = Unsigned(mid - 1)]
               \/ /\ search.message > file.messages[mid + 1]
                  /\ search' = [search EXCEPT !.low = Unsigned(mid + 1)]
<1> DEFINE mid == Mid(search)
           orig == file.messages[mid + 1]
<1>1. mid \in search.low..search.high /\ mid \in 0..file.count - 1
  BY MidInTable
<1>2. file.count \in Nat /\ Len(file.messages) = file.count
  BY TableOf DEF SearchOfTable, Promised, Whole
<1>3. ~(mid >= Len(file.messages))
  BY <1>1, <1>2
<1>4. Comparisons(mid) = {IF search.message < orig THEN -1 ELSE IF search.message > orig THEN 1 ELSE 0}
  BY <1>3 DEF Comparisons
<1>5. PICK i \in Comparisons(mid) :
        \/ i < 0 /\ search' = [search EXCEPT !.high = Unsigned(mid - 1)]
        \/ i > 0 /\ search' = [search EXCEPT !.low = Unsigned(mid + 1)]
  BY DEF Probe
<1> HIDE DEF mid, orig
<1>6. i = IF search.message < orig THEN -1 ELSE IF search.message > orig THEN 1 ELSE 0
  BY <1>4, <1>5
<1>7. \/ search.message < orig /\ search' = [search EXCEPT !.high = Unsigned(mid - 1)]
      \/ search.message > orig /\ search' = [search EXCEPT !.low = Unsigned(mid + 1)]
  BY <1>5, <1>6
<1> QED BY <1>1, <1>7 DEF orig

LEMMA ProbeKeepsSearch ==
  ASSUME SearchOfTable, Probe, search' # NoSearch
  PROVE  SearchOfTable'
<1> DEFINE t == file.messages
<1>1. file' = file /\ file \in Files /\ Searching(search)
  BY DEF Probe, SearchOfTable
<1>2. search \in [message : Nat, low : Int, high : Int]
  BY DEF SearchOfTable
<1>3. search' \in [message : Nat, low : Int, high : Int] /\ search'.message = search.message
  <2>1. PICK mid \in Int : \/ search' = [search EXCEPT !.high = Unsigned(mid - 1)]
                           \/ search' = [search EXCEPT !.low = Unsigned(mid + 1)]
    <3>1. Mid(search) \in Int
      <4>1. search.low + search.high \in Int /\ Uint \in Int
        BY <1>2, FilesAssumption
      <4>2. Unsigned(search.low + search.high) \in Int
        BY <4>1 DEF Unsigned
      <4> QED BY <4>2 DEF Mid
    <3> QED BY <3>1 DEF Probe
  <2>2. Unsigned(mid - 1) \in Int /\ Unsigned(mid + 1) \in Int
    BY FilesAssumption DEF Unsigned
  <2> QED BY <1>2, <2>1, <2>2
<1>4. ASSUME Promised PROVE InBounds' /\ (Sorted(file) => Enclosed')
  <2>1. PICK mid \in search.low..search.high :
            /\ mid \in 0..file.count - 1
            /\ \/ /\ search.message < t[mid + 1]
                  /\ search' = [search EXCEPT !.high = Unsigned(mid - 1)]
               \/ /\ search.message > t[mid + 1]
                  /\ search' = [search EXCEPT !.low = Unsigned(mid + 1)]
    BY <1>1, <1>4, ProbeInTable
  <2>2. /\ t \in Seq(Nat) /\ DOMAIN t = 1..file.count
        /\ file.count \in Nat /\ Uint \in Nat /\ 2 * file.count <= Uint
    BY <1>1, <1>4, TableOf DEF Promised
  <2>3. file.count > 0 /\ t[1] <= search.message
    BY <1>4 DEF Promised, NotBefore
  <2>4. /\ search.low \in 0..file.count /\ search.high \in 0..file.count - 1
        /\ Sorted(file) => \A i \in 1..file.count :
                              t[i] = search.message => i - 1 \in search.low..search.high
    BY <1>4, <2>2 DEF SearchOfTable, InBounds, Enclosed
  <2>5. Sorted(file) => \A i, j \in 1..file.count : i < j => t[i] < t[j]
    BY <2>2 DEF Sorted
  <2>6. search.message \in Nat /\ \A i \in 1..file.count : t[i] \in Nat
    <3>1. search.message \in Nat
      BY <1>2
    <3>2. \A s \in Seq(Nat) : \A i \in DOMAIN s : s[i] \in Nat
      OBVIOUS
    <3> HIDE DEF t
    <3> QED BY <2>2, <3>1, <3>2
  <2>7. mid \in Nat /\ mid + 1 \in 1..file.count
    BY <2>1, <2>2
  <2>8. Enclosed' <=> \A i \in 1..file.count :
                         t[i] = search'.message => i - 1 \in search'.low..search'.high
    BY <1>1, <2>2 DEF Enclosed
  <2> HIDE DEF t
  <2>9. CASE search.message < t[mid + 1] /\ search' = [search EXCEPT !.high = Unsigned(mid - 1)]
    <3>1. mid # 0
      <4>1. SUFFICES ASSUME mid = 0 PROVE FALSE
        OBVIOUS
      <4>2. search.message < t[1] /\ t[1] <= search.message /\ t[1] \in Nat
        BY <2>3, <2>6, <2>7, <2>9, <4>1
      <4> QED BY <2>6, <4>2
    <3>2. Unsigned(mid - 1) = mid - 1
      <4>1. mid - 1 \in Int /\ mid - 1 >= 0 /\ mid - 1 < 2 * file.count
        BY <2>2, <2>7, <3>1
      <4> QED BY <2>2, <4>1, NoWrap
    <3>3. search'.message = search.message /\ search'.low = search.low /\ search'.high = mid - 1
      BY <1>2, <2>9, <3>2
    <3>4. InBounds'
      BY <1>1, <2>2, <2>4, <2>7, <3>1, <3>3 DEF InBounds
    <3>5. ASSUME Sorted(file), NEW i \in 1..file.count, t[i] = search'.message
          PROVE  i - 1 \in search'.low..search'.high
      <4>1. ~(mid + 1 < i) /\ mid + 1 # i
        BY <2>5, <2>6, <2>7, <2>9, <3>3, <3>5
      <4>2. i - 1 \in search.low..search.high
        BY <2>4, <3>3, <3>5
      <4> QED BY <2>2, <2>4, <2>7, <3>3, <4>1, <4>2
    <3> QED BY <2>8, <3>4, <3>5
  <2>10. CASE search.message > t[mid + 1] /\ search' = [search EXCEPT !.low = Unsigned(mid + 1)]
    <3>2. Unsigned(mid + 1) = mid + 1
      <4>1. CASE mid + 1 < 2 * file.count
        <5>1. mid + 1 \in Int /\ mid + 1 >= 0
          BY <2>7
        <5> QED BY <2>2, <4>1, <5>1, NoWrap
      <4>2. CASE ~(mid + 1 < 2 * file.count)
        BY <2>2, <2>7, <4>2
      <4> QED BY <4>1, <4>2
    <3>3. search'.message = search.message /\ search'.low = mid + 1 /\ search'.high = search.high
      BY <1>2, <2>10, <3>2
    <3>4. InBounds'
      BY <1>1, <2>2, <2>4, <2>7, <3>3 DEF InBounds
    <3>5. ASSUME Sorted(file), NEW i \in 1..file.count, t[i] = search'.message
          PROVE  i - 1 \in search'.low..search'.high
      <4>1. ~(i < mid + 1) /\ mid + 1 # i
        BY <2>5, <2>6, <2>7, <2>10, <3>3, <3>5
      <4>2. i - 1 \in search.low..search.high
        BY <2>4, <3>3, <3>5
      <4> QED BY <2>2, <2>4, <2>7, <3>3, <4>1, <4>2
    <3> QED BY <2>8, <3>4, <3>5
  <2> QED BY <2>1, <2>9, <2>10
<1>5. Promised' => Promised
  BY <1>1, <1>3 DEF Promised
<1>6. Sorted(file)' => Sorted(file)
  BY <1>1 DEF Sorted
<1> QED BY <1>1, <1>3, <1>4, <1>5, <1>6 DEF SearchOfTable

LEMMA LookupInvariance == LookupSpec => []LookupInv
<1>1. LookupInit => LookupInv
  BY DEF LookupInit, LookupInv
<1>2. LookupInv /\ [LookupNext]_lookupVars => LookupInv'
  <2> SUFFICES ASSUME LookupInv, [LookupNext]_lookupVars PROVE LookupInv'
    OBVIOUS
  <2>1. ASSUME NEW f \in Files, Load(f) PROVE LookupInv'
    <3>1. file = NoFile /\ ~Acceptable(file)
      BY <2>1 DEF Load, NoFile, Acceptable
    <3>2. search' = NoSearch
      BY <2>1, <3>1 DEF Load, LookupInv
    <3> QED BY <2>1, <3>2 DEF Load, LookupInv
  <2>2. CASE Unload
    BY <2>2 DEF Unload, LookupInv
  <2>3. ASSUME NEW m \in Messages, Translate(m) PROVE LookupInv'
    <3>1. CASE file = NoFile
      BY <2>3, <3>1 DEF Translate, LookupInv
    <3>2. CASE file # NoFile
      <4>1. /\ file' = file /\ file \in Files /\ m \in Nat
            /\ search' = [message |-> m, low |-> 0, high |-> Unsigned(file.count - 1)]
        BY <2>3, <3>2, FilesAssumption DEF Translate, LookupInv
      <4>2. Unsigned(file.count - 1) \in Int
        BY <4>1, FilesAssumption DEF Unsigned
      <4>3. search' \in [message : Nat, low : Int, high : Int]
        BY <4>1, <4>2
      <4>4. ASSUME Promised' PROVE InBounds' /\ Enclosed'
        <5>1. Whole(file) /\ file.count > 0
          BY <4>1, <4>4 DEF Promised, NotBefore
        <5>2. /\ DOMAIN file.messages = 1..file.count
              /\ file.count \in Nat /\ Uint \in Nat /\ 2 * file.count <= Uint
          BY <4>1, <5>1, TableOf
        <5>3. Unsigned(file.count - 1) = file.count - 1
          BY <5>1, <5>2, NoWrap
        <5>4. search'.low = 0 /\ search'.high = file.count - 1
          BY <4>1, <5>3
        <5>5. InBounds'
          BY <4>1, <5>1, <5>2, <5>4 DEF InBounds
        <5>6. Enclosed'
          BY <4>1, <5>2, <5>4 DEF Enclosed
        <5> QED BY <5>5, <5>6
      <4>5. SearchOfTable'
        BY <4>1, <4>3, <4>4 DEF SearchOfTable
      <4> QED BY <2>3, <3>2, <4>1, <4>5 DEF LookupInv
    <3> QED BY <3>1, <3>2
  <2>4. CASE Probe
    <3>1. search # NoSearch /\ file' = file
      BY <2>4 DEF Probe
    <3>2. search' # NoSearch => SearchOfTable'
      BY <2>4, <3>1, ProbeKeepsSearch DEF LookupInv
    <3> QED BY <3>1, <3>2 DEF LookupInv
  <2>5. CASE UNCHANGED lookupVars
    BY <2>5 DEF lookupVars, LookupInv, SearchOfTable, Promised, InBounds, Enclosed
  <2> QED BY <2>1, <2>2, <2>3, <2>4, <2>5 DEF LookupNext
<1> QED BY <1>1, <1>2, PTL DEF LookupSpec

(* Translator::translate: in any whole table, sorted or not, with or       *)
(* without the empty message, a search for a message not before the first  *)
(* reads no place outside the table; and if it is sorted, the search ends  *)
(* with the place of the message whenever the table has it.                *)
THEOREM LookupsFindTheirMessages == LookupSpec => []LookupsFindMessages
<1>1. LookupInv => LookupsFindMessages
  <2> SUFFICES ASSUME LookupInv, search # NoSearch, Promised
               PROVE  /\ Searching(search) => Mid(search) < file.count
                      /\ Sorted(file) =>
                           \A i \in DOMAIN file.messages :
                              file.messages[i] = search.message =>
                                  Searching(search) /\ i - 1 \in search.low..search.high
    BY DEF LookupsFindMessages, Promised
  <2>1. SearchOfTable
    BY DEF LookupInv
  <2>2. file.count \in Nat /\ DOMAIN file.messages = 1..file.count
    BY <2>1, TableOf DEF SearchOfTable, Promised
  <2>3. Searching(search) => Mid(search) < file.count
    BY <2>1, <2>2, MidInTable
  <2>4. ASSUME Sorted(file), NEW i \in DOMAIN file.messages, file.messages[i] = search.message
        PROVE  Searching(search) /\ i - 1 \in search.low..search.high
    <3>1. i - 1 \in search.low..search.high
      BY <2>1, <2>4 DEF SearchOfTable, Enclosed
    <3>2. search.low \in Int /\ search.high \in Int /\ i \in Nat
      BY <2>1, <2>2, <2>4 DEF SearchOfTable
    <3> QED BY <3>1, <3>2 DEF Searching
  <2> QED BY <2>3, <2>4
<1> QED BY <1>1, LookupInvariance, PTL

-----------------------------------------------------------------------------
(***************************************************************************)
(* The two arrays of an ObjectList stay in step, handles keep finding      *)
(* their entries, a deleted entry is never called, and a walk visits       *)
(* everyone once as long as nothing happens behind it.                     *)
(***************************************************************************)

(* The other direction of HandleFindsEntry: whoever is in the list can be  *)
(* deleted by its handle; and a handle in use is that of an entry made.    *)
EntriesHaveHandles ==
    /\ \A a \in DOMAIN hook.items : handle[hook.items[a]] = a
    /\ \A e \in Entries : handle[e] # NoIndex => e \in used

(* What is known of a walk over the compact array C, with U the entries    *)
(* made: unless one was put in behind it, nobody ahead has been called;    *)
(* unless one was taken out behind it, whoever is due has been called or   *)
(* is ahead.                                                               *)
WalkOK(w, C, U) ==
    /\ Range(w.called) \subseteq U
    /\ "shifted" \notin w.marks => IsInjective(w.called)
    /\ "shifted" \notin w.marks /\ "gone" \notin w.marks =>
          \A j \in 1 .. Len(C) : j > w.next => C[j] \notin Range(w.called)
    /\ "cut" \notin w.marks =>
          \A e \in w.due : \/ e \in Range(w.called)
                           \/ "gone" \notin w.marks /\ \E j \in 1 .. Len(C) : j > w.next /\ C[j] = e

WalksOK == \A k \in 1 .. Len(walks) : WalkOK(walks[k], hook.cItems, used)

IInv == TypeOK /\ ListInStep /\ HandleFindsEntry /\ EntriesHaveHandles /\ WalksOK

-----------------------------------------------------------------------------
(* Lemmas on ObjectList.                                                   *)

(* InStep, in the form in which it is used: an item has one index in each  *)
(* array.                                                                  *)
LEMMA InStepUnique ==
  ASSUME NEW S, NEW l, IsListOf(l, S), InStep(l)
  PROVE  /\ \A a, b \in DOMAIN l.items : l.items[a] = l.items[b] => a = b
         /\ \A j, k \in DOMAIN l.cItems : l.cItems[j] = l.cItems[k] => j = k
         /\ \A a \in DOMAIN l.items : \E j \in DOMAIN l.cItems : l.cItems[j] = l.items[a]
         /\ \A j \in DOMAIN l.cItems : \E a \in DOMAIN l.items : l.cItems[j] = l.items[a]
<1>1. DOMAIN l.items \subseteq Nat /\ DOMAIN l.cItems \subseteq Nat
  BY DEF IsListOf
<1>2. /\ \A a \in DOMAIN l.items : \E j \in DOMAIN l.cItems : l.cItems[j] = l.items[a]
      /\ \A j \in DOMAIN l.cItems : \E a \in DOMAIN l.items : l.cItems[j] = l.items[a]
  BY DEF InStep, Range
<1>3. ASSUME NEW a \in DOMAIN l.items, NEW b \in DOMAIN l.items, l.items[a] = l.items[b]
      PROVE  a = b
  <2>1. PICK j \in DOMAIN l.cItems : l.cItems[j] = l.items[a]
    BY <1>2
  <2>2. (a < b <=> j < j) /\ (b < a <=> j < j)
    BY <1>3, <2>1 DEF InStep
  <2> QED BY <1>1, <2>2
<1>4. ASSUME NEW j \in DOMAIN l.cItems, NEW k \in DOMAIN l.cItems, l.cItems[j] = l.cItems[k]
      PROVE  j = k
  <2>1. PICK a \in DOMAIN l.items : l.cItems[j] = l.items[a]
    BY <1>2
  <2>2. (a < a <=> j < k) /\ (a < a <=> k < j)
    BY <1>4, <2>1 DEF InStep
  <2> QED BY <1>1, <2>2
<1> QED BY <1>2, <1>3, <1>4

(* As long as there is no hole, the two arrays agree index by index.       *)
LEMMA Prefix ==
  ASSUME NEW S, NEW l, IsListOf(l, S), InStep(l), NEW h \in Nat, 0 .. h - 1 \subseteq DOMAIN l.items
  PROVE  \A n \in 0 .. h - 1 : n + 1 \in 1 .. Len(l.cItems) /\ l.cItems[n + 1] = l.items[n]
<1> DEFINE Keeps(n) == n + 1 \in 1 .. Len(l.cItems) /\ l.cItems[n + 1] = l.items[n]
           Bad == {n \in 0 .. h - 1 : ~Keeps(n)}
<1>1. DOMAIN l.cItems = 1 .. Len(l.cItems) /\ Len(l.cItems) \in Nat
  BY DEF IsListOf
<1>2. ASSUME Bad # {}
      PROVE  FALSE
  <2>1. PICK n \in Bad : \A m \in Bad : n <= m
    <3>1. Bad \subseteq Nat
      OBVIOUS
    <3> HIDE DEF Bad
    <3> QED BY <1>2, <3>1, LeastElement
  <2>2. n \in 0 .. h - 1 /\ ~Keeps(n) /\ n \in DOMAIN l.items
    OBVIOUS
  <2>3. \A m \in 0 .. n - 1 : Keeps(m) /\ m \in DOMAIN l.items
    BY <2>1
  <2>4. PICK p \in DOMAIN l.cItems : l.cItems[p] = l.items[n]
    BY <2>2, InStepUnique
  <2>5. p >= n + 1
    <3>1. CASE n = 0
      BY <3>1, <1>1
    <3>2. CASE n > 0
      <4>1. n - 1 \in DOMAIN l.items /\ n \in DOMAIN l.cItems /\ l.cItems[n] = l.items[n - 1]
        <5>1. n - 1 \in 0 .. n - 1 /\ (n - 1) + 1 = n
          BY <3>2, <2>2
        <5>2. Keeps(n - 1) /\ n - 1 \in DOMAIN l.items
          BY <5>1, <2>3
        <5> QED BY <5>1, <5>2, <1>1
      <4>2. n - 1 < n <=> n < p
        BY <4>1, <2>2, <2>4 DEF InStep
      <4> QED BY <3>2, <4>2, <2>2, <1>1
    <3> QED BY <3>1, <3>2, <2>2
  <2>6. p # n + 1
    BY <1>1, <2>2, <2>4
  <2>7. n + 1 < p /\ n + 1 \in DOMAIN l.cItems
    BY <1>1, <2>2, <2>5, <2>6
  <2>8. PICK a \in DOMAIN l.items : l.items[a] = l.cItems[n + 1]
    BY <2>7, InStepUnique
  <2>9. a < n <=> n + 1 < p
    BY <2>2, <2>4, <2>7, <2>8 DEF InStep
  <2>10. a \in 0 .. n - 1
    BY <2>2, <2>7, <2>8, <2>9 DEF IsListOf
  <2>11. l.cItems[a + 1] = l.cItems[n + 1] /\ a + 1 \in DOMAIN l.cItems
    BY <1>1, <2>3, <2>8, <2>10
  <2>12. a + 1 = n + 1
    BY <2>7, <2>11, InStepUnique
  <2> QED BY <2>10, <2>12
<1> QED BY <1>2

(* add: the new item comes where its index says.                           *)
LEMMA AddInStep ==
  ASSUME NEW S, NEW l, IsListOf(l, S), InStep(l), NEW x \in S, x \notin Range(l.items),
         NEW h \in FirstHole(l)
  PROVE  LET m == ListAdd(l, h, x)
             n == Len(l.cItems)
         IN  /\ IsListOf(m, S) /\ InStep(m)
             /\ h \in 0 .. n /\ h \notin DOMAIN l.items
             /\ m.items = WithItem(l.items, h, x)
             /\ Len(m.cItems) = n + 1
             /\ \A j \in 1 .. n + 1 :
                   m.cItems[j] = IF j <= h THEN l.cItems[j]
                                 ELSE IF j = h + 1 THEN x ELSE l.cItems[j - 1]
<1> DEFINE m == ListAdd(l, h, x)
           n == Len(l.cItems)
           C == m.cItems
           F == m.items
<1>1. /\ DOMAIN l.cItems = 1 .. n /\ n \in Nat /\ l.cItems \in Seq(S)
      /\ DOMAIN l.items \subseteq Nat /\ l.items \in [DOMAIN l.items -> S]
  BY DEF IsListOf
<1>2. h \in Nat /\ h \notin DOMAIN l.items /\ 0 .. h - 1 \subseteq DOMAIN l.items
  BY <1>1 DEF FirstHole
<1>3. \A k \in 0 .. h - 1 : k + 1 \in 1 .. n /\ l.cItems[k + 1] = l.items[k]
  BY <1>2, Prefix
<1>4. h \in 0 .. n
  <2>1. CASE h = 0
    BY <2>1, <1>1
  <2>2. CASE h > 0
    <3>1. (h - 1) + 1 \in 1 .. n
      BY <2>2, <1>2, <1>3
    <3> QED BY <3>1, <1>1, <1>2
  <2> QED BY <2>1, <2>2, <1>2
<1>5. C = Inserted(l.cItems, h, x) /\ F = WithItem(l.items, h, x)
  BY DEF ListAdd
<1>6. /\ C \in Seq(S) /\ Len(C) = n + 1
      /\ \A j \in 1 .. n + 1 : C[j] = IF j <= h THEN l.cItems[j]
                                      ELSE IF j = h + 1 THEN x ELSE l.cItems[j - 1]
  <2>1. CASE h < n
    <3>1. C = InsertAt(l.cItems, h + 1, x) /\ h + 1 \in 1 .. Len(l.cItems) + 1
      BY <2>1, <1>1, <1>4, <1>5 DEF Inserted
    <3>2. /\ C \in Seq(S) /\ Len(C) = n + 1
          /\ \A j \in 1 .. n + 1 : C[j] = IF j < h + 1 THEN l.cItems[j]
                                          ELSE IF j = h + 1 THEN x ELSE l.cItems[j - 1]
      <4> DEFINE q == l.cItems
                 k == h + 1
      <4>1. q \in Seq(S) /\ k \in 1 .. Len(q) + 1
        BY <3>1, <1>1
      <4> HIDE DEF q, k
      <4>2. /\ InsertAt(q, k, x) \in Seq(S)
            /\ Len(InsertAt(q, k, x)) = Len(q) + 1
            /\ \A j \in 1 .. Len(q) + 1 :
                  InsertAt(q, k, x)[j] = IF j < k THEN q[j] ELSE IF j = k THEN x ELSE q[j - 1]
        <5>1. InsertAt(q, k, x) \in Seq(S)
          BY <4>1, InsertAtType
        <5>2. Len(InsertAt(q, k, x)) = Len(q) + 1
          BY <4>1, InsertAtType
        <5>3. ASSUME NEW j \in 1 .. Len(q) + 1
              PROVE  InsertAt(q, k, x)[j]
                       = IF j < k THEN q[j] ELSE IF j = k THEN x ELSE q[j - 1]
          BY <4>1, InsertAtType
        <5> QED BY <5>1, <5>2, <5>3
      <4>3. C = InsertAt(q, k, x)
        BY <3>1 DEF q, k
      <4> HIDE DEF C
      <4> QED BY <4>2, <4>3 DEF q, k
    <3> HIDE DEF C, n
    <3> QED BY <3>2, <1>2
  <2>2. CASE h = n
    <3>1. C = Append(l.cItems, x)
      BY <2>2, <1>1, <1>5 DEF Inserted
    <3>2. C \in Seq(S) /\ Len(C) = n + 1 /\ C[n + 1] = x /\ \A j \in 1 .. n : C[j] = l.cItems[j]
      BY <3>1, <1>1
    <3> HIDE DEF C, n
    <3> QED BY <2>2, <3>2, <1>1, <1>2
  <2> QED BY <2>1, <2>2, <1>1, <1>4
<1>7. /\ DOMAIN F = DOMAIN l.items \cup {h} /\ F[h] = x
      /\ \A a \in DOMAIN l.items : F[a] = l.items[a]
      /\ F \in [DOMAIN F -> S] /\ DOMAIN F \subseteq Nat
  BY <1>1, <1>2, <1>5 DEF WithItem
<1>8. DOMAIN m = {"items", "cItems"} /\ DOMAIN C = 1 .. n + 1
  BY <1>1, <1>6 DEF ListAdd
<1> HIDE DEF C, F, m, n
<1>9. \A j \in 1 .. n : l.cItems[j] # x
  BY <1>1 DEF InStep, Range
(* Where item j of the new compact array was before.                       *)
<1> DEFINE old(j) == IF j <= h THEN j ELSE j - 1
<1>10. \A j \in 1 .. n + 1 : j # h + 1 => old(j) \in 1 .. n /\ C[j] = l.cItems[old(j)]
  BY <1>1, <1>2, <1>4, <1>6
<1>11. C[h + 1] = x /\ h + 1 \in 1 .. n + 1
  BY <1>1, <1>2, <1>4, <1>6
<1>12. \A b \in DOMAIN l.items, k \in 1 .. n : l.items[b] = l.cItems[k] => (b < h <=> k <= h)
  <2> TAKE b \in DOMAIN l.items, k \in 1 .. n
  <2> HAVE l.items[b] = l.cItems[k]
  <2>1. ASSUME b < h
        PROVE  k <= h
    <3>1. b \in 0 .. h - 1
      BY <1>1, <1>2, <2>1
    <3>2. b + 1 \in 1 .. n /\ l.cItems[b + 1] = l.cItems[k]
      BY <1>3, <3>1
    <3>3. b + 1 = k
      BY <1>1, <3>2, InStepUnique
    <3> QED BY <3>1, <3>3, <1>2
  <2>2. ASSUME k <= h
        PROVE  b < h
    <3>1. k - 1 \in 0 .. h - 1 /\ (k - 1) + 1 = k
      BY <1>1, <1>2, <2>2
    <3>2. k - 1 \in DOMAIN l.items /\ l.items[k - 1] = l.items[b]
      BY <1>2, <1>3, <3>1
    <3>3. k - 1 = b
      BY <3>2, InStepUnique
    <3> QED BY <3>1, <3>3, <1>2
  <2> QED BY <2>1, <2>2
<1>13. ASSUME NEW a \in DOMAIN F, NEW j \in 1 .. n + 1, F[a] = C[j]
       PROVE  \/ a = h /\ j = h + 1
              \/ /\ a \in DOMAIN l.items /\ a # h /\ j # h + 1
                 /\ l.items[a] = l.cItems[old(j)] /\ old(j) \in 1 .. n
                 /\ a < h <=> j < h + 1
  <2>1. CASE a = h
    BY <2>1, <1>7, <1>9, <1>10, <1>13
  <2>2. CASE a # h
    <3>1. a \in DOMAIN l.items /\ l.items[a] = C[j]
      BY <2>2, <1>7, <1>13
    <3>2. C[j] # x
      BY <3>1 DEF Range
    <3>3. j # h + 1 /\ old(j) \in 1 .. n /\ l.items[a] = l.cItems[old(j)]
      BY <3>1, <3>2, <1>10, <1>11
    <3>4. a < h <=> old(j) <= h
      BY <3>1, <3>3, <1>12
    <3>5. old(j) <= h <=> j < h + 1
      BY <3>3, <1>1, <1>2
    <3> QED BY <2>2, <3>1, <3>3, <3>4, <3>5
  <2> QED BY <2>1, <2>2
<1>14. ASSUME NEW a \in DOMAIN F, NEW b \in DOMAIN F, NEW j \in 1 .. n + 1, NEW k \in 1 .. n + 1,
              F[a] = C[j], F[b] = C[k]
       PROVE  a < b <=> j < k
  <2>0. a \in Nat /\ b \in Nat /\ j \in Nat /\ k \in Nat /\ h \in Nat
    BY <1>2, <1>7, <1>1
  <2>1. CASE a = h /\ b = h
    BY <2>0, <2>1, <1>13, <1>14
  <2>2. CASE a = h /\ b # h
    BY <2>0, <2>2, <1>13, <1>14
  <2>3. CASE a # h /\ b = h
    BY <2>0, <2>3, <1>13, <1>14
  <2>4. CASE a # h /\ b # h
    <3>1. /\ a \in DOMAIN l.items /\ b \in DOMAIN l.items /\ j # h + 1 /\ k # h + 1
          /\ old(j) \in 1 .. n /\ old(k) \in 1 .. n
          /\ l.items[a] = l.cItems[old(j)] /\ l.items[b] = l.cItems[old(k)]
      BY <2>4, <1>13, <1>14
    <3>2. a < b <=> old(j) < old(k)
      BY <3>1, <1>1 DEF InStep
    <3>3. old(j) < old(k) <=> j < k
      BY <3>1, <2>0
    <3> QED BY <3>2, <3>3
  <2> QED BY <2>1, <2>2, <2>3, <2>4
<1>15. Range(F) = Range(l.items) \cup {x}
  BY <1>7, <1>2 DEF Range
<1>16. Range(C) = Range(l.cItems) \cup {x}
  <2>1. \A j \in 1 .. n + 1 : C[j] \in Range(l.cItems) \cup {x}
    BY <1>1, <1>10, <1>11 DEF Range
  <2>2. ASSUME NEW k \in 1 .. n
        PROVE  \E j \in 1 .. n + 1 : C[j] = l.cItems[k]
    <3>1. CASE k <= h
      BY <3>1, <1>1, <1>2, <1>6
    <3>2. CASE k > h
      <4>1. k + 1 \in 1 .. n + 1 /\ ~(k + 1 <= h) /\ k + 1 # h + 1 /\ (k + 1) - 1 = k
        BY <3>2, <1>1, <1>2
      <4> QED BY <4>1, <1>6
    <3> QED BY <3>1, <3>2, <1>1, <1>2
  <2>3. Range(C) = {C[j] : j \in 1 .. n + 1} /\ Range(l.cItems) = {l.cItems[k] : k \in 1 .. n}
    BY <1>1, <1>8 DEF Range
  <2>4. Range(C) \subseteq Range(l.cItems) \cup {x}
    BY <2>1, <2>3
  <2>5. Range(l.cItems) \cup {x} \subseteq Range(C)
    BY <1>11, <2>2, <2>3
  <2> QED BY <2>4, <2>5
<1>17. InStep(m)
  <2>1. Range(F) = Range(C)
    BY <1>15, <1>16 DEF InStep
  <2> QED BY <1>8, <1>14, <2>1 DEF InStep, C, F
<1>18. IsListOf(m, S)
  BY <1>6, <1>7, <1>8 DEF IsListOf, C, F
<1> QED BY <1>2, <1>4, <1>5, <1>6, <1>17, <1>18 DEF C, F, m, n

(* _findItem finds an item that is there once.                             *)
LEMMA FindItemIs ==
  ASSUME NEW f, DOMAIN f \subseteq Int, NEW i \in DOMAIN f,
         \A j \in DOMAIN f : f[j] = f[i] => j = i
  PROVE  FindItem(f, f[i]) = i
<1> DEFINE P(k) == f[k] = f[i] /\ \A j \in DOMAIN f : j < k => f[j] # f[i]
<1>1. P(i)
  OBVIOUS
<1>2. FindItem(f, f[i]) = CHOOSE k \in DOMAIN f : P(k)
  BY DEF FindItem, Range
<1> HIDE DEF P
<1>3. FindItem(f, f[i]) \in DOMAIN f /\ P(FindItem(f, f[i]))
  BY <1>1, <1>2
<1> QED BY <1>3 DEF P

(* remove: the item at index i, at place p of the compact array, goes away *)
(* from both.                                                              *)
LEMMA RemoveInStep ==
  ASSUME NEW S, NEW l, IsListOf(l, S), InStep(l), NEW i \in DOMAIN l.items
  PROVE  LET m == ListRemove(l, l.items[i])
             p == FindItem(l.cItems, l.items[i])
             n == Len(l.cItems)
         IN  /\ IsListOf(m, S) /\ InStep(m)
             /\ p \in 1 .. n /\ l.cItems[p] = l.items[i]
             /\ DOMAIN m.items = DOMAIN l.items \ {i}
             /\ \A a \in DOMAIN m.items : m.items[a] = l.items[a]
             /\ Len(m.cItems) = n - 1
             /\ \A j \in 1 .. n - 1 :
                   m.cItems[j] = IF j < p THEN l.cItems[j] ELSE l.cItems[j + 1]
<1> DEFINE x == l.items[i]
           m == ListRemove(l, x)
           p == FindItem(l.cItems, x)
           n == Len(l.cItems)
           C == m.cItems
           F == m.items
<1>1. /\ DOMAIN l.cItems = 1 .. n /\ n \in Nat /\ l.cItems \in Seq(S)
      /\ DOMAIN l.items \subseteq Nat /\ l.items \in [DOMAIN l.items -> S]
  BY DEF IsListOf
<1>2. FindItem(l.items, x) = i
  <2>1. \A a \in DOMAIN l.items : l.items[a] = l.items[i] => a = i
    BY InStepUnique
  <2> QED BY <1>1, <2>1, FindItemIs
<1>3. p \in 1 .. n /\ l.cItems[p] = x
  <2>1. PICK k \in DOMAIN l.cItems : l.cItems[k] = x
    BY InStepUnique
  <2>2. \A j \in DOMAIN l.cItems : l.cItems[j] = l.cItems[k] => j = k
    BY InStepUnique
  <2>3. DOMAIN l.cItems \subseteq Int
    BY <1>1
  <2>4. FindItem(l.cItems, l.cItems[k]) = k
    BY <2>2, <2>3, FindItemIs
  <2> QED BY <1>1, <2>1, <2>4
<1>4. x \in Range(l.items) /\ x \in Range(l.cItems)
  BY <1>1, <1>3 DEF Range
<1>5. /\ F = Restrict(l.items, DOMAIN l.items \ {i})
      /\ C = RemoveAt(l.cItems, p)
      /\ DOMAIN m = {"items", "cItems"}
  BY <1>2, <1>4 DEF ListRemove
<1>6. /\ DOMAIN F = DOMAIN l.items \ {i} /\ \A a \in DOMAIN F : F[a] = l.items[a]
      /\ F \in [DOMAIN F -> S] /\ DOMAIN F \subseteq Nat
  BY <1>1, <1>5 DEF Restrict
<1>7. /\ C \in Seq(S) /\ Len(C) = n - 1
      /\ \A j \in 1 .. n - 1 : C[j] = IF j < p THEN l.cItems[j] ELSE l.cItems[j + 1]
  <2> DEFINE q == l.cItems
             k == p
  <2>1. q \in Seq(S) /\ k \in 1 .. Len(q) /\ C = RemoveAt(q, k) /\ n = Len(q)
    BY <1>1, <1>3, <1>5
  <2> HIDE DEF q, k, C, n
  <2>2. /\ RemoveAt(q, k) \in Seq(S)
        /\ Len(RemoveAt(q, k)) = Len(q) - 1
        /\ \A j \in 1 .. Len(q) - 1 :
              RemoveAt(q, k)[j] = IF j < k THEN q[j] ELSE q[j + 1]
    BY <2>1, RemoveAtType
  <2> QED BY <2>1, <2>2 DEF q, k
<1>8. DOMAIN C = 1 .. n - 1
  BY <1>1, <1>7
<1> HIDE DEF C, F, m, n, p, x
(* Where item j of the new compact array was before.                       *)
<1> DEFINE old(j) == IF j < p THEN j ELSE j + 1
<1>9. \A j \in 1 .. n - 1 : old(j) \in 1 .. n /\ old(j) # p /\ C[j] = l.cItems[old(j)]
  BY <1>1, <1>3, <1>7
<1>10. \A k \in 1 .. n : l.cItems[k] = x => k = p
  BY <1>1, <1>3, InStepUnique
<1>11. ASSUME NEW a \in DOMAIN F, NEW b \in DOMAIN F, NEW j \in 1 .. n - 1, NEW k \in 1 .. n - 1,
              F[a] = C[j], F[b] = C[k]
       PROVE  a < b <=> j < k
  <2>1. /\ a \in DOMAIN l.items /\ b \in DOMAIN l.items
        /\ old(j) \in 1 .. n /\ old(k) \in 1 .. n
        /\ l.items[a] = l.cItems[old(j)] /\ l.items[b] = l.cItems[old(k)]
    BY <1>6, <1>9, <1>11
  <2>2. a < b <=> old(j) < old(k)
    <3>1. old(j) \in DOMAIN l.cItems /\ old(k) \in DOMAIN l.cItems
      BY <2>1, <1>1
    <3> HIDE DEF old
    <3> QED BY <2>1, <3>1 DEF InStep
  <2>3. old(j) < old(k) <=> j < k
    BY <1>1, <1>3
  <2> QED BY <2>2, <2>3
<1>12. Range(F) = Range(l.items) \ {x}
  <2>1. \A a \in DOMAIN l.items : l.items[a] = x => a = i
    BY InStepUnique DEF x
  <2>2. Range(F) = {l.items[a] : a \in DOMAIN l.items \ {i}}
    BY <1>6 DEF Range
  <2>3. Range(l.items) = {l.items[a] : a \in DOMAIN l.items}
    BY DEF Range
  <2>4. l.items[i] = x
    BY DEF x
  <2> QED BY <2>1, <2>2, <2>3, <2>4
<1>13. Range(C) = Range(l.cItems) \ {x}
  <2>1. Range(C) = {C[j] : j \in 1 .. n - 1} /\ Range(l.cItems) = {l.cItems[k] : k \in 1 .. n}
    BY <1>1, <1>8 DEF Range
  <2>2. \A j \in 1 .. n - 1 : C[j] \in Range(l.cItems) \ {x}
    BY <1>9, <1>10, <2>1
  <2>3. ASSUME NEW k \in 1 .. n, k # p
        PROVE  \E j \in 1 .. n - 1 : C[j] = l.cItems[k]
    <3>1. CASE k < p
      BY <3>1, <1>1, <1>3, <1>7
    <3>2. CASE k > p
      <4>1. k - 1 \in 1 .. n - 1 /\ ~(k - 1 < p) /\ (k - 1) + 1 = k
        BY <3>2, <1>1, <1>3
      <4> QED BY <4>1, <1>7
    <3> QED BY <3>1, <3>2, <2>3, <1>1, <1>3
  <2>4. Range(C) \subseteq Range(l.cItems) \ {x}
    BY <2>1, <2>2
  <2>5. Range(l.cItems) \ {x} \subseteq Range(C)
    BY <1>3, <2>1, <2>3
  <2> QED BY <2>4, <2>5
<1>14. InStep(m)
  <2>1. Range(F) = Range(C)
    BY <1>12, <1>13 DEF InStep
  <2> QED BY <1>8, <1>11, <2>1 DEF InStep, C, F
<1>15. IsListOf(m, S)
  BY <1>5, <1>6, <1>7 DEF IsListOf, C, F
<1> QED BY <1>3, <1>6, <1>7, <1>14, <1>15 DEF C, F, m, n, p, x

-----------------------------------------------------------------------------
(* What the three operations do to a walk.                                 *)

LEMMA AddKeepsWalk ==
  ASSUME NEW w \in Walk, NEW l, IsListOf(l, Entries), InStep(l), NEW U, WalkOK(w, l.cItems, U),
         NEW e \in Entries, e \notin U, e \notin Range(l.items), NEW h \in FirstHole(l)
  PROVE  LET v == Marked(w, h < w.next, "shifted")
         IN  v \in Walk /\ WalkOK(v, ListAdd(l, h, e).cItems, U \cup {e})
<1> DEFINE v == Marked(w, h < w.next, "shifted")
           B == l.cItems
           C == ListAdd(l, h, e).cItems
           n == Len(B)
<1>1. /\ h \in 0 .. n /\ n \in Nat /\ Len(C) = n + 1
      /\ \A j \in 1 .. n + 1 : C[j] = IF j <= h THEN B[j]
                                      ELSE IF j = h + 1 THEN e ELSE B[j - 1]
  <2>1. n \in Nat
    BY DEF IsListOf
  <2> QED BY <2>1, AddInStep
<1>2. /\ v \in Walk /\ v.next = w.next /\ v.called = w.called /\ v.due = w.due
      /\ v.marks = IF h < w.next /\ "gone" \notin w.marks THEN w.marks \cup {"shifted"} ELSE w.marks
  BY DEF Walk, Marked
<1>3. WalkOK(w, B, U)
  OBVIOUS
<1>4. w.next \in Nat
  BY DEF Walk
<1> HIDE DEF v, B, C, n
<1>5. Range(v.called) \subseteq U \cup {e}
  BY <1>2, <1>3 DEF WalkOK
<1>6. "shifted" \notin v.marks => IsInjective(v.called)
  BY <1>2, <1>3 DEF WalkOK
<1>7. ASSUME "shifted" \notin v.marks, "gone" \notin v.marks, NEW j \in 1 .. n + 1, j > v.next
      PROVE  C[j] \notin Range(v.called)
  <2>1. "shifted" \notin w.marks /\ "gone" \notin w.marks /\ h >= w.next
    BY <1>1, <1>2, <1>4, <1>7
  <2>2. \A k \in 1 .. n : k > w.next => B[k] \notin Range(w.called)
    BY <1>3, <2>1 DEF WalkOK, n
  <2>3. CASE j <= h
    BY <2>3, <1>1, <1>2, <1>4, <1>7, <2>2
  <2>4. CASE j = h + 1
    <3>1. C[j] = e
      BY <2>4, <1>1
    <3> QED BY <3>1, <1>2, <1>3 DEF WalkOK
  <2>5. CASE j > h + 1
    <3>1. j - 1 \in 1 .. n /\ j - 1 > w.next /\ C[j] = B[j - 1]
      BY <2>1, <2>5, <1>1, <1>4
    <3> QED BY <3>1, <1>2, <2>2
  <2> QED BY <2>3, <2>4, <2>5, <1>1
<1>8. ASSUME "cut" \notin v.marks, NEW d \in v.due
      PROVE  \/ d \in Range(v.called)
             \/ "gone" \notin v.marks /\ \E j \in 1 .. n + 1 : j > v.next /\ C[j] = d
  <2>1. \/ d \in Range(w.called)
        \/ "gone" \notin w.marks /\ \E j \in 1 .. n : j > w.next /\ B[j] = d
    BY <1>2, <1>3, <1>8 DEF WalkOK, n
  <2>2. ASSUME "gone" \notin w.marks, NEW j \in 1 .. n, j > w.next, B[j] = d
        PROVE  "gone" \notin v.marks /\ \E k \in 1 .. n + 1 : k > v.next /\ C[k] = d
    <3>1. CASE j <= h
      <4>1. j \in 1 .. n + 1 /\ C[j] = d
        BY <3>1, <1>1, <2>2
      <4> QED BY <4>1, <1>2, <2>2
    <3>2. CASE j > h
      <4>1. j + 1 \in 1 .. n + 1 /\ C[j + 1] = d /\ j + 1 > w.next
        BY <3>2, <1>1, <1>4, <2>2
      <4> QED BY <4>1, <1>2, <2>2
    <3> QED BY <3>1, <3>2, <1>1
  <2> QED BY <2>1, <2>2, <1>2
<1>9. WalkOK(v, C, U \cup {e})
  BY <1>1, <1>5, <1>6, <1>7, <1>8 DEF WalkOK
<1> QED BY <1>2, <1>9 DEF v, C

(* What delHook of x, at place p, makes of a walk over a list that is C     *)
(* afterwards.                                                             *)
WithoutDeleted(w, x, p, C) ==
    [Marked(Marked(w, p <= w.next, "cut"), C = << >>, "gone") EXCEPT !.due = @ \ {x}]

LEMMA DelKeepsWalk ==
  ASSUME NEW w \in Walk, NEW l, IsListOf(l, Entries), InStep(l), NEW U, WalkOK(w, l.cItems, U),
         NEW i \in DOMAIN l.items, NEW x, x = l.items[i],
         NEW p, p = FindItem(l.cItems, x), NEW C, C = ListRemove(l, x).cItems
  PROVE  /\ WithoutDeleted(w, x, p, C) \in Walk
         /\ WalkOK(WithoutDeleted(w, x, p, C), C, U)
<1> DEFINE B == l.cItems
           t == Marked(w, p <= w.next, "cut")
           u == Marked(t, C = << >>, "gone")
           v == [u EXCEPT !.due = @ \ {x}]
           n == Len(B)
<1>1. /\ p \in 1 .. n /\ n \in Nat /\ B[p] = x /\ Len(C) = n - 1
      /\ \A j \in 1 .. n - 1 : C[j] = IF j < p THEN B[j] ELSE B[j + 1]
      /\ C \in Seq(Entries)
  <2>1. n \in Nat
    BY DEF IsListOf
  <2> QED BY <2>1, RemoveInStep DEF IsListOf
<1>2. /\ t \in Walk /\ t.next = w.next /\ t.called = w.called /\ t.due = w.due
      /\ t.marks = IF p <= w.next /\ "gone" \notin w.marks THEN w.marks \cup {"cut"} ELSE w.marks
  BY DEF Walk, Marked
<1>3. /\ u \in Walk /\ u.next = w.next /\ u.called = w.called /\ u.due = w.due
      /\ u.marks = IF C = << >> /\ "gone" \notin t.marks THEN t.marks \cup {"gone"} ELSE t.marks
  <2> HIDE DEF t
  <2> QED BY <1>2 DEF Walk, Marked
<1>4. /\ v \in Walk /\ v.next = w.next /\ v.called = w.called /\ v.due = w.due \ {x}
      /\ v.marks = u.marks
  <2> HIDE DEF u
  <2> QED BY <1>3 DEF Walk
<1>5. WalkOK(w, B, U)
  OBVIOUS
<1>6. w.next \in Nat
  BY DEF Walk
<1>7. /\ "shifted" \in w.marks => "shifted" \in v.marks
      /\ "gone" \in w.marks => "gone" \in v.marks
      /\ "cut" \in w.marks => "cut" \in v.marks
      /\ p <= w.next /\ "gone" \notin w.marks => "cut" \in v.marks
      /\ "gone" \in v.marks => C = << >> \/ "gone" \in w.marks
  <2> HIDE DEF t, u, v
  <2> QED BY <1>2, <1>3, <1>4
<1> HIDE DEF v, u, t, B, n
<1>8. Range(v.called) \subseteq U
  BY <1>4, <1>5 DEF WalkOK
<1>9. "shifted" \notin v.marks => IsInjective(v.called)
  BY <1>4, <1>5, <1>7 DEF WalkOK
<1>10. ASSUME "shifted" \notin v.marks, "gone" \notin v.marks, NEW j \in 1 .. n - 1, j > v.next
       PROVE  C[j] \notin Range(v.called)
  <2>1. \A k \in 1 .. n : k > w.next => B[k] \notin Range(w.called)
    BY <1>5, <1>7, <1>10 DEF WalkOK, n
  <2>2. CASE j < p
    BY <2>1, <2>2, <1>1, <1>4, <1>10
  <2>3. CASE ~(j < p)
    <3>1. j + 1 \in 1 .. n /\ j + 1 > w.next /\ C[j] = B[j + 1]
      BY <2>3, <1>1, <1>4, <1>6, <1>10
    <3> QED BY <3>1, <2>1, <1>4
  <2> QED BY <2>2, <2>3
<1>11. ASSUME "cut" \notin v.marks, NEW d \in v.due
       PROVE  \/ d \in Range(v.called)
              \/ "gone" \notin v.marks /\ \E j \in 1 .. n - 1 : j > v.next /\ C[j] = d
  <2>1. \/ d \in Range(w.called)
        \/ "gone" \notin w.marks /\ \E j \in 1 .. n : j > w.next /\ B[j] = d
    BY <1>4, <1>5, <1>7, <1>11 DEF WalkOK, n
  <2>2. ASSUME "gone" \notin w.marks, NEW j \in 1 .. n, j > w.next, B[j] = d
        PROVE  "gone" \notin v.marks /\ \E k \in 1 .. n - 1 : k > v.next /\ C[k] = d
    <3>1. j # p /\ p > w.next
      BY <1>1, <1>4, <1>6, <1>7, <1>11, <2>2
    <3>2. \E k \in 1 .. n - 1 : k > v.next /\ C[k] = d
      <4>1. CASE j < p
        <5>1. j \in 1 .. n - 1 /\ C[j] = d
          BY <4>1, <1>1, <2>2
        <5> QED BY <5>1, <1>4, <2>2
      <4>2. CASE j > p
        <5>1. j - 1 \in 1 .. n - 1 /\ ~(j - 1 < p) /\ (j - 1) + 1 = j /\ j - 1 > w.next
          BY <4>2, <3>1, <1>1, <1>6
        <5>2. C[j - 1] = d
          BY <5>1, <1>1, <2>2
        <5> QED BY <5>1, <5>2, <1>4
      <4> QED BY <3>1, <4>1, <4>2, <1>1
    <3>3. C # << >>
      BY <3>2, <1>1
    <3> QED BY <3>2, <3>3, <1>7, <2>2
  <2> QED BY <2>1, <2>2, <1>4
<1>12. WalkOK(v, C, U)
  BY <1>1, <1>8, <1>9, <1>10, <1>11 DEF WalkOK
<1>13. WithoutDeleted(w, x, p, C) = v
  BY DEF WithoutDeleted, v, u, t
<1> QED BY <1>4, <1>12, <1>13

LEMMA InvokeKeepsWalk ==
  ASSUME NEW w \in Walk, NEW l, IsListOf(l, Entries), InStep(l), NEW U, WalkOK(w, l.cItems, U),
         w.next < Len(l.cItems), "gone" \notin w.marks,
         NEW e \in Entries, e \in U, e = l.cItems[w.next + 1]
  PROVE  LET v == [w EXCEPT !.next = @ + 1, !.called = Append(@, e)]
         IN  v \in Walk /\ WalkOK(v, l.cItems, U)
<1> DEFINE v == [w EXCEPT !.next = @ + 1, !.called = Append(@, e)]
           C == l.cItems
           n == Len(C)
<1>1. /\ w.next \in Nat /\ w.called \in Seq(Entries)
      /\ v \in Walk /\ v.next = w.next + 1 /\ v.called = Append(w.called, e)
      /\ v.due = w.due /\ v.marks = w.marks
  <2> DEFINE k == w.next + 1
             q == Append(w.called, e)
  <2>1. w.next \in Nat /\ w.called \in Seq(Entries) /\ k \in Nat /\ q \in Seq(Entries)
    BY DEF Walk
  <2>2. v = [w EXCEPT !.next = k, !.called = q]
    OBVIOUS
  <2> HIDE DEF v, k, q
  <2>3. v \in Walk /\ v.next = k /\ v.called = q /\ v.due = w.due /\ v.marks = w.marks
    BY <2>1, <2>2 DEF Walk
  <2> QED BY <2>1, <2>3 DEF k, q
<1>2. n \in Nat /\ w.next + 1 \in 1 .. n /\ DOMAIN C = 1 .. n
  BY <1>1 DEF IsListOf
<1>3. WalkOK(w, C, U) /\ e = C[w.next + 1] /\ "gone" \notin w.marks
  OBVIOUS
<1>4. \A j, k \in 1 .. n : C[j] = C[k] => j = k
  BY <1>2, InStepUnique
<1>5. Range(v.called) = Range(w.called) \cup {e}
  BY <1>1, AppendRange
<1> HIDE DEF v, C, n
<1>6. Range(v.called) \subseteq U
  BY <1>3, <1>5 DEF WalkOK
<1>7. ASSUME "shifted" \notin v.marks
      PROVE  /\ IsInjective(v.called)
             /\ \A j \in 1 .. n : j > v.next => C[j] \notin Range(v.called)
  <2>1. /\ IsInjective(w.called)
        /\ \A j \in 1 .. n : j > w.next => C[j] \notin Range(w.called)
    BY <1>1, <1>3, <1>7 DEF WalkOK, n
  <2>2. e \notin Range(w.called)
    BY <1>1, <1>2, <1>3, <2>1
  <2>3. IsInjective(v.called)
    <3> DEFINE q == w.called
               r == v.called
    <3>1. /\ DOMAIN q = 1 .. Len(q) /\ Len(q) \in Nat /\ DOMAIN r = 1 .. Len(q) + 1
          /\ r[Len(q) + 1] = e /\ \A j \in 1 .. Len(q) : r[j] = q[j]
      BY <1>1
    <3>2. \A j \in 1 .. Len(q) : q[j] # e
      BY <3>1, <2>2 DEF Range
    <3>3. \A j, k \in 1 .. Len(q) : q[j] = q[k] => j = k
      BY <3>1, <2>1 DEF IsInjective
    <3> HIDE DEF q, r
    <3>4. \A j, k \in 1 .. Len(q) + 1 : r[j] = r[k] => j = k
      <4> TAKE j, k \in 1 .. Len(q) + 1
      <4> HAVE r[j] = r[k]
      <4>1. CASE j = Len(q) + 1
        BY <4>1, <3>1, <3>2
      <4>2. CASE k = Len(q) + 1
        BY <4>2, <3>1, <3>2
      <4>3. CASE j \in 1 .. Len(q) /\ k \in 1 .. Len(q)
        BY <4>3, <3>1, <3>3
      <4> QED BY <3>1, <4>1, <4>2, <4>3
    <3>5. IsInjective(r)
      BY <3>1, <3>4 DEF IsInjective
    <3> QED BY <3>5 DEF r
  <2>4. ASSUME NEW j \in 1 .. n, j > v.next
        PROVE  C[j] \notin Range(v.called)
    <3>1. j > w.next /\ j # w.next + 1
      BY <1>1, <2>4
    <3>2. C[j] # e
      BY <1>2, <1>3, <1>4, <3>1
    <3> QED BY <1>5, <2>1, <3>1, <3>2
  <2> QED BY <2>3, <2>4
<1>8. ASSUME "cut" \notin v.marks, NEW d \in v.due
      PROVE  \/ d \in Range(v.called)
             \/ "gone" \notin v.marks /\ \E j \in 1 .. n : j > v.next /\ C[j] = d
  <2>1. d \in Range(w.called) \/ \E j \in 1 .. n : j > w.next /\ C[j] = d
    BY <1>1, <1>3, <1>8 DEF WalkOK, n
  <2>2. ASSUME NEW j \in 1 .. n, j > w.next, C[j] = d
        PROVE  d = e \/ j > v.next
    BY <1>1, <1>3, <2>2
  <2> QED BY <1>1, <1>3, <1>5, <2>1, <2>2
<1>9. WalkOK(v, C, U)
  BY <1>6, <1>7, <1>8 DEF WalkOK, n
<1> QED BY <1>1, <1>9 DEF v, C

-----------------------------------------------------------------------------
(* The invariant.                                                          *)

(* Who is in one array is in the other.                                    *)
LEMMA Members ==
  ASSUME TypeOK, ListInStep, EntriesHaveHandles
  PROVE  /\ \A j \in 1 .. Len(hook.cItems) : /\ hook.cItems[j] \in used
                                             /\ handle[hook.cItems[j]] # NoIndex
         /\ \A e \in Entries \ used : e \notin Range(hook.items)
<1>1. /\ DOMAIN hook.items \subseteq Nat /\ hook.items \in [DOMAIN hook.items -> Entries]
      /\ DOMAIN hook.cItems = 1 .. Len(hook.cItems)
  BY DEF TypeOK, IsListOf
<1>2. \A a \in DOMAIN hook.items : hook.items[a] \in used /\ handle[hook.items[a]] # NoIndex
  BY <1>1, EntriesAssumption DEF EntriesHaveHandles
<1>3. \A j \in DOMAIN hook.cItems : \E a \in DOMAIN hook.items : hook.cItems[j] = hook.items[a]
  BY InStepUnique DEF TypeOK, ListInStep
<1> QED BY <1>1, <1>2, <1>3 DEF Range

LEMMA InitIInv == Init => IInv
<1> SUFFICES ASSUME Init PROVE IInv
  OBVIOUS
<1>1. hook.items = << >> /\ hook.cItems = << >> /\ DOMAIN hook = {"items", "cItems"}
  BY DEF Init, EmptyList
<1>2. DOMAIN << >> = {} /\ << >> \in Seq(Entries) /\ Len(<< >>) = 0 /\ << >> \in [{} -> Entries]
  OBVIOUS
<1>3. IsListOf(hook, Entries)
  BY <1>1, <1>2 DEF IsListOf
<1>4. ListInStep
  BY <1>1, <1>2 DEF ListInStep, InStep, Range
<1>5. TypeOK
  BY <1>3 DEF TypeOK, Init
<1>6. HandleFindsEntry /\ EntriesHaveHandles
  BY <1>1, <1>2 DEF HandleFindsEntry, EntriesHaveHandles, Init
<1>7. WalksOK
  BY DEF WalksOK, Init
<1> QED BY <1>4, <1>5, <1>6, <1>7 DEF IInv

LEMMA AddHookKeeps ==
  ASSUME IInv, NEW e \in Entries, AddHook(e)
  PROVE  IInv'
<1> USE DEF IInv
<1>1. PICK h \in FirstHole(hook) :
        /\ hook' = ListAdd(hook, h, e)
        /\ handle' = [handle EXCEPT ![e] = h]
        /\ walks' = [k \in DOMAIN walks |-> Marked(walks[k], h < walks[k].next, "shifted")]
  BY DEF AddHook
<1>2. /\ e \notin used /\ used' = used \cup {e} /\ e \notin Range(hook.items)
      /\ IsListOf(hook, Entries) /\ InStep(hook)
  BY Members DEF AddHook, TypeOK, ListInStep
<1>3. /\ IsListOf(hook', Entries) /\ InStep(hook')
      /\ h \notin DOMAIN hook.items /\ h \in Nat
      /\ hook'.items = WithItem(hook.items, h, e)
  <2>1. Len(hook.cItems) \in Nat
    BY <1>2 DEF IsListOf
  <2> QED BY <1>1, <1>2, <2>1, AddInStep
<1>4. /\ DOMAIN hook'.items = DOMAIN hook.items \cup {h} /\ hook'.items[h] = e
      /\ \A a \in DOMAIN hook.items : hook'.items[a] = hook.items[a]
  BY <1>3 DEF WithItem
<1>5. handle' \in [Entries -> Nat \cup {NoIndex}] /\ used' \subseteq Entries
  BY <1>1, <1>2, <1>3 DEF TypeOK
<1>6. \A k \in 1 .. Len(walks) : walks[k] \in Walk /\ WalkOK(walks[k], hook.cItems, used)
  BY DEF TypeOK, WalksOK
<1>7. \A k \in 1 .. Len(walks) :
        LET v == Marked(walks[k], h < walks[k].next, "shifted")
        IN  v \in Walk /\ WalkOK(v, hook'.cItems, used')
  BY <1>1, <1>2, <1>6, AddKeepsWalk
<1>8. /\ DOMAIN walks = 1 .. Len(walks) /\ Len(walks) \in Nat
      /\ walks' \in Seq(Walk) /\ Len(walks') = Len(walks)
      /\ \A k \in 1 .. Len(walks) : walks'[k] \in Walk /\ WalkOK(walks'[k], hook'.cItems, used')
  <2>1. DOMAIN walks = 1 .. Len(walks) /\ Len(walks) \in Nat
    BY DEF TypeOK
  <2> DEFINE f == [k \in 1 .. Len(walks) |-> Marked(walks[k], h < walks[k].next, "shifted")]
  <2>2. walks' = f
    BY <1>1, <2>1
  <2>3. \A k \in 1 .. Len(walks) : f[k] \in Walk /\ WalkOK(f[k], hook'.cItems, used')
    BY <1>7
  <2>4. DOMAIN f = 1 .. Len(walks) /\ f = [k \in 1 .. Len(walks) |-> f[k]]
    OBVIOUS
  <2> HIDE DEF f
  <2>5. f \in Seq(Walk) /\ Len(f) = Len(walks)
    BY <2>1, <2>3, <2>4
  <2> QED BY <2>1, <2>2, <2>3, <2>5
<1>9. TypeOK' /\ ListInStep' /\ WalksOK'
  BY <1>3, <1>5, <1>8 DEF TypeOK, ListInStep, WalksOK
<1>10. HandleFindsEntry'
  BY <1>1, <1>3, <1>4 DEF HandleFindsEntry, TypeOK
<1>11. EntriesHaveHandles'
  <2>1. \A a \in DOMAIN hook.items : hook.items[a] \in Entries /\ hook.items[a] # e
    BY <1>2 DEF IsListOf, Range
  <2>2. \A a \in DOMAIN hook'.items : handle'[hook'.items[a]] = a
    BY <1>1, <1>4, <2>1 DEF EntriesHaveHandles, TypeOK
  <2>3. \A d \in Entries : handle'[d] # NoIndex => d \in used'
    BY <1>1, <1>2 DEF EntriesHaveHandles, TypeOK
  <2> QED BY <2>2, <2>3 DEF EntriesHaveHandles
<1> QED BY <1>9, <1>10, <1>11

LEMMA DelHookKeeps ==
  ASSUME IInv, NEW e \in Entries, DelHook(e)
  PROVE  IInv'
<1> USE DEF IInv
<1> DEFINE i == handle[e]
           p == FindItem(hook.cItems, e)
           V(w) == WithoutDeleted(w, e, p, hook'.cItems)
<1>1. i \in DOMAIN hook.items /\ hook.items[i] = e /\ i \in Nat
  BY DEF DelHook, HandleFindsEntry, TypeOK, IsListOf
<1>2. /\ handle' = [handle EXCEPT ![e] = NoIndex]
      /\ hook' = ListRemove(hook, e)
      /\ walks' = [k \in DOMAIN walks |-> V(walks[k])]
      /\ used' = Existing(handle', walks')
  BY <1>1 DEF DelHook, WithoutDeleted
<1>3. IsListOf(hook, Entries) /\ InStep(hook)
  BY DEF TypeOK, ListInStep
<1>4. /\ IsListOf(hook', Entries) /\ InStep(hook')
      /\ DOMAIN hook'.items = DOMAIN hook.items \ {i}
      /\ \A a \in DOMAIN hook'.items : hook'.items[a] = hook.items[a]
  <2>1. hook' = ListRemove(hook, hook.items[i])
    BY <1>1, <1>2
  <2> QED BY <1>1, <1>3, <2>1, RemoveInStep
<1>5. \A a \in DOMAIN hook.items : hook.items[a] \in Entries /\ (hook.items[a] = e => a = i)
  BY <1>1, <1>3, InStepUnique DEF IsListOf
<1>6. handle' \in [Entries -> Nat \cup {NoIndex}]
  BY <1>2 DEF TypeOK
<1>7. used' \subseteq Entries /\ \A d \in Entries : handle'[d] # NoIndex => d \in used'
  <2>1. \A d \in Entries : handle'[d] # NoIndex => d \in used
    BY <1>2 DEF EntriesHaveHandles, TypeOK
  <2> QED BY <1>2, <2>1 DEF Existing, TypeOK
<1>8. HandleFindsEntry'
  <2>1. ASSUME NEW d \in Entries, handle'[d] # NoIndex
        PROVE  handle'[d] \in DOMAIN hook'.items /\ hook'.items[handle'[d]] = d
    <3>1. d # e /\ handle'[d] = handle[d]
      BY <1>2, <2>1 DEF TypeOK
    <3>2. handle[d] \in DOMAIN hook.items /\ hook.items[handle[d]] = d
      BY <2>1, <3>1 DEF HandleFindsEntry
    <3> QED BY <1>1, <1>4, <3>1, <3>2
  <2> QED BY <2>1 DEF HandleFindsEntry
<1>9. \A a \in DOMAIN hook'.items : handle'[hook'.items[a]] = a
  BY <1>2, <1>4, <1>5 DEF EntriesHaveHandles, TypeOK
<1>10. \A k \in 1 .. Len(walks) : V(walks[k]) \in Walk /\ WalkOK(V(walks[k]), hook'.cItems, used)
  <2> TAKE k \in 1 .. Len(walks)
  <2>1. walks[k] \in Walk /\ WalkOK(walks[k], hook.cItems, used)
    BY DEF TypeOK, WalksOK
  <2> DEFINE w == walks[k]
  <2> HIDE DEF w
  <2>2. w \in Walk /\ WalkOK(w, hook.cItems, used)
    BY <2>1 DEF w
  <2> DEFINE C == hook'.cItems
  <2>3. C = ListRemove(hook, e).cItems
    BY <1>2
  <2>4. i \in DOMAIN hook.items /\ e = hook.items[i]
    BY <1>1
  <2>5. p = FindItem(hook.cItems, e)
    OBVIOUS
  <2> HIDE DEF C, i, p, IInv
  <2>6. WithoutDeleted(w, e, p, C) \in Walk /\ WalkOK(WithoutDeleted(w, e, p, C), C, used)
    BY <1>3, <2>2, <2>3, <2>4, <2>5, DelKeepsWalk
  <2> QED BY <2>6 DEF w, C
<1>11. /\ DOMAIN walks = 1 .. Len(walks) /\ Len(walks) \in Nat
       /\ walks' \in Seq(Walk) /\ Len(walks') = Len(walks)
       /\ \A k \in 1 .. Len(walks) : WalkOK(walks'[k], hook'.cItems, used)
  <2>1. DOMAIN walks = 1 .. Len(walks) /\ Len(walks) \in Nat
    BY DEF TypeOK
  <2> DEFINE f == [k \in 1 .. Len(walks) |-> V(walks[k])]
  <2> HIDE DEF V
  <2>2. walks' = f
    BY <1>2, <2>1
  <2>3. \A k \in 1 .. Len(walks) : f[k] \in Walk /\ WalkOK(f[k], hook'.cItems, used)
    BY <1>10
  <2>4. DOMAIN f = 1 .. Len(walks) /\ f = [k \in 1 .. Len(walks) |-> f[k]]
    OBVIOUS
  <2> HIDE DEF f
  <2>5. f \in Seq(Walk) /\ Len(f) = Len(walks)
    BY <2>1, <2>3, <2>4
  <2> QED BY <2>1, <2>2, <2>3, <2>5
<1>12. WalksOK'
  <2>1. CASE Len(walks) = 0
    BY <2>1, <1>11 DEF WalksOK
  <2>2. CASE Len(walks) # 0
    <3>1. used' = used
      BY <2>2, <1>2, <1>11 DEF Existing
    <3> QED BY <3>1, <1>11 DEF WalksOK
  <2> QED BY <2>1, <2>2
<1> QED BY <1>4, <1>6, <1>7, <1>8, <1>9, <1>11, <1>12 DEF TypeOK, ListInStep, EntriesHaveHandles

(* Who is about to be called is in the list and has been added.            *)
LEMMA InvokedIsIn ==
  ASSUME IInv, NEW e \in Entries, Invoke(e)
  PROVE  /\ Len(walks) \in Nat \ {0} /\ Last(walks) \in Walk /\ Last(walks) = walks[Len(walks)]
         /\ "gone" \notin Last(walks).marks
         /\ Last(walks).next < Len(hook.cItems) /\ e = hook.cItems[Last(walks).next + 1]
         /\ e \in used /\ handle[e] # NoIndex
<1> DEFINE w == Last(walks)
<1>1. walks \in Seq(Walk) /\ walks # << >> /\ w.next < Len(Items(w)) /\ e = Items(w)[w.next + 1]
  BY DEF IInv, TypeOK, Invoke
<1>2. Len(walks) \in Nat \ {0} /\ w = walks[Len(walks)] /\ w \in Walk
  BY <1>1 DEF Last
<1>3. w.next \in Nat
  BY <1>2 DEF Walk
<1> HIDE DEF w
<1>4. "gone" \notin w.marks /\ Items(w) = hook.cItems
  <2>1. Len(<< >>) = 0
    OBVIOUS
  <2> QED BY <1>1, <1>3, <2>1 DEF Items
<1>5. Len(hook.cItems) \in Nat
  BY DEF IInv, TypeOK, IsListOf
<1>6. w.next + 1 \in 1 .. Len(hook.cItems)
  BY <1>1, <1>3, <1>4, <1>5
<1>7. e \in used /\ handle[e] # NoIndex
  BY <1>1, <1>4, <1>6, Members DEF IInv
<1> QED BY <1>1, <1>2, <1>4, <1>7 DEF w

LEMMA InvokeKeeps ==
  ASSUME IInv, NEW e \in Entries, Invoke(e)
  PROVE  IInv'
<1> DEFINE w == Last(walks)
           n == Len(walks)
           v == [w EXCEPT !.next = @ + 1, !.called = Append(@, e)]
           f == Front(walks)
<1>1. walks' = Append(f, v) /\ UNCHANGED <<hook, handle, used>>
  BY DEF Invoke
<1>2. walks \in Seq(Walk) /\ n \in Nat \ {0} /\ w = walks[n] /\ w \in Walk
  BY InvokedIsIn DEF IInv, TypeOK
<1>3. IsListOf(hook, Entries) /\ InStep(hook)
  BY DEF IInv, TypeOK, ListInStep
<1>4. \A k \in 1 .. n : WalkOK(walks[k], hook.cItems, used)
  BY DEF IInv, WalksOK
<1>5. v \in Walk /\ WalkOK(v, hook.cItems, used)
  <2>1. WalkOK(w, hook.cItems, used)
    BY <1>2, <1>4
  <2> QED BY <1>2, <1>3, <2>1, InvokedIsIn, InvokeKeepsWalk
<1>6. f \in Seq(Walk) /\ Len(f) = n - 1 /\ \A k \in 1 .. n - 1 : f[k] = walks[k]
  BY <1>2, FrontType
<1> HIDE DEF w, n, v, f
<1>7. walks' \in Seq(Walk) /\ Len(walks') = n
  BY <1>1, <1>2, <1>5, <1>6
<1>8. ASSUME NEW k \in 1 .. n
      PROVE  WalkOK(walks'[k], hook.cItems, used)
  <2>1. CASE k = n
    <3>1. walks'[k] = v
      BY <2>1, <1>1, <1>2, <1>5, <1>6
    <3> QED BY <3>1, <1>5
  <2>2. CASE k # n
    <3>1. k \in 1 .. n - 1 /\ walks'[k] = walks[k]
      BY <2>2, <1>1, <1>2, <1>5, <1>6
    <3> QED BY <3>1, <1>4
  <2> QED BY <2>1, <2>2
<1>9. WalksOK'
  BY <1>1, <1>7, <1>8 DEF WalksOK
<1> QED BY <1>1, <1>7, <1>9
        DEF IInv, TypeOK, ListInStep, HandleFindsEntry, EntriesHaveHandles

LEMMA BeginCallKeeps ==
  ASSUME IInv, BeginCall
  PROVE  IInv'
<1> DEFINE v == [next |-> 0, called |-> << >>, due |-> Range(hook.cItems), marks |-> {}]
           n == Len(walks)
<1>1. walks' = Append(walks, v) /\ UNCHANGED <<hook, handle, used>>
  BY DEF BeginCall
<1>2. walks \in Seq(Walk) /\ n \in Nat /\ \A k \in 1 .. n : WalkOK(walks[k], hook.cItems, used)
  BY DEF IInv, TypeOK, WalksOK
<1>3. Range(hook.cItems) = {hook.cItems[j] : j \in 1 .. Len(hook.cItems)} /\ Range(hook.cItems) \subseteq Entries
  BY DEF IInv, TypeOK, IsListOf, Range
<1>4. /\ v \in Walk /\ v.next = 0 /\ v.called = << >> /\ v.due = Range(hook.cItems) /\ v.marks = {}
  BY <1>3 DEF Walk
<1>5. Range(<< >>) = {} /\ IsInjective(<< >>)
  BY DEF Range, IsInjective
<1> HIDE DEF v
<1>6. WalkOK(v, hook.cItems, used)
  BY <1>3, <1>4, <1>5 DEF WalkOK
<1>7. walks' \in Seq(Walk) /\ Len(walks') = n + 1 /\ walks'[n + 1] = v
      /\ \A k \in 1 .. n : walks'[k] = walks[k]
  BY <1>1, <1>2, <1>4
<1>8. WalksOK'
  <2> HIDE DEF n
  <2>1. \A k \in 1 .. n + 1 : WalkOK(walks'[k], hook.cItems, used)
    BY <1>2, <1>6, <1>7
  <2> QED BY <1>1, <1>7, <2>1 DEF WalksOK
<1> QED BY <1>1, <1>7, <1>8
        DEF IInv, TypeOK, ListInStep, HandleFindsEntry, EntriesHaveHandles

LEMMA LeaveKeeps ==
  ASSUME IInv, walks # << >>, Leave
  PROVE  IInv'
<1> DEFINE n == Len(walks)
<1>1. walks' = Front(walks) /\ UNCHANGED <<hook, handle>> /\ used' = Existing(handle, walks')
      /\ walks # << >>
  BY DEF Leave
<1>2. walks \in Seq(Walk) /\ n \in Nat \ {0} /\ \A k \in 1 .. n : WalkOK(walks[k], hook.cItems, used)
  BY <1>1 DEF IInv, TypeOK, WalksOK
<1>3. walks' \in Seq(Walk) /\ Len(walks') = n - 1 /\ \A k \in 1 .. n - 1 : walks'[k] = walks[k]
  BY <1>1, <1>2, FrontType
<1>4. used' \subseteq Entries /\ \A d \in Entries : handle[d] # NoIndex => d \in used'
  BY <1>1 DEF Existing, IInv, TypeOK, EntriesHaveHandles
<1>5. WalksOK'
  <2>1. CASE n = 1
    BY <2>1, <1>3 DEF WalksOK
  <2>2. CASE n # 1
    <3>1. walks' # << >>
      BY <2>2, <1>2, <1>3
    <3>2. used' = used
      BY <3>1, <1>1 DEF Existing
    <3>3. \A k \in 1 .. n - 1 : WalkOK(walks'[k], hook.cItems, used)
      BY <1>2, <1>3
    <3> QED BY <1>1, <1>3, <3>2, <3>3 DEF WalksOK
  <2> QED BY <2>1, <2>2
<1> QED BY <1>1, <1>3, <1>4, <1>5
        DEF IInv, TypeOK, ListInStep, HandleFindsEntry, EntriesHaveHandles

LEMMA IInvHolds == Spec => []IInv
<1>1. Init => IInv
  BY InitIInv
<1>2. IInv /\ [Next]_vars => IInv'
  <2> SUFFICES ASSUME IInv, [Next]_vars PROVE IInv'
    OBVIOUS
  <2>1. ASSUME NEW e \in Entries, AddHook(e) PROVE IInv'
    BY <2>1, AddHookKeeps
  <2>2. ASSUME NEW e \in Entries, DelHook(e) PROVE IInv'
    BY <2>2, DelHookKeeps
  <2>3. ASSUME NEW e \in Entries, Invoke(e) PROVE IInv'
    BY <2>3, InvokeKeeps
  <2>4. CASE BeginCall
    BY <2>4, BeginCallKeeps
  <2>5. CASE EndCall \/ Throw
    BY <2>5, LeaveKeeps DEF EndCall, Throw
  <2>6. CASE UNCHANGED vars
    BY <2>6 DEF vars, IInv, TypeOK, ListInStep, HandleFindsEntry, EntriesHaveHandles, WalksOK
  <2> QED BY <2>1, <2>2, <2>3, <2>4, <2>5, <2>6 DEF Next
<1> QED BY <1>1, <1>2, PTL DEF Spec

-----------------------------------------------------------------------------
(* Theorems.                                                               *)

(* Every variable keeps its type; both arrays hold entries only.           *)
THEOREM HooksTypeCorrect == Spec => []TypeOK
<1>1. IInv => TypeOK
  BY DEF IInv
<1> QED BY <1>1, IInvHolds, PTL

(* ObjectList.pm:91-101: the compact array is the sparse one without its   *)
(* holes, for any number of entries and any order of add and remove.       *)
THEOREM ArraysStayInStep == Spec => []ListInStep
<1>1. IInv => ListInStep
  BY DEF IInv
<1> QED BY <1>1, IInvHolds, PTL

(* delHook takes away the entry its handle was made for, however often     *)
(* indices were reused.                                                    *)
THEOREM HandlesFindEntries == Spec => []HandleFindsEntry
<1>1. IInv => HandleFindsEntry
  BY DEF IInv
<1> QED BY <1>1, IInvHolds, PTL

(* callHook never calls an entry after its delHook, from walks under way   *)
(* either.                                                                 *)
THEOREM DeletedAreNotCalled == Spec => NotCalledAnymore
<1>1. IInv /\ [Next]_vars => [\A e \in Entries : Invoke(e) => handle[e] # NoIndex]_vars
  BY InvokedIsIn
<1> QED BY <1>1, IInvHolds, PTL DEF Spec, NotCalledAnymore

(* callHook calls nobody twice unless an entry was added behind it.        *)
THEOREM NobodyCalledTwice == Spec => []CalledOnce
<1>1. IInv => CalledOnce
  BY DEF IInv, CalledOnce, WalksOK, WalkOK, TypeOK
<1> QED BY <1>1, IInvHolds, PTL

(* callHook calls everyone who was there and was not deleted, unless an    *)
(* entry was deleted behind it.                                            *)
THEOREM EveryoneElseIsCalled == Spec => []AllCalled
<1>1. IInv => AllCalled
  <2> SUFFICES ASSUME IInv, NEW k \in DOMAIN walks, AtEnd(walks[k]), "cut" \notin walks[k].marks,
                      NEW e \in walks[k].due
               PROVE  e \in Range(walks[k].called)
    BY DEF AllCalled
  <2>1. walks[k] \in Walk /\ WalkOK(walks[k], hook.cItems, used)
    BY DEF IInv, TypeOK, WalksOK
  <2>2. walks[k].next \in Nat /\ Len(hook.cItems) \in Nat
    BY <2>1 DEF Walk, IInv, TypeOK, IsListOf
  <2>3. CASE "gone" \in walks[k].marks
    BY <2>1, <2>3 DEF WalkOK
  <2>4. CASE "gone" \notin walks[k].marks
    <3>1. walks[k].next >= Len(hook.cItems)
      BY <2>4 DEF AtEnd, Items
    <3> QED BY <2>1, <2>2, <3>1 DEF WalkOK
  <2> QED BY <2>3, <2>4
<1> QED BY <1>1, IInvHolds, PTL

(***************************************************************************)
(* Messages stay whole.  Whatever servers say, in whatever pieces it comes *)
(* and wherever it breaks off, the tokenizer cuts where a message ends.    *)
(* The inductive invariant follows what was said on this connection and    *)
(* not handled: it is a row of messages, of which the buffer and the bytes *)
(* on their way are the beginning, and all while the server is there; only *)
(* the first may be the account's number, and while it is due, the mark is *)
(* set that makes readNext look for it.                                    *)
(***************************************************************************)

(* A step leaves the line to the server as it is, or cuts it.              *)
Line(c, d) ==
    /\ d \in Connections
    /\ \/ d.wire = c.wire /\ d.link = c.link /\ d.hungUp = c.hungUp
       \/ d.wire = << >> /\ d.link = "none"

(* All operators on connections do.                                        *)
LEMMA LineOperators ==
  ASSUME NEW b, NEW c \in Connections, Line(b, c)
  PROVE  /\ Line(b, Disconnected(c)) /\ Line(b, Untried(c)) /\ Line(b, Paused(c)) /\ Line(b, Quit(c))
         /\ \A s \in States : Line(b, InState(s, c))
<1>1. Line(b, Disconnected(c))
  <2>1. Disconnected(c).wire = << >> /\ Disconnected(c).link = "none"
    BY DEF Disconnected, Connections
  <2> QED BY <2>1, OperatorTypes DEF Line
<1>2. ASSUME NEW d \in Connections, d.wire = c.wire, d.link = c.link, d.hungUp = c.hungUp
      PROVE  Line(b, d)
  BY <1>2 DEF Line
<1>3. Line(b, Untried(c))
  <2>1. Untried(c).wire = c.wire /\ Untried(c).link = c.link /\ Untried(c).hungUp = c.hungUp
    BY DEF Untried, Connections
  <2> QED BY <1>2, <2>1, OperatorTypes
<1>4. Line(b, Paused(c))
  <2>1. Paused(c).wire = c.wire /\ Paused(c).link = c.link /\ Paused(c).hungUp = c.hungUp
    BY DEF Paused, Connections
  <2> QED BY <1>2, <2>1, OperatorTypes
<1>5. Line(b, Quit(c))
  <2>1. Quit(c).wire = c.wire /\ Quit(c).link = c.link /\ Quit(c).hungUp = c.hungUp
    BY DEF Quit, Connections
  <2> QED BY <1>2, <2>1, OperatorTypes
<1>6. ASSUME NEW s \in States PROVE Line(b, InState(s, c))
  <2>1. /\ InState(s, c).wire = c.wire /\ InState(s, c).link = c.link
        /\ InState(s, c).hungUp = c.hungUp
    BY DEF InState, Connections
  <2> QED BY <1>2, <2>1, InStateType
<1> QED BY <1>1, <1>3, <1>4, <1>5, <1>6

(* What a step leaves is a connection.                                     *)
LEMMA LineIsConnection ==
  ASSUME NEW b, NEW c, Line(b, c)
  PROVE  c \in Connections
BY DEF Line

(* And so does what is made of them.                                       *)
LEMMA LineRelogged ==
  ASSUME NEW b, NEW c \in Connections, Line(b, c)
  PROVE  Line(b, Relogged(c))
<1>0. NOT_CONNECTED \in States
  BY DEF States
<1>1. Line(b, Disconnected(c)) /\ Disconnected(c) \in Connections
  BY LineOperators, LineIsConnection
<1>2. Line(b, Paused(Disconnected(c))) /\ Paused(Disconnected(c)) \in Connections
  BY <1>1, LineOperators, LineIsConnection
<1>3. Line(b, Untried(Paused(Disconnected(c)))) /\ Untried(Paused(Disconnected(c))) \in Connections
  BY <1>2, LineOperators, LineIsConnection
<1> QED BY <1>0, <1>3, LineOperators DEF Relogged

(* A connection that does not change.                                      *)
LEMMA LineItself ==
  ASSUME NEW c \in Connections
  PROVE  Line(c, c)
BY DEF Line

(* The answers of login_error.                                             *)
LEMMA LoginErrorLine ==
  ASSUME NEW c \in Connections, NEW type, NEW d \in login_error(c, type)
  PROVE  Line(c, d)
<1> DEFINE e == Disconnected(c)
           u == Untried(e)
           a == [u EXCEPT !.pause = FALSE, !.rested = TRUE]
<1>1. Line(c, e) /\ e \in Connections
  BY LineItself, LineOperators, LineIsConnection
<1>2. Line(c, u) /\ u \in Connections
  BY <1>1, LineOperators, LineIsConnection
<1>3. Line(c, a)
  <2>1. a \in Connections
    BY <1>2 DEF Connections
  <2>2. a.wire = u.wire /\ a.link = u.link /\ a.hungUp = u.hungUp
    BY <1>2 DEF Connections
  <2> HIDE DEF a, u
  <2> QED BY <1>2, <2>1, <2>2 DEF Line
<1>4. Line(c, Quit(e)) /\ Line(c, Relogged(e))
  BY <1>1, LineOperators, LineRelogged
<1>5. d \in {e, Quit(e), a, Relogged(e)}
  <2>1. CASE type \in {0, 1}
    <3>1. login_error(c, type) = {e, Quit(e), a}
      BY <2>1 DEF login_error
    <3> HIDE DEF a
    <3> QED BY <3>1
  <2>2. CASE type = 4
    BY <2>2 DEF login_error
  <2>3. CASE type \in {5, 105}
    BY <2>3 DEF login_error
  <2>4. CASE type \notin {0, 1, 4, 5, 105}
    BY <2>4 DEF login_error
  <2> QED BY <2>1, <2>2, <2>3, <2>4
<1> HIDE DEF a, e
<1> QED BY <1>1, <1>3, <1>4, <1>5

(* A choice changes nothing of the line.                                   *)
LEMMA ChoiceLine ==
  ASSUME NEW c, NEW d \in Connections, Line(c, d), NEW e \in Choosing(d)
  PROVE  Line(c, e)
<1>1. e \in Connections /\ e.wire = d.wire /\ e.link = d.link /\ e.hungUp = d.hungUp
  BY ChoiceKeeps
<1> QED BY <1>1 DEF Line

(* The answers of received_characters.                                     *)
LEMMA ReceivedCharactersLine ==
  ASSUME NEW c \in Connections, NEW m, NEW d \in received_characters(c, m)
  PROVE  Line(c, d)
<1> DEFINE i == InState(CONNECTED_TO_LOGIN_SERVER, c)
           l == Untried(i)
<1>0. CONNECTED_TO_LOGIN_SERVER \in States /\ SPECIAL \in States
  BY DEF States
<1>1. Line(c, i) /\ i \in Connections
  BY <1>0, LineItself, LineOperators, LineIsConnection
<1>2. Line(c, l) /\ l \in Connections
  BY <1>1, LineOperators, LineIsConnection
<1>3. d = c \/ d \in {l, Quit(l), Relogged(l), InState(SPECIAL, l)} \cup Choosing(l)
  BY ScreensChoose DEF received_characters
<1> HIDE DEF i, l
<1>4. Line(c, Quit(l)) /\ Line(c, Relogged(l)) /\ Line(c, InState(SPECIAL, l))
  BY <1>0, <1>2, LineOperators, LineRelogged
<1>5. \A e \in Choosing(l) : Line(c, e)
  BY <1>2, ChoiceLine
<1> QED BY <1>2, <1>3, <1>4, <1>5, LineItself

(* The answers of errors.                                                  *)
LEMMA ErrorsLine ==
  ASSUME NEW c \in Connections, NEW type, NEW d \in errors(c, type)
  PROVE  Line(c, d)
<1> DEFINE p == Paused(c)
           u == Untried(p)
           a == InState(NOT_CONNECTED, u)
           r == Relogged(c)
<1>0. NOT_CONNECTED \in States
  BY DEF States
<1>1. Line(c, p) /\ p \in Connections
  BY LineItself, LineOperators, LineIsConnection
<1>2. Line(c, u) /\ u \in Connections
  BY <1>1, LineOperators, LineIsConnection
<1>3. Line(c, a) /\ a \in Connections
  BY <1>0, <1>2, LineOperators, LineIsConnection
<1>4. Line(c, r) /\ r \in Connections
  BY LineItself, LineRelogged, LineIsConnection
<1>5. d \in {a, Quit(a), r, Quit(r)}
  BY DEF errors
<1> HIDE DEF p, u, a, r
<1>6. Line(c, Quit(a)) /\ Line(c, Quit(r))
  BY <1>3, <1>4, LineOperators
<1> QED BY <1>3, <1>4, <1>5, <1>6

(* All that handlers of messages do.                                       *)
LEMMA HandledLine ==
  ASSUME NEW c \in Connections, NEW m, NEW d \in Handled(c, m)
  PROVE  Line(c, d)
<1>0. {CONNECTED_TO_MASTER_SERVER, CONNECTED_TO_CHAR_SERVER, IN_GAME} \subseteq States
  BY DEF States
<1>1. \A s \in {CONNECTED_TO_MASTER_SERVER, CONNECTED_TO_CHAR_SERVER, IN_GAME} :
         /\ Line(c, InState(s, Disconnected(c)))
         /\ Line(c, Untried(InState(s, Disconnected(c))))
         /\ Line(c, Untried(InState(s, c)))
  <2>1. Line(c, Disconnected(c)) /\ Disconnected(c) \in Connections /\ Line(c, c)
    BY LineItself, LineOperators, LineIsConnection
  <2>2. ASSUME NEW s \in {CONNECTED_TO_MASTER_SERVER, CONNECTED_TO_CHAR_SERVER, IN_GAME}
        PROVE  /\ Line(c, InState(s, Disconnected(c)))
               /\ Line(c, Untried(InState(s, Disconnected(c))))
               /\ Line(c, Untried(InState(s, c)))
    <3>0. s \in States
      BY <1>0, <2>2
    <3>1. Line(c, InState(s, Disconnected(c))) /\ InState(s, Disconnected(c)) \in Connections
      BY <2>1, <3>0, LineOperators, LineIsConnection
    <3>2. Line(c, InState(s, c)) /\ InState(s, c) \in Connections
      BY <2>1, <3>0, LineOperators, LineIsConnection
    <3> QED BY <3>1, <3>2, LineOperators
  <2> QED BY <2>2
<1>2. Line(c, c) /\ Line(c, Relogged(c))
  BY LineItself, LineRelogged
<1> DEFINE type == IF Len(m) >= 3 THEN m[3] ELSE 0
<1>3. \/ d \in account_server_info(c) \/ d \in login_error(c, type)
      \/ d \in login_error_game_login_server(c) \/ d \in received_characters(c, m)
      \/ d \in received_character_ID_and_Map(c) \/ d \in map_loaded(c)
      \/ d \in map_changed(c) \/ d \in switch_character(c) \/ d \in errors(c, type) \/ d = c
  BY DEF Handled
<1> HIDE DEF type
<1>4. d \in login_error(c, type) \/ d \in received_characters(c, m) \/ d \in errors(c, type) => Line(c, d)
  BY LoginErrorLine, ReceivedCharactersLine, ErrorsLine
<1>5. /\ d \in received_character_ID_and_Map(c) => Line(c, d)
      /\ d \in map_loaded(c) => Line(c, d)
      /\ d \in map_changed(c) => Line(c, d)
      /\ d \in switch_character(c) => Line(c, d)
  BY <1>0, <1>1 DEF received_character_ID_and_Map, map_loaded, map_changed, switch_character
<1>6. d \in login_error_game_login_server(c) => Line(c, d)
  BY <1>2 DEF login_error_game_login_server
<1>7. ASSUME d \in account_server_info(c) PROVE Line(c, d)
  <2> DEFINE a == Untried(InState(CONNECTED_TO_MASTER_SERVER, Disconnected(c)))
  <2>1. Line(c, a) /\ a \in Connections
    BY <1>1, LineIsConnection
  <2>2. d \in {Quit(a)} \cup Choosing(a)
    BY <1>7, ScreensChoose
  <2> HIDE DEF a
  <2> QED BY <2>1, <2>2, LineOperators, ChoiceLine
<1> QED BY <1>2, <1>3, <1>4, <1>5, <1>6, <1>7

(* Whatever else happens in the client.                                    *)
LEMMA StepLine ==
  ASSUME conn \in Connections, Answers \/ Loses \/ TimesOut \/ Waits \/ Command \/ PauseEnds
  PROVE  Line(conn, conn')
<1> DEFINE e == Disconnected(conn)
           ue == Untried(e)
           u == Untried(conn)
           p == Paused(conn)
           i == InState(NOT_CONNECTED, conn)
           ie == InState(NOT_CONNECTED, e)
<1>0. NOT_CONNECTED \in States /\ Line(conn, conn)
  BY LineItself DEF States
<1>1. /\ Line(conn, e) /\ e \in Connections /\ Line(conn, p) /\ p \in Connections
      /\ Line(conn, Quit(conn)) /\ Line(conn, i) /\ i \in Connections
      /\ Line(conn, Relogged(conn))
  BY <1>0, LineOperators, LineRelogged, LineIsConnection
<1>2. /\ Line(conn, ue) /\ ue \in Connections /\ Line(conn, Disconnected(p))
      /\ Disconnected(p) \in Connections /\ Line(conn, Untried(i)) /\ Untried(i) \in Connections
      /\ Line(conn, ie) /\ ie \in Connections
  BY <1>0, <1>1, LineOperators, LineIsConnection
<1>3. /\ Line(conn, InState(NOT_CONNECTED, ue)) /\ Line(conn, Untried(Disconnected(p)))
      /\ Line(conn, Untried(ie)) /\ Untried(ie) \in Connections
  BY <1>0, <1>2, LineOperators, LineIsConnection
<1> HIDE DEF e, ue, u, p, i, ie
<1>4. CASE AccountTimeout
  BY <1>1, <1>3, <1>4 DEF AccountTimeout, p
<1>5. CASE ServerTimeout
  BY <1>1, <1>3, <1>5 DEF ServerTimeout, ue, e
<1>6. CASE GameTimeout \/ LoseGame
  BY <1>1, <1>6 DEF GameTimeout, LoseGame
<1>7. ASSUME NEW c \in Connections, Line(conn, c), NEW b \in BOOLEAN
      PROVE  /\ Line(conn, [c EXCEPT !.rested = TRUE]) /\ Line(conn, [c EXCEPT !.no_connect = b])
             /\ Line(conn, [c EXCEPT !.pause = b])
  <2>1. ASSUME NEW d \in Connections, d.wire = c.wire, d.link = c.link, d.hungUp = c.hungUp
        PROVE  Line(conn, d)
    BY <1>7, <2>1 DEF Line
  <2>2. [c EXCEPT !.rested = TRUE] \in Connections
    BY ZenonT(40) DEF Connections
  <2>3. [c EXCEPT !.no_connect = b] \in Connections
    BY ZenonT(40) DEF Connections
  <2>4. [c EXCEPT !.pause = b] \in Connections
    BY ZenonT(40) DEF Connections
  <2>5. Line(conn, [c EXCEPT !.rested = TRUE])
    BY <2>1, <2>2 DEF Connections
  <2>6. Line(conn, [c EXCEPT !.no_connect = b])
    BY <2>1, <2>3 DEF Connections
  <2>7. Line(conn, [c EXCEPT !.pause = b])
    BY <2>1, <2>4 DEF Connections
  <2> QED BY <2>5, <2>6, <2>7
<1>8. CASE LoseSpecial
  BY <1>2, <1>7, <1>8 DEF LoseSpecial, i
<1>9. CASE Waits
  BY <1>0, <1>9 DEF Waits
<1>10. CASE PauseEnds
  BY <1>0, <1>7, <1>10 DEF PauseEnds
<1>11. CASE Command
  <2>1. CASE Relog
    BY <1>1, <2>1 DEF Relog
  <2>2. CASE Offline
    BY <1>3, <1>7, <2>2 DEF Offline, StaysAway, ie, e
  <2>3. CASE Connect
    <3>1. conn' = [[conn EXCEPT !.no_connect = FALSE] EXCEPT !.rested = TRUE]
      BY <2>3 DEF Connect, Connections
    <3>2. Line(conn, [conn EXCEPT !.no_connect = FALSE])
      BY <1>0, <1>7
    <3> QED BY <1>7, <3>1, <3>2, LineIsConnection
  <2>4. CASE Configure
    <3>1. conn' \in Choosing(conn)
      BY <2>4, SettingsChoose
    <3> QED BY <1>0, <3>1, ChoiceLine
  <2> QED BY <1>11, <2>1, <2>2, <2>3, <2>4 DEF Command
<1>12. CASE Answers
  BY <1>0, <1>12, AnswerIs DEF Line
<1> QED BY <1>4, <1>5, <1>6, <1>8, <1>9, <1>10, <1>11, <1>12 DEF Loses, TimesOut

Bytes == 0..255
Sayings == UNION {Says[server] : server \in DOMAIN Says}

(* What was sent is what servers say; only the first may be the account's  *)
(* number, and while it has not been read the mark is there.               *)
DueOK(d, mark) ==
    /\ d \in Seq(Seq(Bytes))
    /\ \A i \in 1..Len(d) : d[i] \in Sayings \/ (d[i] = AccountID /\ i = 1 /\ mark)

(* What is in the buffer and on its way is the beginning of it, and all of *)
(* it as long as the server is there.                                      *)
Heard(b, c, d) ==
    /\ IsPrefix(b \o c.wire, FlattenSeq(d))
    /\ Alive(c) /\ ~c.hungUp => b \o c.wire = FlattenSeq(d)

NoneLeft(b, d, mark) == d # << >> /\ Len(b) >= Len(Head(d)) => mark /\ Len(b) < 4

WireOK(b, mark, c, s, d, cl) ==
    /\ ~Alive(c) => c.wire = << >>
    /\ cl => /\ DueOK(d, mark)
             /\ Heard(b, c, d)
             /\ s # "process" => NoneLeft(b, d, mark)

(* The inductive invariant.                                                *)
WholeInv == ConnInv /\ WireOK(buffer, mightBe, conn, step, due, clean)

\* The message does not agree with the account's number.
Apart(m) == \E i \in 1..4 : i <= Len(m) /\ m[i] # AccountID[i]

(* What the assumptions say of a message.                                  *)
LEMMA SayingIs ==
  ASSUME NEW m \in Sayings
  PROVE  /\ m \in Seq(Bytes) /\ Len(m) \in Nat /\ Len(m) >= 2
         /\ MessageLength(m) = Len(m) /\ Apart(m)
<1>1. PICK server \in DOMAIN Says : m \in Says[server]
  BY DEF Sayings
<1>2. m \in Seq(Bytes)
  BY <1>1, ConnectionAssumption DEF Bytes
<1>3. Len(m) >= 2 /\ MessageLength(m) = Len(m) /\ Apart(m)
  BY <1>1, MessagesAssumption DEF Apart
<1> QED BY <1>2, <1>3

(* The first message that is due, and the others.                          *)
LEMMA HeadIs ==
  ASSUME NEW d, NEW mark, DueOK(d, mark), d # << >>
  PROVE  /\ Head(d) \in Seq(Bytes) /\ Len(Head(d)) \in Nat /\ Len(Head(d)) >= 2
         /\ Head(d) \in Sayings \/ (Head(d) = AccountID /\ mark)
         /\ Tail(d) \in Seq(Seq(Bytes))
         /\ FlattenSeq(Tail(d)) \in Seq(Bytes)
         /\ FlattenSeq(d) = Head(d) \o FlattenSeq(Tail(d))
         /\ \A m : DueOK(Tail(d), m)
<1>1. /\ d \in Seq(Seq(Bytes)) /\ Len(d) \in Nat /\ 1 \in 1..Len(d) /\ Head(d) = d[1]
      /\ Tail(d) \in Seq(Seq(Bytes)) /\ Len(Tail(d)) = Len(d) - 1
      /\ \A i \in 1..(Len(d) - 1) : Tail(d)[i] = d[i + 1]
  BY DEF DueOK
<1>2. Head(d) \in Sayings \/ (Head(d) = AccountID /\ mark)
  BY <1>1 DEF DueOK
<1>3. Head(d) \in Seq(Bytes) /\ Len(Head(d)) \in Nat /\ Len(Head(d)) >= 2
  BY <1>2, SayingIs, TokenizerAssumption DEF Bytes
<1>4. FlattenSeq(Tail(d)) \in Seq(Bytes)
  BY <1>1, FlattenType
<1>5. FlattenSeq(d) = Head(d) \o FlattenSeq(Tail(d))
  BY <1>1, FlattenHead DEF Then
<1>6. ASSUME NEW m PROVE DueOK(Tail(d), m)
  <2>1. ASSUME NEW i \in 1..Len(Tail(d)) PROVE Tail(d)[i] \in Sayings
    <3>1. i + 1 \in 1..Len(d) /\ i + 1 # 1 /\ Tail(d)[i] = d[i + 1]
      BY <1>1
    <3> QED BY <3>1 DEF DueOK
  <2> QED BY <1>1, <2>1 DEF DueOK
<1> QED BY <1>1, <1>2, <1>3, <1>4, <1>5, <1>6

(* b and h begin with the same bytes.                                      *)
BeginAlike(b, h) == \A i \in 1..Len(b) : i <= Len(h) => b[i] = h[i]

(* A buffer that is the beginning of what was sent agrees with its first   *)
(* message.                                                                *)
LEMMA PrefixAgrees ==
  ASSUME NEW b \in Seq(Bytes), NEW w \in Seq(Bytes), NEW h \in Seq(Bytes), NEW t \in Seq(Bytes),
         IsPrefix(b \o w, h \o t)
  PROVE  BeginAlike(b, h)
<1>1. b \o w \in Seq(Bytes) /\ h \o t \in Seq(Bytes)
  OBVIOUS
<1>2. PICK r \in Seq(Bytes) : h \o t = (b \o w) \o r
  <2> DEFINE x == b \o w
             y == h \o t
  <2>1. x \in Seq(Bytes) /\ y \in Seq(Bytes) /\ IsPrefix(x, y)
    BY <1>1
  <2> HIDE DEF x, y
  <2>2. \E r \in Seq(Bytes) : y = x \o r
    BY <2>1, PrefixIs
  <2> QED BY <2>2 DEF x, y
<1>3. ASSUME NEW i \in 1..Len(b), i <= Len(h) PROVE b[i] = h[i]
  <2>1. i \in 1..Len(h) /\ i \in 1..Len(b \o w)
    BY <1>3
  <2>2. (h \o t)[i] = h[i]
    BY <2>1
  <2>3. ((b \o w) \o r)[i] = (b \o w)[i]
    BY <1>1, <2>1
  <2>4. (b \o w)[i] = b[i]
    BY <1>3
  <2> QED BY <1>2, <2>2, <2>3, <2>4
<1> QED BY <1>3 DEF BeginAlike

(* With the first message h gone, k is what is left of what was read, w    *)
(* what is on its way, t what was sent.                                    *)
Shortened(b, w, h, t, k) ==
    /\ k \in Seq(Bytes)
    /\ IsPrefix(k \o w, t)
    /\ b \o w = h \o t => k \o w = t

(* The bytes of the first message are gone, from both sides.               *)
LEMMA CutAway ==
  ASSUME NEW b \in Seq(Bytes), NEW w \in Seq(Bytes), NEW h \in Seq(Bytes), NEW t \in Seq(Bytes),
         IsPrefix(b \o w, h \o t), Len(h) <= Len(b),
         NEW first, first = Len(h) + 1, NEW k, k = SubSeq(b, first, Len(b))
  PROVE  Shortened(b, w, h, t, k)
<1>1. Len(h) \in Nat /\ Len(b) \in Nat /\ BeginAlike(b, h)
  BY PrefixAgrees
<1>2. k \in Seq(Bytes) /\ Len(k) = Len(b) - Len(h) /\ \A i \in 1..(Len(b) - Len(h)) : k[i] = b[Len(h) + i]
  BY <1>1
<1>3. b = h \o k
  <2>1. h \o k \in Seq(Bytes) /\ Len(h \o k) = Len(b)
    BY <1>1, <1>2
  <2>2. ASSUME NEW i \in 1..Len(b) PROVE b[i] = (h \o k)[i]
    <3>1. CASE i <= Len(h)
      <4>1. b[i] = h[i]
        BY <1>1, <3>1 DEF BeginAlike
      <4> QED BY <1>1, <1>2, <3>1, <4>1
    <3>2. CASE ~(i <= Len(h))
      <4>1. i - Len(h) \in 1..(Len(b) - Len(h)) /\ Len(h) + (i - Len(h)) = i
        BY <1>1, <3>2
      <4>2. k[i - Len(h)] = b[i]
        BY <1>2, <4>1
      <4>3. (h \o k)[i] = k[i - Len(h)]
        BY <1>1, <1>2, <3>2
      <4> QED BY <4>2, <4>3
    <3> QED BY <3>1, <3>2
  <2> DEFINE x == h \o k
  <2>3. x \in Seq(Bytes) /\ Len(x) = Len(b) /\ \A i \in 1..Len(b) : b[i] = x[i]
    BY <2>1, <2>2
  <2> HIDE DEF x
  <2>4. b = x
    BY <2>3, SeqEqual
  <2> QED BY <2>4 DEF x
<1>4. k \o w \in Seq(Bytes) /\ b \o w = h \o (k \o w)
  <2>1. (h \o k) \o w = h \o (k \o w)
    <3>0. k \in Seq(Bytes) /\ w \in Seq(Bytes) /\ h \in Seq(Bytes)
      BY <1>2
    <3>1. Then(Then(h, k), w) = Then(h, Then(k, w))
      BY ONLY <3>0, ThenAssociative
    <3> QED BY <3>1, Zenon DEF Then
  <2>2. b \o w = h \o (k \o w)
    BY <1>3, <2>1, Zenon
  <2> QED BY <1>2, <2>2
<1>5. PICK r \in Seq(Bytes) : h \o t = (b \o w) \o r
  <2> DEFINE x == b \o w
             y == h \o t
  <2>1. x \in Seq(Bytes) /\ y \in Seq(Bytes) /\ IsPrefix(x, y)
    OBVIOUS
  <2> HIDE DEF x, y
  <2>2. \E r \in Seq(Bytes) : y = x \o r
    BY <2>1, PrefixIs
  <2> QED BY <2>2 DEF x, y
<1>6. (h \o (k \o w)) \o r = h \o ((k \o w) \o r) /\ (k \o w) \o r \in Seq(Bytes)
  <2> DEFINE x == k \o w
  <2>1. x \in Seq(Bytes)
    BY <1>4
  <2> HIDE DEF x
  <2>2. (h \o x) \o r = h \o (x \o r)
    <3>1. Then(Then(h, x), r) = Then(h, Then(x, r))
      BY <2>1, ThenAssociative
    <3> QED BY <3>1, Zenon DEF Then
  <2>3. x \o r \in Seq(Bytes)
    BY <2>1
  <2> QED BY <2>2, <2>3 DEF x
<1>7. h \o t = h \o ((k \o w) \o r)
  BY <1>4, <1>5, <1>6
<1>8. t = (k \o w) \o r
  <2> DEFINE x == (k \o w) \o r
  <2>1. x \in Seq(Bytes) /\ h \o t = h \o x
    BY <1>6, <1>7
  <2> HIDE DEF x
  <2>2. t = x
    BY ONLY h \in Seq(Bytes), t \in Seq(Bytes), <2>1, ConcatSimplifications
  <2> QED BY <2>2 DEF x
<1>9. b \o w = h \o t => k \o w = t
  <2> DEFINE x == k \o w
  <2>1. x \in Seq(Bytes) /\ b \o w = h \o x
    BY <1>4
  <2> HIDE DEF x
  <2>2. b \o w = h \o t => t = x
    BY ONLY h \in Seq(Bytes), t \in Seq(Bytes), <2>1, ConcatSimplifications
  <2> QED BY <2>2 DEF x
<1>10. IsPrefix(k \o w, t)
  <2> DEFINE x == k \o w
  <2>1. x \in Seq(Bytes) /\ t = x \o r
    BY <1>4, <1>8
  <2> HIDE DEF x
  <2>2. IsPrefix(x, t)
    BY ONLY <2>1, t \in Seq(Bytes), r \in Seq(Bytes), PrefixIs
  <2> QED BY <2>2 DEF x
<1> QED BY <1>2, <1>9, <1>10 DEF Shortened

(* The beginning of a known message tells its length as soon as all of it  *)
(* may be there.                                                           *)
LEMMA LengthTold ==
  ASSUME NEW b \in Seq(Bytes), NEW m \in Sayings, BeginAlike(b, m), Len(b) >= 2
  PROVE  /\ Switch(b) = Switch(m) /\ (Known(b) <=> Known(m))
         /\ Known(m) => /\ MessageLength(b) <= Len(b) => MessageLength(b) = Len(m)
                        /\ ~(MessageLength(b) <= Len(b)) => Len(m) > Len(b)
<1>1. /\ m \in Seq(Bytes) /\ Len(m) \in Nat /\ Len(m) >= 2 /\ MessageLength(m) = Len(m) /\ Len(b) \in Nat
  BY SayingIs
<1>2. b[1] = m[1] /\ b[2] = m[2]
  BY <1>1 DEF BeginAlike
<1>3. Switch(b) = Switch(m)
  BY <1>2 DEF Switch
<1>4. Known(b) <=> Known(m)
  BY <1>3 DEF Known
<1>5. CASE Known(m) /\ Rpackets[Switch(m)] > 1
  <2>1. MessageLength(m) = Rpackets[Switch(m)]
    BY <1>5 DEF MessageLength
  <2>2. MessageLength(b) = Rpackets[Switch(b)]
    BY <1>3, <1>4, <1>5 DEF MessageLength
  <2> QED BY <1>1, <1>3, <1>4, <2>1, <2>2
<1>6. CASE Known(m) /\ ~(Rpackets[Switch(m)] > 1)
  <2>1. MessageLength(m) = IF Len(m) >= 4 THEN Stated(m) ELSE Len(m) + 1
    BY <1>6 DEF MessageLength
  <2>2. MessageLength(b) = IF Len(b) >= 4 THEN Stated(b) ELSE Len(b) + 1
    BY <1>3, <1>4, <1>6 DEF MessageLength
  <2>3. Len(m) >= 4 /\ Stated(m) = Len(m)
    BY <1>1, <2>1
  <2>4. Len(b) >= 4 => Stated(b) = Stated(m)
    <3>1. Len(b) >= 4 => b[3] = m[3] /\ b[4] = m[4]
      BY <1>1, <2>3 DEF BeginAlike
    <3> QED BY <3>1 DEF Stated
  <2> QED BY <1>1, <1>3, <1>4, <2>2, <2>3, <2>4
<1>7. CASE ~Known(m)
  BY <1>3, <1>4, <1>7
<1> QED BY <1>5, <1>6, <1>7

(* What is read and not handed over, and what is cut off.                  *)
LEMMA UndefIs ==
  ASSUME NEW mark
  PROVE  Undef(mark).message = << >> /\ Undef(mark).buffer = buffer /\ Undef(mark).mark = mark
BY DEF Undef

(* What Cut takes and leaves.                                              *)
LEMMA CutIs ==
  ASSUME buffer \in Seq(Bytes), NEW type, NEW n \in Nat, n >= 1, n <= Len(buffer)
  PROVE  Cut(type, n).message # << >> /\ Cut(type, n).buffer = SubSeq(buffer, n + 1, Len(buffer))
<1>1. Len(SubSeq(buffer, 1, n)) = n
  OBVIOUS
<1>2. SubSeq(buffer, 1, n) # << >>
  BY <1>1
<1> QED BY <1>2 DEF Cut

(* readNext takes away the message the buffer begins with, or leaves all   *)
(* as it is because the message is not there, or might be an account ID.   *)
TakesNone(h) ==
    /\ ReadNext.message = << >> /\ ReadNext.buffer = buffer
    /\ Len(buffer) >= Len(h) => ReadNext.mark /\ Len(buffer) < 4
    /\ h \in Sayings \/ ReadNext.mark
TakesFirst(h) ==
    /\ ReadNext.message # << >>
    /\ Known(h) \/ h = AccountID =>
          Len(h) <= Len(buffer) /\ ReadNext.buffer = SubSeq(buffer, Len(h) + 1, Len(buffer))

(* readNext takes the first message that is due or nothing, if what is in  *)
(* the buffer agrees with it.                                              *)
LEMMA ReadIs ==
  ASSUME buffer \in Seq(Bytes), mightBe \in BOOLEAN, NEW h,
         h \in Sayings \/ (h = AccountID /\ mightBe), BeginAlike(buffer, h)
  PROVE  TakesNone(h) \/ TakesFirst(h)
<1>0. /\ Len(buffer) \in Nat /\ Len(h) \in Nat /\ Len(h) >= 2
      /\ AccountID \in Seq(Bytes) /\ Len(AccountID) = 4
  <2>1. AccountID \in Seq(Bytes) /\ Len(AccountID) = 4
    BY TokenizerAssumption DEF Bytes
  <2>2. h \in Sayings => Len(h) \in Nat /\ Len(h) >= 2
    BY SayingIs
  <2>3. Len(buffer) \in Nat
    OBVIOUS
  <2>4. Len(h) \in Nat /\ Len(h) >= 2
    <3>1. CASE h \in Sayings
      BY <2>2, <3>1
    <3>2. CASE h = AccountID
      <4>1. Len(h) = 4
        BY <2>1, <3>2, Zenon
      <4> QED BY ONLY <4>1
    <3> QED BY <3>1, <3>2
  <2> QED BY ONLY <2>1, <2>3, <2>4
<1>1. CASE Len(buffer) < 2
  <2>1. ~(Len(buffer) \in 2..3) /\ ~(Len(buffer) >= 4)
    BY <1>0, <1>1, LengthCases
  <2>2. ReadNext = Undef(mightBe)
    BY <1>1, <2>1, Zenon DEF ReadNext
  <2>3. ~(Len(buffer) >= Len(h))
    BY <1>0, <1>1
  <2> QED BY <2>2, <2>3, UndefIs DEF TakesNone
<1>2. CASE ~(Len(buffer) < 2) /\ Len(buffer) \in 2..3 /\ mightBe
  <2>1. ~(Len(buffer) >= 4)
    BY <1>0, <1>2, LengthCases
  <2>4. Len(buffer) < 4
    BY <1>0, <2>1
  <2>2. ReadNext = Undef(TRUE)
    BY <1>2, <2>1, Zenon DEF ReadNext
  <2> QED BY <2>2, <2>4, UndefIs DEF TakesNone
<1>3. CASE /\ ~(Len(buffer) < 2) /\ ~(Len(buffer) \in 2..3 /\ mightBe)
           /\ Len(buffer) >= 4 /\ mightBe /\ SubSeq(buffer, 1, 4) = AccountID
  <2>1. ReadNext = Cut("account ID", 4)
    BY <1>3, Zenon DEF ReadNext
  <2>2. h \notin Sayings
    <3> SUFFICES ASSUME h \in Sayings PROVE FALSE
      OBVIOUS
    <3>1. PICK i \in 1..4 : i <= Len(h) /\ h[i] # AccountID[i]
      BY SayingIs DEF Apart
    <3>2. SubSeq(buffer, 1, 4)[i] = buffer[i]
      BY <1>0, <1>3
    <3>3. i \in 1..Len(buffer)
      BY <1>0, <1>3
    <3>4. buffer[i] = h[i]
      BY <3>1, <3>3 DEF BeginAlike
    <3> QED BY <1>3, <3>1, <3>2, <3>4
  <2>3. h = AccountID /\ Len(h) = 4
    BY <1>0, <2>2
  <2>4. ReadNext.message # << >> /\ ReadNext.buffer = SubSeq(buffer, 4 + 1, Len(buffer))
    <3>1. 4 \in Nat /\ 4 >= 1 /\ 4 <= Len(buffer)
      BY <1>0, <1>3
    <3>2. /\ Cut("account ID", 4).message # << >>
          /\ Cut("account ID", 4).buffer = SubSeq(buffer, 4 + 1, Len(buffer))
      BY <3>1, CutIs
    <3> QED BY <2>1, <3>2
  <2> QED BY <1>3, <2>3, <2>4 DEF TakesFirst
<1>4. CASE /\ ~(Len(buffer) < 2) /\ ~(Len(buffer) \in 2..3 /\ mightBe)
           /\ ~(Len(buffer) >= 4 /\ mightBe /\ SubSeq(buffer, 1, 4) = AccountID)
  <2>1. ReadNext = ReadUnmarked
    BY <1>4, Zenon DEF ReadNext
  <2>2. Len(buffer) >= 2
    BY <1>0, <1>4
  <2>3. h \in Sayings
    <3> SUFFICES ASSUME h = AccountID, mightBe PROVE FALSE
      OBVIOUS
    <3>1. Len(buffer) >= 4
      <4>1. ~(Len(buffer) < 2) /\ ~(Len(buffer) \in 2..3)
        BY <1>4
      <4>2. \A n \in Nat : ~(n < 2) /\ ~(n \in 2..3) => n >= 4
        OBVIOUS
      <4> QED BY <1>0, <4>1, <4>2
    <3> DEFINE s == SubSeq(buffer, 1, 4)
    <3>2. s \in Seq(Bytes) /\ Len(s) = 4 /\ \A i \in 1..4 : s[i] = buffer[i]
      BY <1>0, <3>1
    <3>3. \A i \in 1..4 : buffer[i] = AccountID[i]
      BY <1>0, <3>1 DEF BeginAlike
    <3> HIDE DEF s
    <3>4. s = AccountID
      BY <1>0, <3>2, <3>3, SeqEqual
    <3> QED BY <1>4, <3>1, <3>4 DEF s
  <2>4. /\ Known(buffer) <=> Known(h)
        /\ Known(h) => /\ MessageLength(buffer) <= Len(buffer) => MessageLength(buffer) = Len(h)
                       /\ ~(MessageLength(buffer) <= Len(buffer)) => Len(h) > Len(buffer)
    BY <2>2, <2>3, LengthTold
  <2>5. h # AccountID
    <3>1. Apart(h)
      BY <2>3, SayingIs
    <3> QED BY <3>1 DEF Apart
  <2>6. ~Known(h) => MessageLength(buffer) = Len(buffer)
    BY <2>4 DEF MessageLength
  <2>7. CASE Known(h) /\ ~(MessageLength(buffer) <= Len(buffer))
    <3>1. ~(Len(buffer) >= MessageLength(buffer))
      <4>1. MessageLength(buffer) \in Int
        <5>1. CASE Rpackets[Switch(buffer)] > 1
          <6>1. MessageLength(buffer) = Rpackets[Switch(buffer)] /\ Rpackets[Switch(buffer)] \in Int
            BY <2>4, <2>7, <5>1, TokenizerAssumption DEF MessageLength, Known
          <6> QED BY <6>1
        <5>2. CASE ~(Rpackets[Switch(buffer)] > 1)
          <6>1. MessageLength(buffer) = IF Len(buffer) >= 4 THEN Stated(buffer) ELSE Len(buffer) + 1
            BY <2>4, <2>7, <5>2 DEF MessageLength
          <6>2. Len(buffer) >= 4 => buffer[3] \in Bytes /\ buffer[4] \in Bytes
            OBVIOUS
          <6>3. Len(buffer) >= 4 => Stated(buffer) \in Int
            <7>1. \A v \in 0..255 : v \in Int
              OBVIOUS
            <7>2. Len(buffer) >= 4 => buffer[3] \in Int /\ buffer[4] \in Int
              BY <6>2, <7>1, Zenon DEF Bytes
            <7> QED BY <7>2 DEF Stated
          <6> QED BY <1>0, <6>1, <6>3
        <5> QED BY <5>1, <5>2
      <4> QED BY <1>0, <2>7, <4>1
    <3>2. ReadUnmarked = Undef(FALSE)
      BY <3>1 DEF ReadUnmarked
    <3>3. ~(Len(buffer) >= Len(h))
      BY <1>0, <2>4, <2>7
    <3> QED BY <2>1, <2>3, <3>2, <3>3, UndefIs DEF TakesNone
  <2>8. CASE Known(h) /\ MessageLength(buffer) <= Len(buffer)
    <3>1. MessageLength(buffer) = Len(h) /\ Len(buffer) >= MessageLength(buffer)
      BY <1>0, <2>4, <2>8
    <3>2. ReadUnmarked = Cut("known", Len(h))
      BY <2>4, <2>8, <3>1 DEF ReadUnmarked
    <3> QED BY <1>0, <2>1, <3>1, <3>2, CutIs DEF TakesFirst
  <2>9. CASE ~Known(h)
    <3>1. MessageLength(buffer) = Len(buffer) /\ Len(buffer) >= MessageLength(buffer)
      BY <1>0, <2>6, <2>9
    <3>2. ReadUnmarked = Cut("unknown", Len(buffer))
      BY <2>4, <2>9, <3>1 DEF ReadUnmarked
    <3>3. Cut("unknown", Len(buffer)).message # << >>
      BY <1>0, <2>2, CutIs
    <3> QED BY <2>1, <2>5, <2>9, <3>2, <3>3 DEF TakesFirst
  <2> QED BY <2>7, <2>8, <2>9
<1> QED BY <1>1, <1>2, <1>3, <1>4

-----------------------------------------------------------------------------
(* Less on its way is still a beginning.                                   *)
LEMMA CutPrefix ==
  ASSUME NEW b \in Seq(Bytes), NEW v \in Seq(Bytes), NEW u \in Seq(Bytes), NEW t \in Seq(Bytes),
         NEW w, w = v \o u, IsPrefix(b \o w, t)
  PROVE  IsPrefix(b \o v, t)
<1>1. w \in Seq(Bytes) /\ w = Then(v, u)
  BY DEF Then
<1> DEFINE x == b \o w
           y == b \o v
<1>2. x \in Seq(Bytes) /\ y \in Seq(Bytes) /\ x = Then(b, w) /\ y = Then(b, v) /\ IsPrefix(x, t)
  BY <1>1 DEF Then
<1> HIDE DEF x, y
<1>3. PICK r \in Seq(Bytes) : t = x \o r
  <2>1. x \in Seq(Bytes) /\ IsPrefix(x, t)
    BY <1>2
  <2>2. \E r \in Seq(Bytes) : t = x \o r
    BY ONLY <2>1, t \in Seq(Bytes), PrefixIs
  <2> QED BY <2>2
<1>4. x = Then(y, u)
  BY <1>1, <1>2, ThenAssociative
<1>5. Then(x, r) = Then(y, Then(u, r)) /\ Then(u, r) \in Seq(Bytes)
  BY <1>2, <1>4, ThenAssociative, ThenIs
<1>6. t = y \o Then(u, r)
  BY <1>3, <1>5 DEF Then
<1>7. IsPrefix(y, t)
  BY <1>2, <1>5, <1>6, PrefixIs
<1> QED BY <1>7 DEF y

(* What changes the line, or cuts it, leaves a beginning.                  *)
LEMMA HeardLine ==
  ASSUME NEW b \in Seq(Bytes), NEW c \in Connections, NEW d, FlattenSeq(d) \in Seq(Bytes),
         Heard(b, c, d), NEW e, Line(c, e)
  PROVE  Heard(b, e, d)
<1>1. CASE e.wire = c.wire /\ e.link = c.link /\ e.hungUp = c.hungUp
  BY <1>1 DEF Heard, Alive
<1>2. CASE e.wire = << >> /\ e.link = "none"
  <2>1. c.wire \in Seq(Bytes) /\ << >> \in Seq(Bytes) /\ c.wire = << >> \o c.wire
    BY DEF Connections, Bytes
  <2>2. IsPrefix(b \o << >>, FlattenSeq(d))
    <3> DEFINE t == FlattenSeq(d)
               w == c.wire
    <3>1. t \in Seq(Bytes) /\ w \in Seq(Bytes) /\ << >> \in Seq(Bytes) /\ w = << >> \o w /\ IsPrefix(b \o w, t)
      BY <2>1 DEF Heard
    <3> HIDE DEF t, w
    <3>2. IsPrefix(b \o << >>, t)
      BY <3>1, CutPrefix
    <3> QED BY <3>2 DEF t
  <2> QED BY <1>2, <2>2 DEF Heard, Alive
<1> QED BY <1>1, <1>2 DEF Line

(* Nothing has been said.                                                  *)
LEMMA NothingHeard ==
  ASSUME NEW mark, NEW c, c.wire = << >>
  PROVE  DueOK(<< >>, mark) /\ Heard(<< >>, c, << >>) /\ \A b : NoneLeft(b, << >>, mark)
<1>1. << >> \in Seq(Bytes) /\ << >> \in Seq(Seq(Bytes)) /\ Len(<< >>) = 0 /\ << >> \o << >> = << >>
  OBVIOUS
<1>2. FlattenSeq(<< >>) = << >>
  BY <1>1, FlattenType
<1>3. IsPrefix(<< >>, << >>)
  BY DEF IsPrefix
<1>4. DueOK(<< >>, mark)
  BY <1>1 DEF DueOK
<1> QED BY <1>1, <1>2, <1>3, <1>4 DEF Heard, NoneLeft

WholeNext == WireOK(buffer', mightBe', conn', step', due', clean')

(* The parts of the invariant.                                             *)
LEMMA WholeIs ==
  ASSUME WholeInv
  PROVE  /\ conn \in Connections /\ conn.wire \in Seq(Bytes)
         /\ buffer \in Seq(Bytes) /\ mightBe \in BOOLEAN /\ clean \in BOOLEAN
         /\ ~Alive(conn) => conn.wire = << >>
         /\ clean => /\ DueOK(due, mightBe) /\ Heard(buffer, conn, due)
                     /\ due \in Seq(Seq(Bytes)) /\ FlattenSeq(due) \in Seq(Bytes)
                     /\ step # "process" => NoneLeft(buffer, due, mightBe)
<1>1. /\ conn \in Connections /\ conn.wire \in Seq(Bytes) /\ buffer \in Seq(Bytes)
      /\ mightBe \in BOOLEAN /\ clean \in BOOLEAN
  BY DEF WholeInv, ConnInv, ConnTypeOK, Connections, Bytes
<1>2. clean => due \in Seq(Seq(Bytes)) /\ FlattenSeq(due) \in Seq(Bytes)
  BY FlattenType DEF WholeInv, WireOK, DueOK
<1> QED BY <1>1, <1>2 DEF WholeInv, WireOK

(* A new connection: nothing was said, or the account's number.            *)
LEMMA CallIsWhole ==
  ASSUME WholeInv, Calls
  PROVE  WholeNext
<1>0. conn \in Connections /\ conn.wire = << >>
  BY WholeIs DEF Calls, CallAccountServer, CallServer, MustCall
<1>1. CASE CallAccountServer
  <2>1. conn'.wire = << >>
    BY <1>0, <1>1, AccountServerAnswers DEF CallAccountServer
  <2>2. buffer' = << >> /\ due' = << >>
    BY <1>1 DEF CallAccountServer
  <2> QED BY <2>1, <2>2, NothingHeard DEF WholeNext, WireOK
<1>2. CASE CallServer
  <2> DEFINE server == IF conn.state = CONNECTED_TO_CHAR_SERVER THEN "map" ELSE "char"
             c == IF server = "map" THEN Paused(conn) ELSE conn
  <2>1. c \in Connections /\ c.wire = << >>
    <3>1. Paused(conn) \in Connections
      BY <1>0, OperatorTypes
    <3>2. Paused(conn).wire = conn.wire
      BY <1>0 DEF Paused, Connections
    <3> QED BY <1>0, <3>1, <3>2
  <2>2. mightBe' = TRUE /\ clean' = (buffer = << >>) /\ buffer' = buffer
    BY <1>2 DEF CallServer
  <2>3. server # "none"
    OBVIOUS
  <2>4. \/ conn' = [c EXCEPT !.tries = TRUE] /\ due' = << >>
        \/ \E hello \in {<< >>, AccountID} :
             /\ conn' = [c EXCEPT !.tries = TRUE, !.link = server, !.wire = hello,
                           !.reconnectCount = IF conn.state = CONNECTED_TO_MASTER_SERVER THEN 0 ELSE @]
             /\ due' = IF hello = << >> THEN << >> ELSE <<hello>>
    BY <1>2 DEF CallServer
  <2> HIDE DEF c, server
  <2>5. CASE conn'.wire = << >> /\ due' = << >>
    <3>1. clean' => buffer' = << >>
      BY <2>2
    <3> QED BY <2>5, <3>1, NothingHeard DEF WholeNext, WireOK
  <2>6. CASE conn' = [c EXCEPT !.tries = TRUE] /\ due' = << >>
    <3>1. conn'.wire = << >>
      BY <2>1, <2>6 DEF Connections
    <3> QED BY <2>5, <2>6, <3>1
  <2>7. ASSUME NEW hello \in {<< >>, AccountID},
               conn' = [c EXCEPT !.tries = TRUE, !.link = server, !.wire = hello,
                          !.reconnectCount = IF conn.state = CONNECTED_TO_MASTER_SERVER THEN 0 ELSE @],
               due' = IF hello = << >> THEN << >> ELSE <<hello>>
        PROVE  WholeNext
    <3>1. conn'.wire = hello /\ conn'.link = server
      BY <2>1, <2>7 DEF Connections
    <3>2. CASE hello = << >>
      BY <2>5, <2>7, <3>1, <3>2
    <3>3. CASE hello # << >>
      <4>1. AccountID \in Seq(Bytes) /\ Len(AccountID) = 4 /\ hello = AccountID
        BY <2>7, <3>3, TokenizerAssumption DEF Bytes
      <4>2. due' = <<hello>>
        BY <2>7, <3>3
      <4> DEFINE d == <<hello>>
      <4>3. /\ d \in Seq(Seq(Bytes)) /\ d # << >> /\ Len(d) = 1 /\ d[1] = hello
            /\ Head(d) = hello /\ Tail(d) = << >> /\ << >> \in Seq(Seq(Bytes))
        BY <4>1
      <4> HIDE DEF d
      <4>4. DueOK(d, TRUE)
        BY <4>1, <4>3 DEF DueOK
      <4>5. FlattenSeq(d) = hello
        <5>1. FlattenSeq(d) = Then(hello, FlattenSeq(<< >>))
          BY <4>3, FlattenHead
        <5>2. FlattenSeq(<< >>) = << >>
          BY <4>3, FlattenType
        <5>3. Then(hello, << >>) = hello
          BY <4>1, ThenIs
        <5> QED BY <5>1, <5>2, <5>3
      <4>6. << >> \o hello = hello /\ hello \o << >> = hello /\ hello \in Seq(Bytes)
        BY <4>1
      <4>7. Heard(<< >>, conn', d)
        <5>1. IsPrefix(hello, hello)
          BY <4>6, PrefixIs, << >> \in Seq(Bytes)
        <5> QED BY <3>1, <4>5, <4>6, <5>1 DEF Heard
      <4>8. NoneLeft(<< >>, d, TRUE)
        <5>1. Len(<< >>) = 0 /\ Len(Head(d)) = 4
          BY <4>1, <4>3
        <5> QED BY <5>1 DEF NoneLeft
      <4>9. Alive(conn')
        BY <2>3, <3>1 DEF Alive
      <4>10. due' = d
        BY <4>2 DEF d
      <4>11. clean' => buffer' = << >>
        BY <2>2
      <4> QED BY <2>2, <4>4, <4>7, <4>8, <4>9, <4>10, <4>11 DEF WholeNext, WireOK
    <3> QED BY <3>2, <3>3
  <2> QED BY <2>4, <2>6, <2>7
<1> QED BY <1>1, <1>2 DEF Calls

(* The line is left or cut.                                                *)
LEMMA LineIsWhole ==
  ASSUME WholeInv, Line(conn, conn'), UNCHANGED tokenVars,
         step' # "process" => step # "process"
  PROVE  WholeNext
<1>1. buffer' = buffer /\ mightBe' = mightBe /\ due' = due /\ clean' = clean
  BY DEF tokenVars
<1>2. ~Alive(conn') => conn'.wire = << >>
  BY WholeIs DEF Line, Alive
<1>3. clean => Heard(buffer, conn', due)
  BY WholeIs, HeardLine
<1> QED BY <1>1, <1>2, <1>3, WholeIs DEF WholeNext, WireOK

(* Bytes go from the wire into the buffer.                                 *)
LEMMA ReceiveIsWhole ==
  ASSUME WholeInv, Receive
  PROVE  WholeNext
<1>0. step = "receive" /\ mightBe' = mightBe /\ due' = due /\ clean' = clean
  BY DEF Receive
<1>1. CASE \E n \in 1..Len(conn.wire) :
             /\ conn' = [conn EXCEPT !.wire = SubSeq(@, n + 1, Len(@))]
             /\ buffer' = buffer \o SubSeq(conn.wire, 1, n)
             /\ step' = "process"
  <2>1. PICK n \in 1..Len(conn.wire) :
             /\ conn' = [conn EXCEPT !.wire = SubSeq(@, n + 1, Len(@))]
             /\ buffer' = buffer \o SubSeq(conn.wire, 1, n)
             /\ step' = "process"
    BY <1>1
  <2> DEFINE w == conn.wire
             v == SubSeq(w, 1, n)
             u == SubSeq(w, n + 1, Len(w))
  <2>2. w \in Seq(Bytes) /\ buffer \in Seq(Bytes) /\ Len(w) \in Nat /\ n \in Nat /\ w # << >>
    BY WholeIs
  <2>3. conn'.wire = u /\ conn'.link = conn.link /\ conn'.hungUp = conn.hungUp
    BY <2>1, WholeIs DEF Connections
  <2>4. buffer' = buffer \o v /\ step' = "process"
    BY <2>1
  <2> HIDE DEF w
  <2>5. v \o u = w
    <3>1. 1 \in 1..(Len(w) + 1) /\ n \in (1 - 1)..Len(w) /\ Len(w) \in n..Len(w)
      BY <2>2 DEF w
    <3>2. v \o u = SubSeq(w, 1, Len(w))
      BY <2>2, <3>1, ConcatAdjacentSubSeq
    <3> QED BY <2>2, <3>2, SubSeqFull
  <2>6. v \in Seq(Bytes) /\ u \in Seq(Bytes)
    <3>1. 1 \in Nat \ {0} /\ n + 1 \in Nat \ {0} /\ n \in 0..Len(w) /\ Len(w) \in 0..Len(w)
      BY <2>2 DEF w
    <3> QED BY <2>2, <3>1, PieceType
  <2> HIDE DEF v, u
  <2>7. buffer' \o conn'.wire = buffer \o conn.wire
    <3>1. Then(Then(buffer, v), u) = Then(buffer, Then(v, u))
      BY ONLY <2>2, <2>6, ThenAssociative
    <3>2. (buffer \o v) \o u = buffer \o (v \o u)
      BY <3>1, Zenon DEF Then
    <3> QED BY <2>3, <2>4, <2>5, <3>2 DEF w
  <2>8. Alive(conn)
    BY <2>2, WholeIs DEF w
  <2>9. Alive(conn')
    BY <2>3, <2>8 DEF Alive
  <2>10. clean => Heard(buffer', conn', due)
    BY <2>3, <2>7, WholeIs DEF Heard, Alive
  <2> QED BY <1>0, <2>4, <2>9, <2>10, WholeIs DEF WholeNext, WireOK
<1>2. CASE conn' = Disconnected(conn) /\ buffer' = buffer
  <2>1. Line(conn, conn')
    BY <1>2, WholeIs, LineItself, LineOperators
  <2> QED BY <1>0, <1>2, <2>1, LineIsWhole DEF tokenVars
<1>3. CASE conn' = conn /\ buffer' = buffer
  <2>1. Line(conn, conn')
    BY <1>3, WholeIs, LineItself
  <2> QED BY <1>0, <1>3, <2>1, LineIsWhole DEF tokenVars
<1> QED BY <1>1, <1>2, <1>3 DEF Receive

(* A server says something.                                                *)
LEMMA SpeaksIsWhole ==
  ASSUME WholeInv, Speaks
  PROVE  WholeNext
<1>1. PICK m \in Says[conn.link] :
        /\ conn' = [conn EXCEPT !.wire = @ \o m]
        /\ due' = IF clean THEN Append(due, m) ELSE due
  BY DEF Speaks
<1>2. Alive(conn) /\ ~conn.hungUp /\ step' = step /\ buffer' = buffer /\ mightBe' = mightBe /\ clean' = clean
  BY DEF Speaks
<1>3. m \in Sayings
  BY <1>1, <1>2, WholeIs DEF Sayings, Alive, Connections
<1>4. m \in Seq(Bytes) /\ Len(m) \in Nat /\ Len(m) >= 2
  BY <1>3, SayingIs
<1>5. conn'.wire = conn.wire \o m /\ conn'.link = conn.link
  BY <1>1, WholeIs DEF Connections
<1>6. Alive(conn')
  BY <1>2, <1>5 DEF Alive
<1>7. ASSUME clean
      PROVE  DueOK(due', mightBe) /\ Heard(buffer, conn', due') /\ (step # "process" => NoneLeft(buffer, due', mightBe))
  <2> DEFINE d == Append(due, m)
             F == FlattenSeq(due)
             w == conn.wire
  <2>1. due' = d
    BY <1>1, <1>7
  <2>2. DueOK(due, mightBe) /\ Heard(buffer, conn, due) /\ due \in Seq(Seq(Bytes)) /\ F \in Seq(Bytes)
        /\ (step # "process" => NoneLeft(buffer, due, mightBe)) /\ w \in Seq(Bytes) /\ buffer \in Seq(Bytes)
    BY <1>7, WholeIs
  <2>3. /\ d \in Seq(Seq(Bytes)) /\ Len(d) = Len(due) + 1 /\ Len(due) \in Nat
        /\ d[Len(due) + 1] = m /\ \A i \in 1..Len(due) : d[i] = due[i]
    BY <1>4, <2>2
  <2>4. DueOK(d, mightBe)
    <3>1. ASSUME NEW i \in 1..Len(d)
          PROVE  d[i] \in Sayings \/ (d[i] = AccountID /\ i = 1 /\ mightBe)
      <4>1. CASE i = Len(due) + 1
        BY <1>3, <2>3, <4>1
      <4>2. CASE i # Len(due) + 1
        <5>1. i \in 1..Len(due)
          BY <2>3, <4>2
        <5> HIDE DEF d
        <5> QED BY <2>2, <2>3, <5>1 DEF DueOK
      <4> QED BY <4>1, <4>2
    <3> HIDE DEF d
    <3> QED BY <2>3, <3>1 DEF DueOK
  <2>5. FlattenSeq(d) = Then(F, m)
    BY <1>4, <2>2, FlattenAppend
  <2>6. buffer \o w = F
    BY <1>2, <2>2 DEF Heard
  <2> HIDE DEF d, F, w
  <2>7. buffer \o (w \o m) = Then(F, m)
    <3>1. Then(Then(buffer, w), m) = Then(buffer, Then(w, m))
      BY ONLY <1>4, <2>2, ThenAssociative
    <3>2. F = Then(buffer, w)
      BY <2>6 DEF Then
    <3> QED BY <3>1, <3>2, Zenon DEF Then
  <2>8. Heard(buffer, conn', d)
    <3> DEFINE x == FlattenSeq(d)
    <3>1. buffer \o conn'.wire = x
      BY <1>5, <2>5, <2>7 DEF w
    <3>2. x \in Seq(Bytes) /\ << >> \in Seq(Bytes) /\ x = x \o << >>
      BY <2>3, FlattenType, ConcatEmptySeq
    <3> HIDE DEF x
    <3>3. IsPrefix(x, x)
      BY <3>2, PrefixIs
    <3> QED BY <3>1, <3>3 DEF Heard, x
  <2>9. step # "process" => NoneLeft(buffer, d, mightBe)
    <3>1. CASE due # << >>
      <4>1. Head(d) = Head(due)
        <5>1. 1 \in 1..Len(due)
          BY <2>2, <3>1
        <5>2. Head(due) = due[1]
          BY <2>2, <3>1
        <5>3. d # << >> /\ Head(d) = d[1]
          BY <2>3
        <5> QED BY <2>3, <5>1, <5>2, <5>3
      <4> QED BY <2>2, <3>1, <4>1 DEF NoneLeft
    <3>2. CASE due = << >>
      <4>1. F = << >>
        BY <2>2, <3>2, FlattenType DEF F
      <4>2. buffer = << >>
        BY <2>2, <2>6, <4>1, ConcatEqualIffEmpty
      <4>3. Head(d) = m
        BY <3>2 DEF d
      <4>4. Len(buffer) = 0
        BY <4>2
      <4> QED BY <1>4, <4>3, <4>4 DEF NoneLeft
    <3> QED BY <3>1, <3>2
  <2> QED BY <2>1, <2>4, <2>8, <2>9
<1> QED BY <1>2, <1>6, <1>7 DEF WholeNext, WireOK

(* It goes, or the network, with the end of what was under way.            *)
LEMMA HangsUpIsWhole ==
  ASSUME WholeInv, HangsUp
  PROVE  WholeNext
<1>1. PICK n \in 0..Len(conn.wire) : conn' = [conn EXCEPT !.hungUp = TRUE, !.wire = SubSeq(@, 1, n)]
  BY DEF HangsUp
<1>2. Alive(conn) /\ step' = step /\ buffer' = buffer /\ mightBe' = mightBe /\ due' = due /\ clean' = clean
  BY DEF HangsUp, tokenVars
<1> DEFINE w == conn.wire
           v == SubSeq(w, 1, n)
           u == SubSeq(w, n + 1, Len(w))
<1>3. w \in Seq(Bytes) /\ buffer \in Seq(Bytes) /\ Len(w) \in Nat /\ n \in Nat /\ n \in 0..Len(w)
  BY WholeIs
<1>4. conn'.wire = v /\ conn'.link = conn.link /\ conn'.hungUp
  BY <1>1, WholeIs DEF Connections
<1>5. Alive(conn')
  BY <1>2, <1>4 DEF Alive
<1> HIDE DEF w
<1>6. v \o u = w
  <2>1. 1 \in 1..(Len(w) + 1) /\ n \in (1 - 1)..Len(w) /\ Len(w) \in n..Len(w)
    BY <1>3
  <2>2. v \o u = SubSeq(w, 1, Len(w))
    BY <1>3, <2>1, ConcatAdjacentSubSeq
  <2> QED BY <1>3, <2>2, SubSeqFull
<1>7. v \in Seq(Bytes) /\ u \in Seq(Bytes)
  <2>1. 1 \in Nat \ {0} /\ n + 1 \in Nat \ {0} /\ n \in 0..Len(w) /\ Len(w) \in 0..Len(w)
    BY <1>3
  <2> QED BY <1>3, <2>1, PieceType
<1> HIDE DEF v, u
<1>8. clean => Heard(buffer, conn', due)
  <2> SUFFICES ASSUME clean PROVE Heard(buffer, conn', due)
    OBVIOUS
  <2> DEFINE t == FlattenSeq(due)
  <2>1. t \in Seq(Bytes) /\ IsPrefix(buffer \o w, t)
    BY WholeIs DEF Heard, w
  <2> HIDE DEF t
  <2>2. IsPrefix(buffer \o v, t)
    BY <1>3, <1>6, <1>7, <2>1, CutPrefix
  <2> QED BY <1>4, <2>2 DEF Heard, t
<1> QED BY <1>2, <1>5, <1>8, WholeIs DEF WholeNext, WireOK

(* A message is read, or there is none.                                    *)
LEMMA ProcessIsWhole ==
  ASSUME WholeInv, Process
  PROVE  WholeNext
<1>0. buffer' = ReadNext.buffer /\ mightBe' = ReadNext.mark
  BY DEF Process
<1>1. /\ ReadNext.message = << >> => step' = "check" /\ conn' = conn /\ due' = due /\ clean' = clean
      /\ ReadNext.message # << >> =>
            /\ conn' = conn \/ \E m : conn' \in Handled(conn, m)
            /\ due' = IF due = << >> THEN due ELSE Tail(due)
            /\ clean' = (clean /\ due # << >> /\ (Known(Head(due)) \/ Head(due) = AccountID))
            /\ step' = "process"
  BY DEF Process
<1>2. Line(conn, conn')
  BY <1>1, WholeIs, LineItself, HandledLine
<1>3. ~Alive(conn') => conn'.wire = << >>
  BY <1>2, WholeIs DEF Line, Alive
<1> SUFFICES ASSUME clean'
             PROVE  /\ DueOK(due', mightBe') /\ Heard(buffer', conn', due')
                    /\ step' # "process" => NoneLeft(buffer', due', mightBe')
  BY <1>3 DEF WholeNext, WireOK
<1>4. clean
  BY <1>1
<1>5. DueOK(due, mightBe) /\ Heard(buffer, conn, due) /\ due \in Seq(Seq(Bytes)) /\ FlattenSeq(due) \in Seq(Bytes)
      /\ buffer \in Seq(Bytes) /\ conn \in Connections /\ conn.wire \in Seq(Bytes) /\ mightBe \in BOOLEAN
      /\ conn'.wire \in Seq(Bytes)
  BY <1>2, <1>4, WholeIs DEF Line, Connections, Bytes
<1>6. CASE due = << >>
  <2>1. FlattenSeq(due) = << >>
    BY <1>5, <1>6, FlattenType
  <2>2. IsPrefix(buffer \o conn.wire, << >>)
    BY <1>5, <2>1 DEF Heard
  <2>3. Len(buffer \o conn.wire) = 0
    BY <1>5, <2>2 DEF IsPrefix
  <2>4. buffer = << >> /\ conn.wire = << >> /\ Len(buffer) = 0
    BY <1>5, <2>3
  <2>5. ReadNext.message = << >> /\ ReadNext.buffer = buffer
    <3>1. Len(buffer) < 2 /\ ~(Len(buffer) \in 2..3) /\ ~(Len(buffer) >= 4)
      BY <2>4
    <3>2. ReadNext = Undef(mightBe)
      BY <3>1, Zenon DEF ReadNext
    <3> QED BY <3>2, UndefIs
  <2> QED BY <1>0, <1>1, <1>6, <2>4, <2>5, NothingHeard
<1>7. CASE due # << >>
  <2> DEFINE h == Head(due)
             t == FlattenSeq(Tail(due))
             w == conn.wire
  <2>1. /\ h \in Seq(Bytes) /\ Len(h) \in Nat /\ (h \in Sayings \/ (h = AccountID /\ mightBe))
        /\ t \in Seq(Bytes) /\ FlattenSeq(due) = h \o t /\ \A m : DueOK(Tail(due), m)
    BY <1>5, <1>7, HeadIs
  <2>2. IsPrefix(buffer \o w, h \o t) /\ (Alive(conn) /\ ~conn.hungUp => buffer \o w = h \o t)
    BY <1>5, <2>1 DEF Heard
  <2>3. BeginAlike(buffer, h)
    <3> HIDE DEF h, t, w
    <3>1. w \in Seq(Bytes)
      BY <1>5 DEF w
    <3> QED BY <1>5, <2>1, <2>2, <3>1, PrefixAgrees
  <2>4. TakesNone(h) \/ TakesFirst(h)
    <3> HIDE DEF h
    <3> QED BY <1>5, <2>1, <2>3, ReadIs
  <2>5. CASE TakesNone(h)
    <3>1. buffer' = buffer /\ due' = due /\ conn' = conn
      BY <1>0, <1>1, <2>5 DEF TakesNone
    <3>2. NoneLeft(buffer', due', mightBe')
      BY <1>0, <2>5, <3>1 DEF TakesNone, NoneLeft
    <3>3. DueOK(due, mightBe')
      <4>1. h \in Sayings \/ mightBe'
        BY <1>0, <2>5 DEF TakesNone
      <4>2. Len(due) \in Nat /\ h = due[1]
        BY <1>5, <1>7
      <4>3. ASSUME NEW i \in 1..Len(due)
            PROVE  due[i] \in Sayings \/ (due[i] = AccountID /\ i = 1 /\ mightBe')
        BY <1>5, <4>1, <4>2 DEF DueOK
      <4> QED BY <1>5, <4>3 DEF DueOK
    <3> QED BY <1>5, <3>1, <3>2, <3>3
  <2>6. CASE TakesFirst(h)
    <3>1. due' = Tail(due) /\ step' = "process" /\ (Known(h) \/ h = AccountID)
      BY <1>1, <1>7, <2>6 DEF TakesFirst
    <3>2. Len(h) <= Len(buffer) /\ buffer' = SubSeq(buffer, Len(h) + 1, Len(buffer))
      BY <1>0, <2>6, <3>1 DEF TakesFirst
    <3>3. buffer' \in Seq(Bytes) /\ IsPrefix(buffer' \o w, t) /\ (buffer \o w = h \o t => buffer' \o w = t)
      <4> DEFINE k == buffer'
                 b == buffer
                 first == Len(h) + 1
      <4>1. /\ w \in Seq(Bytes) /\ b \in Seq(Bytes) /\ h \in Seq(Bytes) /\ t \in Seq(Bytes)
            /\ IsPrefix(b \o w, h \o t) /\ Len(h) <= Len(b)
            /\ first = Len(h) + 1 /\ k = SubSeq(b, first, Len(b))
        BY <1>5, <2>1, <2>2, <3>2
      <4> HIDE DEF h, t, w, k, b, first
      <4>2. Shortened(b, w, h, t, k)
        BY ONLY <4>1, CutAway
      <4> QED BY <4>2 DEF Shortened, k, b
    <3>4. Heard(buffer', conn, Tail(due))
      BY <2>2, <3>3 DEF Heard
    <3>5. Heard(buffer', conn', Tail(due))
      BY <1>2, <1>5, <2>1, <3>3, <3>4, HeardLine
    <3>6. DueOK(due', mightBe')
      BY <2>1, <3>1
    <3>7. Heard(buffer', conn', due')
      BY <3>1, <3>5
    <3> QED BY <3>1, <3>6, <3>7
  <2> QED BY <2>4, <2>5, <2>6
<1> QED BY <1>6, <1>7

-----------------------------------------------------------------------------
(* The invariant holds in the beginning.                                   *)
LEMMA WholeInit ==
  ASSUME ConnInit
  PROVE  WholeInv
<1>1. conn.wire = << >> /\ buffer = << >> /\ due = << >>
  BY DEF ConnInit
<1> QED BY <1>1, InvInit, NothingHeard DEF WholeInv, WireOK

(* Every step keeps the invariant.                                         *)
LEMMA WholeStep ==
  ASSUME WholeInv, [ConnNext]_connVars
  PROVE  WholeInv'
<1>1. ConnInv'
  BY InvStep DEF WholeInv
<1>2. WholeNext
  <2>1. CASE Answers \/ Loses \/ TimesOut \/ Waits \/ Command \/ PauseEnds
    <3>1. Line(conn, conn')
      BY <2>1, StepLine, WholeIs
    <3>2. UNCHANGED tokenVars
      BY <2>1 DEF Answers, Loses, TimesOut, Waits, Command, PauseEnds
    <3>3. step' # "process" => step # "process"
      BY <2>1 DEF Answers, Loses, TimesOut, Waits, Command, PauseEnds, CheckStep
    <3> QED BY <3>1, <3>2, <3>3, LineIsWhole
  <2>2. CASE UNCHANGED connVars
    BY <2>2 DEF connVars, WholeInv, WholeNext
  <2> QED BY <2>1, <2>2, CallIsWhole, ReceiveIsWhole, ProcessIsWhole, SpeaksIsWhole, HangsUpIsWhole DEF ConnNext
<1> QED BY <1>1, <1>2 DEF WholeInv, WholeNext, WireOK, DueOK, Heard, NoneLeft, Alive

(* Whatever the servers say and in whatever pieces it comes, messages are  *)
(* cut where the server ended them.                                        *)
THEOREM MessagesStayWhole == ConnSpec => []MessagesAreWhole
<1>1. WholeInv => MessagesAreWhole
  BY DEF WholeInv, ConnInv, WireOK, Heard, NoneLeft, MessagesAreWhole
<1>2. ConnSpec => []WholeInv
  BY WholeInit, WholeStep, PTL DEF ConnSpec
<1> QED BY <1>1, <1>2, PTL

-----------------------------------------------------------------------------
(***************************************************************************)
(* The keys of a padded packet come back to whoever knows what it was      *)
(* built with, for any ciphers, sync values, accounts, targets and skills. *)
(* Wherever the hash puts the keys, each ends at least four bytes behind   *)
(* the one before and all end inside the buffer, so the last of the six    *)
(* times leaves every key whole, and the header, in the first three bytes, *)
(* touches none.  The inductive invariant says that the last packet can be *)
(* read with its own hash and that the engine is ready for the next one.   *)
(***************************************************************************)

\* Adding keys to a block, one by one.
AddsTo(block, data, f) ==
    f = [n \in 0..Len(data) |-> IF n = 0 THEN block ELSE AddTo(f[n - 1], data[n])]

Holding(data) == [items |-> data, room |-> 5]

(* A block that has room for the keys takes them as they come.             *)
LEMMA AddAllIs ==
  ASSUME NEW S, NEW data \in Seq(S), Len(data) <= 4
  PROVE  AddAll(EmptyBlock, data) = Holding(data)
<1> DEFINE N == Len(data)
           f == [n \in 0..N |-> [items |-> SubSeq(data, 1, n), room |-> 5]]
<1>0. N \in 0..4 /\ Len(data) = N /\ DOMAIN data = 1..N
  <2>1. Len(data) \in Nat /\ DOMAIN data = 1..Len(data)
    OBVIOUS
  <2> QED BY <2>1
<1> HIDE DEF N
<1>1. ASSUME NEW n \in 1..N
      PROVE  AddTo([items |-> SubSeq(data, 1, n - 1), room |-> 5], data[n]) = [items |-> SubSeq(data, 1, n), room |-> 5]
  <2> DEFINE a == SubSeq(data, 1, n - 1)
             b == SubSeq(data, 1, n)
  <2>1. a \in Seq(S) /\ Len(a) = n - 1 /\ b \in Seq(S) /\ Len(b) = n
    BY <1>0
  <2>2. \A i \in 1..(n - 1) : a[i] = data[i]
    BY <1>0
  <2>3. \A i \in 1..n : b[i] = data[i]
    BY <1>0
  <2>4. data[n] \in S
    BY <1>0
  <2> HIDE DEF a, b
  <2> DEFINE c == Append(a, data[n])
  <2>5. c \in Seq(S) /\ Len(c) = n /\ c[n] = data[n] /\ \A i \in 1..(n - 1) : c[i] = a[i]
    BY <1>0, <2>1, <2>4
  <2>6. \A i \in 1..n : c[i] = b[i]
    <3>1. ASSUME NEW i \in 1..n PROVE c[i] = b[i]
      <4>1. CASE i = n
        BY <2>3, <2>5, <4>1
      <4>2. CASE i # n
        <5>1. i \in 1..(n - 1)
          BY <1>0, <4>2
        <5> HIDE DEF c
        <5> QED BY <2>2, <2>3, <2>5, <5>1
      <4> QED BY <4>1, <4>2
    <3> QED BY <3>1
  <2>7. c = b
    <3> HIDE DEF c
    <3> QED BY <1>0, <2>1, <2>5, <2>6, SeqEqual
  <2>8. Len(a) # 5 - 1
    BY <1>0, <2>1
  <2>9. AddTo([items |-> a, room |-> 5], data[n]) = [items |-> c, room |-> 5]
    BY <2>8 DEF AddTo
  <2> QED BY <2>7, <2>9 DEF a, b
<1>2. f[0] = EmptyBlock
  <2>1. SubSeq(data, 1, 0) = << >>
    BY <1>0
  <2>2. 0 \in 0..N
    BY <1>0
  <2> QED BY <2>1, <2>2 DEF EmptyBlock
<1>3. AddsTo(EmptyBlock, data, f)
  <2>1. ASSUME NEW n \in 0..N
        PROVE  f[n] = IF n = 0 THEN EmptyBlock ELSE AddTo(f[n - 1], data[n])
    <3>1. CASE n = 0
      BY <1>2, <3>1
    <3>2. CASE n # 0
      <4>1. n \in 1..N /\ n - 1 \in 0..N
        BY <1>0, <3>2
      <4> QED BY <1>1, <3>2, <4>1
    <3> QED BY <3>1, <3>2
  <2> QED BY <1>0, <2>1 DEF AddsTo
<1> HIDE DEF f
<1> DEFINE g == CHOOSE g : AddsTo(EmptyBlock, data, g)
<1>4. AddsTo(EmptyBlock, data, g)
  BY <1>3
<1>5. AddAll(EmptyBlock, data) = g[N]
  BY <1>0 DEF AddAll, AddsTo
<1> HIDE DEF g
<1>6. \A n \in 0..N : g[n] = IF n = 0 THEN EmptyBlock ELSE AddTo(g[n - 1], data[n])
  BY <1>0, <1>4 DEF AddsTo
<1>7. \A n \in 0..N : f[n] = IF n = 0 THEN EmptyBlock ELSE AddTo(f[n - 1], data[n])
  BY <1>0, <1>3 DEF AddsTo
<1>8. f[N] = g[N]
  <2> DEFINE T == {n \in 0..N : f[n] # g[n]}
  <2> SUFFICES ASSUME T # {} PROVE FALSE
    BY <1>0
  <2>1. T \subseteq Nat
    BY <1>0
  <2>2. PICK n \in T : \A m \in T : n <= m
    BY <2>1, LeastElement
  <2>3. n # 0
    BY <1>6, <1>7, <2>2
  <2>4. n - 1 \in 0..N /\ f[n - 1] = g[n - 1]
    BY <1>0, <2>2, <2>3
  <2> QED BY <1>6, <1>7, <2>2, <2>3, <2>4
<1>9. f[N] = [items |-> data, room |-> 5]
  <2>1. SubSeq(data, 1, N) = data
    BY <1>0
  <2>2. f[N] = [items |-> SubSeq(data, 1, N), room |-> 5]
    BY <1>0 DEF f
  <2> QED BY <2>1, <2>2
<1> QED BY <1>5, <1>8, <1>9 DEF Holding

\* Where the keys end, one after the other.
EndsAt(pass, hashData, offset, f) ==
    f = [p \in 0..pass |-> 4 + Magic(p, hashData, offset) + IF p = 0 THEN 4 ELSE f[p - 1]]

(* The ends of the first three keys.                                       *)
LEMMA EndOfIs ==
  ASSUME NEW h, NEW o
  PROVE  /\ EndOf(0, h, o) = 4 + Magic(0, h, o) + 4
         /\ EndOf(1, h, o) = 4 + Magic(1, h, o) + EndOf(0, h, o)
         /\ EndOf(2, h, o) = 4 + Magic(2, h, o) + EndOf(1, h, o)
<1> DEFINE m(p) == 4 + Magic(p, h, o)
           a == m(0) + 4
           b == m(1) + a
           c == m(2) + b
           e(n) == CHOOSE f : EndsAt(n, h, o, f)
<1>1. ASSUME NEW n \in 0..2
      PROVE  EndOf(n, h, o) = e(n)[n] /\ EndsAt(n, h, o, e(n))
  <2> DEFINE f == [p \in 0..n |-> IF p = 0 THEN a ELSE IF p = 1 THEN b ELSE c]
  <2>1. ASSUME NEW p \in 0..n
        PROVE  f[p] = m(p) + IF p = 0 THEN 4 ELSE f[p - 1]
    <3> HIDE DEF m
    <3>1. CASE p = 0
      BY <3>1
    <3>2. CASE p = 1
      BY <3>2
    <3>3. CASE p = 2
      BY <3>3
    <3> QED BY <3>1, <3>2, <3>3
  <2>2. EndsAt(n, h, o, f)
    <3> HIDE DEF a, b, c
    <3> QED BY <2>1 DEF EndsAt
  <2>3. EndsAt(n, h, o, e(n))
    <3> HIDE DEF f
    <3> QED BY <2>2
  <2>4. EndOf(n, h, o) = e(n)[n]
    BY Zenon DEF EndOf, EndsAt
  <2> QED BY <2>3, <2>4
<1> HIDE DEF e
<1>2. ASSUME NEW n \in 0..2, NEW p \in 0..n
      PROVE  e(n)[p] = m(p) + IF p = 0 THEN 4 ELSE e(n)[p - 1]
  BY <1>1 DEF EndsAt
<1>3. EndOf(0, h, o) = a
  BY <1>1, <1>2
<1>4. e(1)[1] = b /\ EndOf(1, h, o) = b
  <2>1. e(1)[0] = a
    BY <1>2
  <2>2. e(1)[1] = m(1) + e(1)[0]
    BY <1>2
  <2> QED BY <1>1, <2>1, <2>2
<1>5. EndOf(2, h, o) = c
  <2>1. e(2)[0] = a
    BY <1>2
  <2>2. e(2)[1] = m(1) + e(2)[0]
    BY <1>2
  <2>3. e(2)[2] = m(2) + e(2)[1]
    BY <1>2
  <2> QED BY <1>1, <2>1, <2>2, <2>3
<1> QED BY <1>3, <1>4, <1>5

(* The keys lie one behind the other, and after the header.                *)
Spread(a, b, c) == a \in 8..46 /\ b \in (a + 4)..(a + 42) /\ c \in (b + 4)..(b + 42)

(* Whatever the hash, a key lies behind the one before, header first.      *)
LEMMA EndsApart ==
  ASSUME NEW h \in Int, NEW o \in Int
  PROVE  Spread(EndOf(0, h, o), EndOf(1, h, o), EndOf(2, h, o))
<1>1. ASSUME NEW p \in 0..2 PROVE Magic(p, h, o) \in 0..38
  <2> DEFINE sum == (5 + 3 * p) * p + h - o
             x == IF sum >= 0 THEN sum ELSE sum + (IF WordSize = 4 THEN 22 ELSE 16)
  <2>1. (5 + 3 * p) * p \in Int
    OBVIOUS
  <2>2. x \in Int
    BY <2>1
  <2>3. Magic(p, h, o) = x % 39
    BY DEF Magic
  <2> HIDE DEF x
  <2> QED BY <2>2, <2>3
<1>2. Magic(0, h, o) \in 0..38 /\ Magic(1, h, o) \in 0..38 /\ Magic(2, h, o) \in 0..38
  BY <1>1
<1>3. EndOf(0, h, o) = 4 + Magic(0, h, o) + 4
  BY EndOfIs
<1>4. EndOf(1, h, o) = 4 + Magic(1, h, o) + EndOf(0, h, o)
  BY EndOfIs
<1>5. EndOf(2, h, o) = 4 + Magic(2, h, o) + EndOf(1, h, o)
  BY EndOfIs
<1>6. EndOf(0, h, o) \in 8..46
  BY ONLY <1>2, <1>3
<1>7. EndOf(1, h, o) \in (EndOf(0, h, o) + 4)..(EndOf(0, h, o) + 42)
  BY ONLY <1>2, <1>4, <1>6
<1>8. EndOf(2, h, o) \in (EndOf(1, h, o) + 4)..(EndOf(1, h, o) + 42)
  BY ONLY <1>2, <1>5, <1>6, <1>7
<1> QED BY <1>6, <1>7, <1>8 DEF Spread

(* One of the times the keys are written, for two or three of them.        *)
WritesTo(cells, keys, hashData, iter, f) ==
    f = [n \in 0..Len(keys) |->
           IF n = 0 THEN cells
           ELSE Stored(f[n - 1], EndOf(n - 1, hashData, Offsets[iter + 1]), keys[n] + iter - 5)]

\* f holds the buffer after each key.
KeyByKey(keys, hashData, iter, f) ==
    \A n \in 1..Len(keys) :
       f[n] = Stored(f[n - 1], EndOf(n - 1, hashData, Offsets[iter + 1]), keys[n] + iter - 5)

(* One of the six times, key by key.                                       *)
LEMMA WrittenIs ==
  ASSUME NEW cells, NEW keys, NEW h, NEW iter, Len(keys) \in 2..3
  PROVE  \E f : KeyByKey(keys, h, iter, f) /\ Written(cells, keys, h, iter) = f[Len(keys)]
<1> DEFINE Next1(b, n) == Stored(b, EndOf(n - 1, h, Offsets[iter + 1]), keys[n] + iter - 5)
           a == Next1(cells, 1)
           b == Next1(a, 2)
           c == Next1(b, 3)
           f == [n \in 0..Len(keys) |-> IF n = 0 THEN cells ELSE IF n = 1 THEN a ELSE IF n = 2 THEN b ELSE c]
           g == CHOOSE g : WritesTo(cells, keys, h, iter, g)
<1>1. ASSUME NEW n \in 0..Len(keys)
      PROVE  f[n] = IF n = 0 THEN cells ELSE Next1(f[n - 1], n)
  <2> HIDE DEF Next1
  <2>0. n \in {0, 1, 2, 3} /\ {0, 1, 2} \subseteq 0..Len(keys)
    <3> DEFINE N == Len(keys)
    <3>1. N \in 2..3 /\ n \in 0..N
      OBVIOUS
    <3> HIDE DEF N
    <3>2. n \in {0, 1, 2, 3} /\ {0, 1, 2} \subseteq 0..N
      BY <3>1
    <3> QED BY <3>2 DEF N
  <2>1. CASE n = 0
    BY <2>0, <2>1
  <2>2. CASE n = 1
    BY <2>0, <2>2
  <2>3. CASE n = 2
    BY <2>0, <2>3
  <2>4. CASE n = 3
    BY <2>0, <2>4
  <2> QED BY <2>0, <2>1, <2>2, <2>3, <2>4
<1>2. WritesTo(cells, keys, h, iter, f)
  <2> HIDE DEF a, b, c
  <2> QED BY <1>1 DEF WritesTo
<1>3. WritesTo(cells, keys, h, iter, g)
  <2> HIDE DEF f
  <2> QED BY <1>2
<1>4. Written(cells, keys, h, iter) = g[Len(keys)]
  BY Zenon DEF Written, WritesTo
<1> HIDE DEF g
<1>5. \A n \in 1..Len(keys) : g[n] = Next1(g[n - 1], n)
  <2> HIDE DEF Next1
  <2>1. g = [n \in 0..Len(keys) |-> IF n = 0 THEN cells ELSE Next1(g[n - 1], n)]
    BY <1>3 DEF WritesTo, Next1
  <2>2. \A n \in 1..Len(keys) : n \in 0..Len(keys) /\ n # 0
    OBVIOUS
  <2> QED BY <2>1, <2>2
<1>6. KeyByKey(keys, h, iter, g)
  BY <1>5 DEF KeyByKey
<1> QED BY <1>4, <1>6

(* The last time is what counts.                                           *)
LEMMA WrittenOverIs ==
  ASSUME NEW cells, NEW keys, NEW h
  PROVE  \E b : WrittenOver(cells, keys, h) = Written(b, keys, h, 5)
<1> DEFINE IsTimes(f) == f = [n \in 0..6 |-> IF n = 0 THEN cells ELSE Written(f[n - 1], keys, h, n - 1)]
           a1 == Written(cells, keys, h, 0)
           a2 == Written(a1, keys, h, 1)
           a3 == Written(a2, keys, h, 2)
           a4 == Written(a3, keys, h, 3)
           a5 == Written(a4, keys, h, 4)
           a6 == Written(a5, keys, h, 5)
           f == [n \in 0..6 |-> CASE n = 0 -> cells [] n = 1 -> a1 [] n = 2 -> a2 [] n = 3 -> a3
                                  [] n = 4 -> a4 [] n = 5 -> a5 [] n = 6 -> a6]
           g == CHOOSE g : IsTimes(g)
<1>1. /\ f[0] = cells /\ f[1] = a1 /\ f[2] = a2 /\ f[3] = a3 /\ f[4] = a4 /\ f[5] = a5 /\ f[6] = a6
  <2> HIDE DEF a1, a2, a3, a4, a5, a6
  <2> QED OBVIOUS
<1>2. IsTimes(f)
  <2>1. ASSUME NEW n \in 0..6
        PROVE  f[n] = IF n = 0 THEN cells ELSE Written(f[n - 1], keys, h, n - 1)
    <3> HIDE DEF f
    <3>1. n \in {0, 1, 2, 3, 4, 5, 6}
      OBVIOUS
    <3> QED BY <1>1, <3>1
  <2> HIDE DEF a1, a2, a3, a4, a5, a6
  <2> QED BY <2>1
<1>3. IsTimes(g)
  <2> HIDE DEF f, IsTimes
  <2> QED BY <1>2
<1>4. WrittenOver(cells, keys, h) = g[6]
  BY Zenon DEF WrittenOver
<1>5. g[6] = Written(g[5], keys, h, 5)
  <2> HIDE DEF g
  <2> QED BY <1>3
<1> QED BY <1>4, <1>5

EndFor(h, n) == EndOf(n - 1, h, 0)

\* The four bytes before the end are those of the key.
HasKey(cells, end, key) == \A b \in 0..3 : cells[end - 4 + b] = <<"key", key, b>>

(* A key is stored, and keys that end before it are left alone.            *)
LEMMA StoredIs ==
  ASSUME NEW cells, NEW end \in 8..130, NEW key
  PROVE  /\ HasKey(Stored(cells, end, key), end, key)
         /\ \A e \in 8..(end - 4) : \A k : HasKey(cells, e, k) => HasKey(Stored(cells, end, key), e, k)
<1> DEFINE s == Stored(cells, end, key)
<1>1. WordSize = 4 /\ \A i \in 0..129 : i \in Cells
  BY PacketsAssumption DEF Cells
<1>2. \A i \in 0..129 : s[i] = IF i \in (end - 4)..(end - 1) THEN <<"key", key, i - (end - 4)>> ELSE cells[i]
  BY <1>1 DEF Stored
<1> HIDE DEF s
<1>3. HasKey(s, end, key)
  <2>1. ASSUME NEW b \in 0..3 PROVE s[end - 4 + b] = <<"key", key, b>>
    <3>1. end - 4 + b \in 0..129 /\ end - 4 + b \in (end - 4)..(end - 1) /\ end - 4 + b - (end - 4) = b
      OBVIOUS
    <3> DEFINE i == end - 4 + b
    <3> HIDE DEF i
    <3>2. s[i] = <<"key", key, i - (end - 4)>>
      BY <1>2, <3>1 DEF i
    <3>3. i - (end - 4) = b
      BY <3>1 DEF i
    <3> QED BY <3>2, <3>3 DEF i
  <2> QED BY <2>1 DEF HasKey
<1>4. ASSUME NEW e \in 8..(end - 4), NEW k, HasKey(cells, e, k)
      PROVE  HasKey(s, e, k)
  <2>1. ASSUME NEW b \in 0..3 PROVE s[e - 4 + b] = cells[e - 4 + b]
    <3>1. e - 4 + b \in 0..129 /\ ~(e - 4 + b \in (end - 4)..(end - 1))
      OBVIOUS
    <3> QED BY <1>2, <3>1
  <2> QED BY <1>4, <2>1 DEF HasKey
<1> QED BY <1>3, <1>4 DEF s

(* So all keys lie in the buffer when they have been written.              *)
LEMMA KeysLie ==
  ASSUME NEW cells, NEW keys \in Seq(Int), Len(keys) \in 2..3, NEW h \in Int
  PROVE  \A n \in 1..Len(keys) : HasKey(WrittenOver(cells, keys, h), EndFor(h, n), keys[n])
<1>1. PICK b : WrittenOver(cells, keys, h) = Written(b, keys, h, 5)
  BY WrittenOverIs
<1>2. PICK f : KeyByKey(keys, h, 5, f) /\ Written(b, keys, h, 5) = f[Len(keys)]
  BY WrittenIs
<1>3. \A n \in 1..Len(keys) : f[n] = Stored(f[n - 1], EndFor(h, n), keys[n])
  <2>1. Offsets[5 + 1] = 0
    BY DEF Offsets
  <2>2. ASSUME NEW n \in 1..Len(keys) PROVE keys[n] + 5 - 5 = keys[n]
    <3>1. keys[n] \in Int
      OBVIOUS
    <3> QED BY <3>1
  <2> QED BY <1>2, <2>1, <2>2 DEF EndFor, KeyByKey
<1> DEFINE e1 == EndFor(h, 1)
           e2 == EndFor(h, 2)
           e3 == EndFor(h, 3)
<1>4. e1 \in 8..(e2 - 4) /\ e2 \in 8..(e3 - 4) /\ e1 \in 8..130 /\ e2 \in 8..130 /\ e3 \in 8..130 /\ e1 \in 8..(e3 - 4)
  <2>1. e1 = EndOf(0, h, 0) /\ e2 = EndOf(1, h, 0) /\ e3 = EndOf(2, h, 0)
    BY DEF EndFor
  <2>2. Spread(EndOf(0, h, 0), EndOf(1, h, 0), EndOf(2, h, 0))
    BY EndsApart
  <2> HIDE DEF e1, e2, e3
  <2>3. e1 \in 8..46 /\ e2 \in (e1 + 4)..(e1 + 42) /\ e3 \in (e2 + 4)..(e2 + 42)
    BY <2>1, <2>2 DEF Spread
  <2> QED BY ONLY <2>3
<1> HIDE DEF e1, e2, e3
<1>5. HasKey(f[1], e1, keys[1])
  <2>1. f[1] = Stored(f[0], e1, keys[1])
    BY <1>3 DEF e1
  <2> QED BY <1>4, <2>1, StoredIs
<1>6. HasKey(f[2], e1, keys[1]) /\ HasKey(f[2], e2, keys[2])
  <2>1. f[2] = Stored(f[1], e2, keys[2])
    BY <1>3 DEF e2
  <2> QED BY <1>4, <1>5, <2>1, StoredIs
<1>7. CASE Len(keys) = 2
  <2>1. ASSUME NEW n \in 1..2 PROVE HasKey(f[2], EndFor(h, n), keys[n])
    BY <1>6 DEF e1, e2
  <2> QED BY <1>1, <1>2, <1>7, <2>1
<1>8. CASE Len(keys) = 3
  <2>1. f[3] = Stored(f[2], e3, keys[3])
    BY <1>3, <1>8 DEF e3
  <2>2. HasKey(f[3], e1, keys[1]) /\ HasKey(f[3], e2, keys[2]) /\ HasKey(f[3], e3, keys[3])
    BY <1>4, <1>6, <2>1, StoredIs
  <2>3. ASSUME NEW n \in 1..3 PROVE HasKey(f[3], EndFor(h, n), keys[n])
    BY <2>2 DEF e1, e2, e3
  <2> QED BY <1>1, <1>2, <1>8, <2>3
<1> QED BY <1>7, <1>8

(* A key that lies in the buffer is read back from the packet.             *)
LEMMA ReadBackIs ==
  ASSUME NEW cells, NEW length \in 8..130, NEW end \in 8..length, NEW key, HasKey(cells, end, key)
  PROVE  ReadBack([i \in 1..length |-> cells[i - 1]], end) = key
<1> DEFINE bytes == [i \in 1..length |-> cells[i - 1]]
           Place(b) == end - WordSize + 1 + b
           Byte(b) == IF Place(b) <= Len(bytes) THEN bytes[Place(b)] ELSE Pad
<1>1. Len(bytes) = length
  <2> DEFINE S == {cells[i - 1] : i \in 1..length}
  <2>1. bytes \in Seq(S)
    <3>1. bytes \in [1..length -> S] /\ length \in Nat
      OBVIOUS
    <3> HIDE DEF bytes, S
    <3> QED BY <3>1, SeqDef
  <2>2. DOMAIN bytes = 1..length /\ length \in Nat
    OBVIOUS
  <2> HIDE DEF bytes, S
  <2> QED BY <2>1, <2>2, LenProperties
<1>2. ASSUME NEW b \in 0..3 PROVE Byte(b) = <<"key", key, b>>
  <2>1. Place(b) \in 1..length /\ Place(b) - 1 = end - 4 + b
    BY PacketsAssumption
  <2>2. bytes[Place(b)] = cells[Place(b) - 1]
    BY <2>1
  <2>3. Byte(b) = bytes[Place(b)]
    <3> HIDE DEF bytes, Place
    <3> QED BY <1>1, <2>1
  <2>4. cells[end - 4 + b] = <<"key", key, b>>
    BY DEF HasKey
  <2> HIDE DEF bytes, Place, Byte
  <2> QED BY <2>1, <2>2, <2>3, <2>4
<1>3. Byte(0)[2] = key
  <2> HIDE DEF Byte
  <2> QED BY <1>2
<1>4. ReadBack(bytes, end) = IF \A b \in 0..3 : Byte(b) = <<"key", Byte(0)[2], b>> THEN Byte(0)[2] ELSE Unreadable
  BY Zenon DEF ReadBack
<1> HIDE DEF Byte, bytes
<1>5. ReadBack(bytes, end) = key
  BY <1>2, <1>3, <1>4
<1> QED BY <1>5 DEF bytes

-----------------------------------------------------------------------------
HashOf(p) == CreateHash(p.knowing[1], p.knowing[2], p.knowing[3], p.bytes[1][2])

\* From a packet its keys can be read.
Readable(p) ==
    /\ p.keys \in Seq(Int) /\ Len(p.keys) \in 2..3
    /\ \A n \in 1..Len(p.keys) : ReadBack(p.bytes, EndFor(HashOf(p), n)) = p.keys[n]

Blank(block) == DOMAIN block = {"items", "room"} /\ block.room = 5

EngineOK(e) ==
    /\ DOMAIN e = {"serverMapSync", "clientSync", "clientAccId", "pktBuffer", "inputKeys", "outputKeys"}
    /\ e.serverMapSync \in SyncValues /\ e.clientSync \in SyncValues /\ e.clientAccId \in SyncValues
    /\ e.inputKeys = EmptyBlock /\ Blank(e.outputKeys)

(* The inductive invariant.                                                *)
PacketsInv ==
    /\ EngineOK(engine) /\ lastTargetId \in Nat
    /\ ids[1] \in Types /\ ids[2] \in Types
    /\ packet = NoPacket \/ Readable(packet)
    /\ KeysComeBack

(* A block that has not grown is empty when cleared.                       *)
LEMMA ClearedIs ==
  ASSUME NEW block, Blank(block)
  PROVE  Cleared(block) = EmptyBlock
<1>1. DOMAIN Cleared(block) = {"items", "room"} /\ Cleared(block).items = << >> /\ Cleared(block).room = 5
  BY DEF Blank, Cleared
<1>2. Cleared(block) = [items |-> Cleared(block).items, room |-> Cleared(block).room]
  BY <1>1 DEF Cleared
<1> QED BY <1>1, <1>2 DEF EmptyBlock

HasHeader(cells) == /\ 0 \in DOMAIN cells
                     /\ \A i \in 3..129 : i \in DOMAIN cells /\ i # 0 /\ i # 1 /\ i # 2

Headed(cells, b0, b1, b2) == [cells EXCEPT ![0] = b0, ![1] = b1, ![2] = b2]

(* The header changes the first three bytes.                               *)
LEMMA HeaderIs ==
  ASSUME NEW cells, NEW b0, NEW b1, NEW b2, HasHeader(cells)
  PROVE  Headed(cells, b0, b1, b2)[0] = b0 /\ \A i \in 3..129 : Headed(cells, b0, b1, b2)[i] = cells[i]
<1> DEFINE x == [cells EXCEPT ![0] = b0]
           y == [x EXCEPT ![1] = b1]
           z == [y EXCEPT ![2] = b2]
<1>1. DOMAIN x = DOMAIN cells /\ x[0] = b0 /\ \A i \in 3..129 : x[i] = cells[i]
  BY DEF HasHeader
<1> HIDE DEF x
<1>2. DOMAIN y = DOMAIN cells /\ y[0] = b0 /\ \A i \in 3..129 : y[i] = cells[i]
  BY <1>1 DEF HasHeader
<1> HIDE DEF y
<1>3. z[0] = b0 /\ \A i \in 3..129 : z[i] = cells[i]
  BY <1>2 DEF HasHeader
<1> HIDE DEF z
<1>4. z = Headed(cells, b0, b1, b2)
  BY Zenon DEF x, y, z, Headed
<1> QED BY <1>3, <1>4

(* What is built is readable, and leaves the engine ready.                 *)
LEMMA CreateIs ==
  ASSUME EngineOK(engine), NEW type \in Types, NEW keys \in Seq(Nat), Len(keys) \in 2..3, Create(type, keys)
  PROVE  EngineOK(engine') /\ Readable(packet') /\ ~decoded'.right
<1> DEFINE block == Holding(keys)
           e == [engine EXCEPT !.inputKeys = AddAll(@, keys)]
           h == Hash(e, type)
           n == Len(keys)
           length == EndOf(n - 1, h, 0)
           written == WrittenOver(e.pktBuffer, keys, h)
           b0 == <<"type", type, 0>>
           b1 == <<"type", type, 1>>
           b2 == <<"length", length % 256, 0>>
           f == [written EXCEPT ![0] = b0, ![1] = b1, ![2] = b2]
<1>1. AddAll(engine.inputKeys, keys) = block
  <2>1. AddAll(EmptyBlock, keys) = block
    <3> HIDE DEF block, e, h, n, length, written, b0, b1, b2, f
    <3>1. Len(keys) <= 4
      <4> DEFINE k == Len(keys)
      <4>1. k \in 2..3
        OBVIOUS
      <4> HIDE DEF k
      <4>2. k <= 4
        BY <4>1
      <4> QED BY <4>2 DEF k
    <3> QED BY ONLY <3>1, keys \in Seq(Nat), AddAllIs DEF block
  <2> QED BY <2>1 DEF EngineOK
<1>2. /\ DOMAIN e = DOMAIN engine /\ e.inputKeys = block /\ e.outputKeys = engine.outputKeys
      /\ e.serverMapSync = engine.serverMapSync /\ e.clientSync = engine.clientSync
      /\ e.clientAccId = engine.clientAccId
  BY <1>1 DEF EngineOK
<1>3. /\ engine' = Encoded(e, type)
      /\ packet' = [bytes |-> [i \in 1..EndOf(Len(e.inputKeys.items) - 1, h, 0) |-> engine'.pktBuffer[i - 1]],
                    keys |-> keys, knowing |-> Knowing(engine)]
      /\ decoded' = Undecoded
  BY DEF Create
<1>4. e.inputKeys.items = keys /\ keys # << >>
  <2>1. keys # << >>
    OBVIOUS
  <2> QED BY <1>2, <2>1 DEF Holding
<1>5. engine' = [e EXCEPT !.pktBuffer = f, !.inputKeys = Cleared(@)]
  BY <1>3, <1>4, Zenon DEF Encoded
<1>6. h = CreateHash(engine.serverMapSync, engine.clientSync, engine.clientAccId, type) /\ h \in Int
  <2>1. h = CreateHash(engine.serverMapSync, engine.clientSync, engine.clientAccId, type)
    BY <1>2 DEF Hash
  <2> HIDE DEF h
  <2> QED BY <2>1, PacketsAssumption DEF EngineOK
<1>7. packet'.bytes = [i \in 1..length |-> engine'.pktBuffer[i - 1]] /\ packet'.keys = keys /\ packet'.knowing = Knowing(engine)
  BY <1>3, <1>4
<1> HIDE DEF e, h
<1>8. engine'.pktBuffer = f /\ EngineOK(engine')
  <2>1. Blank(block) /\ Cleared(block) = EmptyBlock
    <3>1. Blank(block)
      BY DEF Blank, Holding
    <3> QED BY <3>1, ClearedIs
  <2> HIDE DEF f, block
  <2>2. /\ DOMAIN engine' = DOMAIN engine /\ engine'.pktBuffer = f /\ engine'.inputKeys = Cleared(block)
        /\ engine'.outputKeys = engine.outputKeys /\ engine'.serverMapSync = engine.serverMapSync
        /\ engine'.clientSync = engine.clientSync /\ engine'.clientAccId = engine.clientAccId
    BY <1>2, <1>5 DEF EngineOK
  <2> QED BY <2>1, <2>2 DEF EngineOK
<1>9. \A m \in 1..n : HasKey(written, EndFor(h, m), keys[m])
  <2>1. keys \in Seq(Int)
    OBVIOUS
  <2> QED BY <1>6, <2>1, KeysLie
<1>10. length \in 8..130 /\ \A m \in 1..n : EndFor(h, m) \in 8..length
  <2>1. Spread(EndOf(0, h, 0), EndOf(1, h, 0), EndOf(2, h, 0))
    BY <1>6, EndsApart
  <2> DEFINE e1 == EndOf(0, h, 0)
             e2 == EndOf(1, h, 0)
             e3 == EndOf(2, h, 0)
  <2>2. EndFor(h, 1) = e1 /\ EndFor(h, 2) = e2 /\ EndFor(h, 3) = e3
    BY DEF EndFor
  <2>3. (n = 2 => length = e2) /\ (n = 3 => length = e3)
    <3>1. n = 2 => n - 1 = 1
      OBVIOUS
    <3>2. n = 3 => n - 1 = 2
      OBVIOUS
    <3> HIDE DEF n
    <3> QED BY <3>1, <3>2, Zenon
  <2> HIDE DEF length, e1, e2, e3
  <2>4. e1 \in 8..46 /\ e2 \in (e1 + 4)..(e1 + 42) /\ e3 \in (e2 + 4)..(e2 + 42)
    BY <2>1 DEF Spread, e1, e2, e3
  <2>5. CASE n = 2
    <3>1. \A m \in 1..2 : EndFor(h, m) \in 8..e2
      BY <2>2, <2>4
    <3> QED BY <2>3, <2>4, <2>5, <3>1
  <2>6. CASE n = 3
    <3>1. \A m \in 1..3 : EndFor(h, m) \in 8..e3
      BY <2>2, <2>4
    <3> QED BY <2>3, <2>4, <2>6, <3>1
  <2> QED BY <2>5, <2>6
<1>11. f[0] = b0 /\ \A i \in 3..129 : f[i] = written[i]
  <2>1. DOMAIN written = Cells
    <3>1. PICK b : written = Written(b, keys, h, 5)
      BY WrittenOverIs
    <3>2. \E c, end, key : written = Stored(c, end, key)
      <4>1. PICK g : KeyByKey(keys, h, 5, g) /\ Written(b, keys, h, 5) = g[n]
        BY WrittenIs
      <4>2. n \in 1..n
        OBVIOUS
      <4>3. g[n] = Stored(g[n - 1], EndOf(n - 1, h, Offsets[5 + 1]), keys[n] + 5 - 5)
        BY <4>1, <4>2 DEF KeyByKey
      <4> HIDE DEF n, written
      <4> QED BY <3>1, <4>1, <4>3
    <3> HIDE DEF written
    <3> QED BY <3>2 DEF Stored
  <2>2. 0 \in Cells
    BY PacketsAssumption DEF Cells
  <2>3. \A i \in 3..129 : i \in Cells /\ i # 0 /\ i # 1 /\ i # 2
    BY PacketsAssumption DEF Cells
  <2> HIDE DEF written, b0, b1, b2
  <2>4. f = Headed(written, b0, b1, b2)
    BY DEF Headed
  <2> HIDE DEF f, n, length, block
  <2>5. HasHeader(written)
    BY ONLY <2>1, <2>2, <2>3 DEF HasHeader
  <2>6. Headed(written, b0, b1, b2)[0] = b0 /\ \A i \in 3..129 : Headed(written, b0, b1, b2)[i] = written[i]
    BY ONLY <2>5, HeaderIs
  <2> QED BY ONLY <2>4, <2>6
<1>12. ASSUME NEW m \in 1..n PROVE HasKey(f, EndFor(h, m), keys[m])
  <2> HIDE DEF f, written, length
  <2>1. ASSUME NEW b \in 0..3 PROVE EndFor(h, m) - 4 + b \in 3..129
    <3> DEFINE end == EndFor(h, m)
    <3>1. end \in 8..length /\ length \in 8..130
      BY <1>10
    <3> HIDE DEF n, end
    <3>2. end - 4 + b \in 3..129
      BY <3>1
    <3> QED BY <3>2 DEF end
  <2> QED BY <1>9, <1>11, <2>1 DEF HasKey
<1>13. packet'.bytes[1] = <<"type", type, 0>>
  <2> HIDE DEF f, length
  <2>1. 1 \in 1..length /\ 1 - 1 = 0
    BY <1>10
  <2>2. packet'.bytes[1] = engine'.pktBuffer[0]
    BY <1>7, <2>1
  <2> QED BY <1>8, <1>11, <2>2
<1>14. HashOf(packet') = h
  <2>1. packet'.bytes[1][2] = type
    BY <1>13
  <2>2. /\ packet'.knowing[1] = engine.serverMapSync /\ packet'.knowing[2] = engine.clientSync
        /\ packet'.knowing[3] = engine.clientAccId
    BY <1>7 DEF Knowing
  <2> QED BY <1>6, <2>1, <2>2, Zenon DEF HashOf
<1>15. ASSUME NEW m \in 1..n PROVE ReadBack(packet'.bytes, EndFor(h, m)) = keys[m]
  <2> DEFINE key == keys[m]
             end == EndFor(h, m)
  <2>1. length \in 8..130 /\ end \in 8..length /\ HasKey(f, end, key)
    BY <1>10, <1>12
  <2>2. packet'.bytes = [i \in 1..length |-> f[i - 1]]
    <3> HIDE DEF f, length
    <3> QED BY <1>7, <1>8
  <2> HIDE DEF f, length, key, end
  <2>3. ReadBack([i \in 1..length |-> f[i - 1]], end) = key
    BY ONLY <2>1, ReadBackIs
  <2> QED BY <2>2, <2>3 DEF key, end
<1>16. Readable(packet')
  <2>1. keys \in Seq(Int)
    OBVIOUS
  <2> QED BY <1>7, <1>14, <1>15, <2>1 DEF Readable
<1>17. ~decoded'.right
  BY <1>3 DEF Undecoded
<1> QED BY <1>8, <1>16, <1>17

(* The invariant holds in the beginning.                                   *)
LEMMA PacketsInvInit == PacketInit => PacketsInv
<1> SUFFICES ASSUME PacketInit PROVE PacketsInv
  OBVIOUS
<1>1. EngineOK(engine)
  BY DEF PacketInit, EngineOK, SyncValues, Blank, EmptyBlock
<1>2. lastTargetId \in Nat /\ ids[1] \in Types /\ ids[2] \in Types /\ packet = NoPacket /\ ~decoded.right
  BY DEF PacketInit, Types, Undecoded
<1> QED BY <1>1, <1>2 DEF PacketsInv, KeysComeBack

(* Telling the engine a sync value or the account.                         *)
LEMMA SyncIs ==
  ASSUME PacketsInv, NEW v \in Syncs, SetMapSync(v) \/ SetSync(v) \/ SetAccountId(v)
  PROVE  PacketsInv'
<1>1. v \in SyncValues
  BY DEF SyncValues
<1>2. UNCHANGED <<lastTargetId, ids, packet, decoded>>
  BY DEF SetMapSync, SetSync, SetAccountId
<1>3. EngineOK(engine)
  BY DEF PacketsInv
<1>4. CASE SetMapSync(v)
  <2>1. EngineOK(engine')
    BY <1>1, <1>3, <1>4 DEF EngineOK, SetMapSync
  <2> QED BY <1>2, <2>1 DEF PacketsInv, KeysComeBack
<1>5. CASE SetSync(v)
  <2>1. EngineOK(engine')
    BY <1>1, <1>3, <1>5 DEF EngineOK, SetSync
  <2> QED BY <1>2, <2>1 DEF PacketsInv, KeysComeBack
<1>6. CASE SetAccountId(v)
  <2>1. EngineOK(engine')
    BY <1>1, <1>3, <1>6 DEF EngineOK, SetAccountId
  <2> QED BY <1>2, <2>1 DEF PacketsInv, KeysComeBack
<1> QED BY <1>4, <1>5, <1>6

(* What is taken apart with the knowledge it was built with comes back.    *)
LEMMA DecodeIs ==
  ASSUME PacketsInv, NEW keyCount \in 1..3, DecodePacket(keyCount)
  PROVE  PacketsInv'
<1> DEFINE type == packet.bytes[1][2]
           h == Hash(engine, type)
           s == [n \in 1..keyCount |-> ReadBack(packet.bytes, EndFor(h, n))]
           S == {s[n] : n \in 1..keyCount}
           block == Decoded(Cleared(engine.outputKeys), packet.bytes, keyCount, h)
<1>1. /\ EngineOK(engine) /\ packet # NoPacket /\ Readable(packet)
      /\ keyCount <= Len(packet.keys)
      /\ UNCHANGED <<lastTargetId, ids, packet>>
      /\ engine' = [engine EXCEPT !.outputKeys = block]
      /\ decoded' = [keys |-> block.items, right |-> Knowing(engine) = packet.knowing]
  BY DEF PacketsInv, DecodePacket
<1>2. block = AddAll(EmptyBlock, s)
  <2>1. Cleared(engine.outputKeys) = EmptyBlock
    BY <1>1, ClearedIs DEF EngineOK
  <2> QED BY <2>1 DEF Decoded, EndFor
<1>3. s \in Seq(S) /\ Len(s) = keyCount /\ Len(s) <= 4
  <2>1. s \in [1..keyCount -> S] /\ keyCount \in Nat /\ DOMAIN s = 1..keyCount
    OBVIOUS
  <2> HIDE DEF s, S
  <2>2. s \in Seq(S)
    BY <2>1, SeqDef
  <2>3. Len(s) = keyCount
    BY <2>1, <2>2, LenProperties
  <2>4. keyCount <= 4
    OBVIOUS
  <2> QED BY <2>2, <2>3, <2>4
<1>4. block = Holding(s)
  <2> HIDE DEF s, S, block
  <2> QED BY ONLY <1>2, <1>3, AddAllIs
<1>5. EngineOK(engine')
  <2>1. Blank(block)
    <3> HIDE DEF s, block
    <3> QED BY <1>4 DEF Blank, Holding
  <2> HIDE DEF block
  <2> QED BY <1>1, <2>1 DEF EngineOK
<1>6. decoded'.keys = s /\ (decoded'.right => Knowing(engine) = packet.knowing)
  <2> HIDE DEF s, block
  <2> QED BY <1>1, <1>4 DEF Holding
<1>7. ASSUME Knowing(engine) = packet.knowing PROVE IsPrefix(s, packet.keys) /\ s # << >>
  <2>1. h = HashOf(packet)
    <3>1. /\ packet.knowing[1] = engine.serverMapSync /\ packet.knowing[2] = engine.clientSync
          /\ packet.knowing[3] = engine.clientAccId
      BY <1>7 DEF Knowing
    <3> QED BY <3>1, Zenon DEF HashOf, Hash
  <2>2. \A n \in 1..keyCount : s[n] = packet.keys[n]
    <3>1. ASSUME NEW n \in 1..keyCount PROVE s[n] = packet.keys[n]
      <4>1. s[n] = ReadBack(packet.bytes, EndFor(h, n))
        OBVIOUS
      <4>2. n \in 1..Len(packet.keys)
        <5> DEFINE l == Len(packet.keys)
        <5>1. l \in 2..3 /\ keyCount <= l
          BY <1>1 DEF Readable
        <5> HIDE DEF l
        <5>2. n \in 1..l
          BY <5>1
        <5> QED BY <5>2 DEF l
      <4> HIDE DEF s, h
      <4> QED BY <1>1, <2>1, <4>1, <4>2 DEF Readable
    <3> QED BY <3>1
  <2>3. packet.keys \in Seq(S \cup Int) /\ s \in Seq(S \cup Int)
    <3> HIDE DEF s, S
    <3>1. packet.keys \in Seq(Int)
      BY <1>1 DEF Readable
    <3> QED BY <1>3, <3>1
  <2>4. IsPrefix(s, packet.keys)
    <3> HIDE DEF s, S
    <3> QED BY <1>1, <1>3, <2>2, <2>3, AgreeIsPrefix
  <2>5. s # << >>
    <3>1. Len(s) # 0
      <4> HIDE DEF s
      <4> QED BY <1>3
    <3> HIDE DEF s
    <3> QED BY <3>1
  <2> QED BY <2>4, <2>5
<1>8. KeysComeBack'
  <2> HIDE DEF s
  <2> QED BY <1>1, <1>6, <1>7 DEF KeysComeBack
<1> QED BY <1>1, <1>5, <1>8 DEF PacketsInv

(* The requests, each with its two or three keys.                          *)
LEMMA CreateKeeps ==
  ASSUME PacketsInv, NEW type \in Types, NEW keys \in Seq(Nat), Len(keys) \in 2..3, Create(type, keys),
         lastTargetId' \in Nat
  PROVE  PacketsInv'
<1>1. EngineOK(engine)
  BY DEF PacketsInv
<1>2. EngineOK(engine') /\ Readable(packet') /\ ~decoded'.right
  BY <1>1, CreateIs
<1>3. ids' = ids
  BY DEF Create
<1> QED BY <1>2, <1>3 DEF PacketsInv, KeysComeBack

(* Every step keeps the invariant.                                         *)
LEMMA PacketsInvStep == PacketsInv /\ [PacketNext]_packetVars => PacketsInv'
<1> SUFFICES ASSUME PacketsInv, [PacketNext]_packetVars PROVE PacketsInv'
  OBVIOUS
<1> USE PacketsAssumption
<1>1. CASE UNCHANGED packetVars
  BY <1>1 DEF packetVars, PacketsInv, KeysComeBack
<1>2. ASSUME NEW v \in Syncs, SetMapSync(v) \/ SetSync(v) \/ SetAccountId(v) PROVE PacketsInv'
  BY <1>2, SyncIs
<1>3. ASSUME NEW pair \in Ids, SetPacketIDs(pair) PROVE PacketsInv'
  <2>1. ids' = pair /\ UNCHANGED <<engine, lastTargetId, packet, decoded>>
    BY <1>3 DEF SetPacketIDs
  <2>2. pair[1] \in Types /\ pair[2] \in Types
    BY DEF Types
  <2> QED BY <2>1, <2>2 DEF PacketsInv, KeysComeBack
<1>4. ASSUME NEW t \in Targets, SetPacket(20, t) PROVE PacketsInv'
  <2>1. EngineOK(engine')
    BY <1>4 DEF PacketsInv, EngineOK, SetPacket
  <2>2. lastTargetId' \in Nat /\ UNCHANGED <<ids, packet, decoded>>
    BY <1>4 DEF SetPacket
  <2> QED BY <2>1, <2>2 DEF PacketsInv, KeysComeBack
<1>5. ids[1] \in Types /\ ids[2] \in Types /\ lastTargetId \in Nat
  BY DEF PacketsInv
<1>6. ASSUME NEW a \in Nat, NEW b \in Nat PROVE <<a, b>> \in Seq(Nat) /\ Len(<<a, b>>) \in 2..3
  OBVIOUS
<1>7. ASSUME NEW sit \in BOOLEAN, CreateSitStand(sit) PROVE PacketsInv'
  <2> DEFINE k == IF sit THEN 2 ELSE 3
  <2>1. Create(ids[1], <<lastTargetId, k>>) /\ lastTargetId' \in Nat /\ k \in Nat
    BY <1>7 DEF CreateSitStand
  <2> HIDE DEF k
  <2>2. <<lastTargetId, k>> \in Seq(Nat) /\ Len(<<lastTargetId, k>>) \in 2..3
    BY <1>5, <1>6, <2>1
  <2> QED BY <1>5, <2>1, <2>2, CreateKeeps
<1>8. ASSUME NEW t \in Targets, CreateAtk(t) PROVE PacketsInv'
  <2>1. Create(ids[1], <<t, 7>>) /\ lastTargetId' \in Nat
    BY <1>5, <1>8 DEF CreateAtk
  <2>2. <<t, 7>> \in Seq(Nat) /\ Len(<<t, 7>>) \in 2..3
    BY <1>6
  <2> QED BY <1>5, <2>1, <2>2, CreateKeeps
<1>9. ASSUME NEW use \in SkillUses, CreateSkillUse(use[1], use[2], use[3]) PROVE PacketsInv'
  <2> DEFINE keys == <<use[2], use[1], use[3]>>
  <2>1. Create(ids[2], keys) /\ lastTargetId' \in Nat
    BY <1>5, <1>9 DEF CreateSkillUse
  <2>2. keys \in Seq(Nat) /\ Len(keys) \in 2..3
    OBVIOUS
  <2> HIDE DEF keys
  <2> QED BY <1>5, <2>1, <2>2, CreateKeeps
<1>10. ASSUME NEW n \in 1..3, DecodePacket(n) PROVE PacketsInv'
  BY <1>10, DecodeIs
<1>11. CASE PacketNext
  BY <1>2, <1>3, <1>4, <1>7, <1>8, <1>9, <1>10, <1>11 DEF PacketNext
<1> QED BY <1>1, <1>11

(* Whoever knows the sync values and the account a packet was built with   *)
(* reads from it the keys that went in, for every cipher, every key and    *)
(* every thing the buffer held before (Engine::encode, Engine::decode).    *)
THEOREM KeysReadBack == PacketSpec => []KeysComeBack
<1>1. PacketsInv => KeysComeBack
  BY DEF PacketsInv
<1> QED BY <1>1, PacketsInvInit, PacketsInvStep, PTL DEF PacketSpec
=============================================================================
