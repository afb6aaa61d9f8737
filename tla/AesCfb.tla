------------------------------- MODULE AesCfb -------------------------------
(***************************************************************************)
(* utils/aes-cfb.c: a stream of bytes encrypted in 128-bit CFB mode.  Two  *)
(* handles, the sender's and the receiver's, are given the same key and    *)
(* the same salt; then the sender encrypts in calls of any length and the  *)
(* receiver decrypts what came out, in calls of other lengths.  A handle   *)
(* keeps its position in the current block from call to call; the block    *)
(* cipher (module RijndaelFst) and exclusive or are constants here.        *)
(*                                                                         *)
(* A call handles its bytes one by one; nothing else happens to its handle *)
(* meanwhile.  Texts are bounded by the sequence Text, calls by Lengths.   *)
(***************************************************************************)
EXTENDS Integers, Sequences

CONSTANTS Bytes256,       \* the bytes
          BlockLength,    \* AES_SALT_SIZE, the length of a block
          Crypt(_, _),    \* rijndaelEncrypt() by key and block
          XorOf(_, _),    \* exclusive or of two bytes
          Keys, Salts,
          Created,        \* handles as AES_Create() may leave them
          Text,           \* the bytes the sender may have to encrypt
          Lengths,        \* the lengths of calls
          MaxSessions     \* how many times key and salt are changed

Blocks == [1..BlockLength -> Bytes256]
Handle == [key : Keys, idx : -1..BlockLength, blk : Blocks, crypt : Blocks]

ASSUME BlocksAssumption ==
  /\ BlockLength \in Nat \ {0}
  /\ Salts \subseteq Blocks
  /\ Text \in Seq(Bytes256) /\ Lengths \subseteq Nat
  /\ Created \subseteq {h \in Handle : h.idx = -1}
  /\ \A k \in Keys, b \in Blocks : Crypt(k, b) \in Blocks

ASSUME XorAssumption ==
  \A a, b \in Bytes256 : XorOf(a, b) \in Bytes256 /\ XorOf(XorOf(a, b), b) = a

VARIABLES aes,      \* the handles: key, cfb128_idx, cfb_blk, cfb_crypt
          left,     \* bytes left to do in the call each side is in
          session,  \* what the two have agreed on, and who has still to set what
          plain,    \* the bytes encrypted in this session
          wire,     \* what became of them
          arrived,  \* what the receiver has decrypted
          trail     \* the sender's handle before each byte, and now

cfbVars == <<aes, left, session, plain, wire, arrived, trail>>

Side == {"sender", "receiver"}
-----------------------------------------------------------------------------
\* A handle as AES_Create() leaves it: key and blocks are not initialised.
CfbInit ==
  /\ aes \in [Side -> Created]
  /\ left = [x \in Side |-> 0]
  /\ session = [number |-> 0, key |-> aes["sender"].key,
                salt |-> aes["sender"].blk, unset |-> Side \X {"key", "salt"}]
  /\ plain = <<>> /\ wire = <<>> /\ arrived = <<>>
  /\ trail = <<aes["sender"]>>

\* The callers agree on a key and a salt; what has not arrived by then never
\* will.
Agree(k, salt) ==
  /\ session.number < MaxSessions
  /\ \A x \in Side : left[x] = 0
  /\ session' = [number |-> session.number + 1, key |-> k, salt |-> salt,
                 unset |-> Side \X {"key", "salt"}]
  /\ plain' = <<>> /\ wire' = <<>> /\ arrived' = <<>>
  /\ trail' = <<aes["sender"]>>
  /\ UNCHANGED <<aes, left>>

\* The trail starts where the sender's handle is before its first byte.
Restart(h) == trail' = IF plain = <<>> THEN <<h>> ELSE trail

\* AES_SetKey() leaves block and position as they are.
AES_SetKey(x) ==
  /\ session.number > 0 /\ <<x, "key">> \in session.unset
  /\ aes' = [aes EXCEPT ![x].key = session.key]
  /\ session' = [session EXCEPT !.unset = @ \ {<<x, "key">>}]
  /\ Restart(aes'["sender"])
  /\ UNCHANGED <<left, plain, wire, arrived>>

AES_SetSaltOnly(x) ==
  /\ session.number > 0 /\ <<x, "salt">> \in session.unset
  /\ aes' = [aes EXCEPT ![x].blk = session.salt]
  /\ session' = [session EXCEPT !.unset = @ \ {<<x, "salt">>}]
  /\ Restart(aes'["sender"])
  /\ UNCHANGED <<left, plain, wire, arrived>>

\* AES_SetSalt() makes the salt the first block and starts with it.
AES_SetSalt(x) ==
  /\ session.number > 0 /\ <<x, "salt">> \in session.unset
  /\ aes' = [aes EXCEPT ![x].idx = -1, ![x].blk = session.salt]
  /\ session' = [session EXCEPT !.unset = @ \ {<<x, "salt">>}]
  /\ Restart(aes'["sender"])
  /\ UNCHANGED <<left, plain, wire, arrived>>

Ready(x) ==
  session.number > 0 /\ {<<x, "key">>, <<x, "salt">>} \cap session.unset = {}

\* At the end of a block, and at the start, the block becomes key stream.
Refilled(h) ==
  IF h.idx < 0 \/ h.idx > BlockLength - 1
  THEN [h EXCEPT !.crypt = Crypt(h.key, h.blk), !.idx = 0]
  ELSE h

\* The byte ch of cipher text goes into the next block to be encrypted.
Fed(h, ch) == [h EXCEPT !.blk[h.idx + 1] = ch, !.idx = @ + 1]

KeyByte(h) == h.crypt[h.idx + 1]

BeginEncrypt(len) ==
  /\ Ready("sender") /\ left["sender"] = 0
  /\ len <= Len(Text) - Len(plain)
  /\ left' = [left EXCEPT !["sender"] = len]
  /\ UNCHANGED <<aes, session, plain, wire, arrived, trail>>

BeginDecrypt(len) ==
  /\ Ready("receiver") /\ left["receiver"] = 0
  /\ len <= Len(wire) - Len(arrived)
  /\ left' = [left EXCEPT !["receiver"] = len]
  /\ UNCHANGED <<aes, session, plain, wire, arrived, trail>>

\* One byte of AES_Encrypt().
EncryptByte ==
  LET h == Refilled(aes["sender"])
      d == Text[Len(plain) + 1]
      ch == XorOf(d, KeyByte(h))
  IN  /\ left["sender"] > 0
      /\ aes' = [aes EXCEPT !["sender"] = Fed(h, ch)]
      /\ left' = [left EXCEPT !["sender"] = @ - 1]
      /\ plain' = Append(plain, d)
      /\ wire' = Append(wire, ch)
      /\ trail' = Append(trail, Fed(h, ch))
      /\ UNCHANGED <<session, arrived>>

\* One byte of AES_Decrypt().
DecryptByte ==
  LET h == Refilled(aes["receiver"])
      ch == wire[Len(arrived) + 1]
  IN  /\ left["receiver"] > 0
      /\ arrived' = Append(arrived, XorOf(ch, KeyByte(h)))
      /\ aes' = [aes EXCEPT !["receiver"] = Fed(h, ch)]
      /\ left' = [left EXCEPT !["receiver"] = @ - 1]
      /\ UNCHANGED <<session, plain, wire, trail>>

CfbNext ==
  \/ \E k \in Keys, salt \in Salts : Agree(k, salt)
  \/ \E x \in Side : AES_SetKey(x)
  \/ \E x \in Side : AES_SetSalt(x)
  \/ \E len \in Lengths : BeginEncrypt(len)
  \/ \E len \in Lengths : BeginDecrypt(len)
  \/ EncryptByte
  \/ DecryptByte

CfbSpec == CfbInit /\ [][CfbNext]_cfbVars
-----------------------------------------------------------------------------
\* What the receiver has decrypted is what the sender encrypted, in order, in
\* whatever calls either has done it and however far a handle was in its block
\* when key and salt were changed.
StreamArrives ==
  /\ Len(arrived) <= Len(plain)
  /\ \A i \in 1..Len(arrived) : arrived[i] = plain[i]
=============================================================================
