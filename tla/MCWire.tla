------------------------------- MODULE MCWire -------------------------------
(***************************************************************************)
(* What goes over the wire, one part at a time: the ciphers, the hash, and *)
(* the connection to the game with its tokenizer.  job says which; the     *)
(* others stay as they are.  Keys and the beginning of the text are those  *)
(* of the appendix of FIPS-197.                                            *)
(***************************************************************************)
EXTENDS Rijndael, RijndaelFst, AesCfb, Whirlpool, BlockCiphers, Connection
CONSTANTS k1, k2
VARIABLE job

SomeSecret == [i \in 1..32 |-> i - 1]
SomeChain == [i \in 1..32 |-> (91 * i * i + 5) % 256]
SomeIV == SubSeq(SomeChain, 1, 16)
SomeText == [i \in 1..64 |-> IF i <= 16 THEN 17 * (i - 1) ELSE (i * i * i + 3 * i) % 256]
SomeBytes == [i \in 1..330 |-> (i * i * 5 + 7 * i) % 256]

\* A toy block cipher on two bytes of two bits each: a different shuffle of the
\* blocks for each key.
Toy(k, b) ==
  IF k = k1 THEN <<(b[2] + 1) % 4, (b[1] + b[2]) % 4>>
  ELSE <<(b[1] + 3) % 4, (b[2] + 2 * b[1]) % 4>>
TwoBits == [a \in 0..3 |-> [b \in 0..3 |-> a ^^ b]]
XorTwoBits(a, b) == TwoBits[a][b]
TwoHandles ==
  {[key |-> k1, idx |-> -1, blk |-> <<0, 3>>, crypt |-> <<2, 2>>],
   [key |-> k2, idx |-> -1, blk |-> <<1, 1>>, crypt |-> <<0, 1>>]}
TwoSalts == {<<0, 0>>, <<3, 1>>}
FiveBytes == <<3, 0, 1, 1, 2>>

\* Two of the keys of algorithms.cpp, and blocks as they are there and full.
\* Substitution boxes that are as irregular as the true ones.
TwoKeys == {<<64, 242, 65, 178, 105, 246, 241, 175, 99, 244, 93, 255, 14, 27, 17, 155>>,
            <<156, 86, 221, 18, 35, 193, 180, 55, 34, 67, 159, 31, 172, 255, 58, 111>>}
TwoBlocks == {<<200, 31, 77, 4, 0, 0, 0, 0>>, <<9, 250, 131, 7, 255, 64, 18, 128>>}
SomeS7(x) == (37 * x + 5 + x \div 3) % 128
SomeS9(x) == (101 * x + 77 + x \div 5) % 512
SomeCastBox(n, b) ==
  <<(n * b + 7) % 256, (b * b + n) % 256, (3 * b + 11 * n) % 256, (b * b * b + 5 * n) % 256>>
SomeMcgBox(j, b) == ((b * b + j + b \div 7) % 4) * 4 ^ j

\* The switches of tables/recvpackets.txt; lengths of payloads are cut down,
\* but for 0081 and 00B3, which do have three bytes.
SomeRpackets ==
  (<<105, 0>> :> -1) @@ (<<106, 0>> :> 3) @@ (<<107, 0>> :> -1) @@ (<<108, 0>> :> 2) @@
  (<<113, 0>> :> 3) @@ (<<115, 0>> :> 3) @@ (<<127, 0>> :> 2) @@ (<<129, 0>> :> 3) @@
  (<<146, 0>> :> 4) @@ (<<157, 9>> :> 0) @@ (<<179, 0>> :> 3)
SomeHandlers ==
  (<<105, 0>> :> "account_server_info") @@ (<<106, 0>> :> "login_error") @@
  (<<107, 0>> :> "received_characters") @@ (<<108, 0>> :> "login_error_game_login_server") @@
  (<<113, 0>> :> "received_character_ID_and_Map") @@ (<<115, 0>> :> "map_loaded") @@
  (<<129, 0>> :> "errors") @@ (<<146, 0>> :> "map_changed") @@
  (<<157, 9>> :> "received_characters") @@ (<<179, 0>> :> "switch_character")
SomeAccount == <<128, 132, 30, 0>>
\* 0xFFFF is known to nobody.
SomeMessages ==
  [account |-> {<<105, 0, 5, 0, 7>>, <<106, 0, 0>>, <<106, 0, 3>>, <<106, 0, 5>>, <<129, 0, 3>>},
   char |-> {<<107, 0, 4, 0>>, <<157, 9, 5, 0, 1>>, <<108, 0>>, <<113, 0, 1>>, <<129, 0, 3>>},
   map |-> {<<115, 0, 1>>, <<127, 0>>, <<146, 0, 2, 2>>, <<179, 0, 1>>,
            <<129, 0, 0>>, <<129, 0, 3>>, <<255, 255>>}]
SomeConfigs == {[dcOnDisconnect |-> 0, dcOnMaxReconnections |-> 1],
                [dcOnDisconnect |-> 1, dcOnMaxReconnections |-> 0]}

\* The client has quit; the connection takes no step anymore.
ConnEnded ==
  /\ config = CHOOSE c \in Configs : c.dcOnDisconnect = 0
  /\ conn = [state |-> NOT_CONNECTED, tries |-> FALSE, link |-> "none", hungUp |-> FALSE,
             wire |-> <<>>, pause |-> FALSE, rested |-> TRUE, reconnectCount |-> 0,
             no_connect |-> FALSE, server |-> TRUE, char |-> TRUE, quit |-> TRUE]
  /\ buffer = <<>> /\ mightBe = FALSE /\ step = "check" /\ due = <<>> /\ clean = TRUE

Init ==
  /\ job \in {"Rijndael", "fst", "cfb", "Whirlpool", "blocks", "connection"}
  /\ RijndaelInit /\ FstInit /\ WpInit /\ BlockInit
  /\ IF job = "connection" THEN ConnInit ELSE ConnEnded
  /\ CfbInit /\ (job = "cfb" \/ aes = [x \in Side |-> CHOOSE h \in Created : TRUE])
Next ==
  \/ /\ job = "Rijndael" /\ RijndaelNext
     /\ UNCHANGED <<job, connVars, fstVars, cfbVars, wpVars, block>>
  \/ /\ job = "fst" /\ FstNext
     /\ UNCHANGED <<job, connVars, rijndaelVars, cfbVars, wpVars, block>>
  \/ /\ job = "cfb" /\ CfbNext
     /\ UNCHANGED <<job, connVars, rijndaelVars, fstVars, wpVars, block>>
  \/ /\ job = "Whirlpool" /\ WpNext
     /\ UNCHANGED <<job, connVars, rijndaelVars, fstVars, cfbVars, block>>
  \/ /\ job = "blocks" /\ BlockNext
     /\ UNCHANGED <<job, connVars, rijndaelVars, fstVars, cfbVars, wpVars>>
  \/ /\ job = "connection" /\ ConnNext
     /\ UNCHANGED <<job, rijndaelVars, fstVars, cfbVars, wpVars, block>>

\* Both implementations compute what the standard says, in every mode that is
\* a standard one and with its padding, for all sizes of keys and blocks; and
\* the hash is the standard one, however the bits come.
CiphersAreStandard == StreamIsStandard /\ SentIsStandard /\ DigestIsStandard

\* All of them give back what they have encrypted: Rijndael in pieces of other
\* lengths and whatever the padding is, padDecrypt() with the exception stated
\* there; the ciphers of the padded packets in both directions.
CiphersComeBack == StreamComesBack /\ TextComesBack /\ BlocksComeBack

Spec ==
  /\ Init /\ [][Next]_<<job, connVars, rijndaelVars, fstVars, cfbVars, wpVars, block>>
  /\ ConnFairness
=============================================================================
