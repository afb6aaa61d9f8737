-------------------------- MODULE MessageTokenizer --------------------------
(***************************************************************************)
(* Network/MessageTokenizer.pm: bytes are added as they come, and the next *)
(* message is cut off as soon as all of it is there.  A message begins     *)
(* with its switch, two bytes that say how long it is or that its length   *)
(* is stated in the next two.  Bytes are numbers.                          *)
(***************************************************************************)
EXTENDS Integers, Sequences

CONSTANTS Rpackets,   \* the length of each switch that is known; 0 or -1: stated
          AccountID   \* the four bytes a game server may greet with

ASSUME TokenizerAssumption ==
    /\ \A switch \in DOMAIN Rpackets : Len(switch) = 2 /\ Rpackets[switch] \in Int
    /\ AccountID \in Seq(0..255) /\ Len(AccountID) = 4

VARIABLES buffer,     \* bytes that have arrived and are not read
          mightBe     \* nextMessageMightBeAccountID

Switch(bytes) == <<bytes[1], bytes[2]>>
Stated(bytes) == bytes[3] + 256 * bytes[4]
Known(bytes) ==
    /\ Switch(bytes) \in DOMAIN Rpackets
    /\ Rpackets[Switch(bytes)] > 1 \/ Rpackets[Switch(bytes)] \in {0, -1}

\* The length of the message at the beginning of the bytes; nothing can be said
\* of a variable one before the bytes that state it are there.
MessageLength(bytes) ==
    CASE ~Known(bytes) -> Len(bytes)
      [] Known(bytes) /\ Rpackets[Switch(bytes)] > 1 -> Rpackets[Switch(bytes)]
      [] OTHER -> IF Len(bytes) >= 4 THEN Stated(bytes) ELSE Len(bytes) + 1

Undef(mark) == [type |-> "none", message |-> << >>, buffer |-> buffer, mark |-> mark]
Cut(type, n) ==
    [type |-> type, message |-> SubSeq(buffer, 1, n),
     buffer |-> SubSeq(buffer, n + 1, Len(buffer)), mark |-> FALSE]

ReadUnmarked ==
    IF Len(buffer) >= MessageLength(buffer)
      THEN Cut(IF Known(buffer) THEN "known" ELSE "unknown", MessageLength(buffer))
      ELSE Undef(FALSE)

\* readNext(): what it returns, and the buffer and the mark it leaves.
ReadNext ==
    CASE Len(buffer) < 2 -> Undef(mightBe)
      [] Len(buffer) \in 2..3 /\ mightBe -> Undef(TRUE)
      [] Len(buffer) >= 4 /\ mightBe /\ SubSeq(buffer, 1, 4) = AccountID -> Cut("account ID", 4)
      [] OTHER -> ReadUnmarked
=============================================================================
