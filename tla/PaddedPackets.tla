--------------------------- MODULE PaddedPackets ---------------------------
(* Padded packets (PaddedPackets/engine.cpp, block.cpp, PaddedPackets.xs):  *)
(* the keys of a request - whom to attack, which skill - lie in a packet at *)
(* distances that only someone who knows the two sync values and the        *)
(* account can work out.  One engine serves the whole program: it is told   *)
(* the sync values as they come, builds packets, and takes apart the ones   *)
(* a game client built.                                                     *)
(*                                                                          *)
(* A byte of a packet is a tuple: <<"key", k, b>> is byte b of the key k,   *)
(* <<"type", t, b>> and <<"length", n, 0>> are the header, and a byte of    *)
(* padding is <<"pad", 0, 0>>.                                              *)
EXTENDS Integers, Sequences, SequencesExt

CONSTANTS Funcs(_, _), \* the sixteen ciphers: slot and value to hash
          WordSize,    \* bytes of a dword: 4
          BufferSize,  \* PPENGINE_BUFSIZE
          Syncs,       \* sync values and account ids
          Targets,     \* whom a request may be about
          SkillUses,   \* skill, level and target of the skills used
          Ids,         \* pairs of packet ids, for sitting and for skills
          MaxPackets   \* packets built

VARIABLES engine,       \* Engine: syncs, account, buffer and the two blocks
          lastTargetId, \* whom the next sit or stand request is about
          ids,          \* sitPacketID and skillPacketID
          packet,       \* the last packet built, how, and with which keys
          decoded,      \* keys the last packet was taken apart into, if it was
          built         \* packets built so far

packetVars == <<engine, lastTargetId, ids, packet, decoded, built>>

Pad      == <<"pad", 0, 0>>
Cells    == 0..(BufferSize - 1)
NoPacket == [bytes |-> <<>>, keys |-> <<>>, knowing |-> <<>>]
Undecoded     == [keys |-> <<>>, right |-> FALSE]

-----------------------------------------------------------------------------
(* Block: dwords with room for some more.  At the end of its room a block   *)
(* grows instead of taking the dword, and keeps only as many bytes as it    *)
(* has room for dwords now.                                                 *)
EmptyBlock == [items |-> <<>>, room |-> 5]

AddTo(block, data) ==
    IF Len(block.items) = block.room - 1
    THEN LET kept == (block.room + 10) \div WordSize
         IN  [room |-> block.room + 10,
              items |-> [i \in DOMAIN block.items |->
                           IF i <= kept THEN block.items[i] ELSE 0]]
    ELSE [block EXCEPT !.items = Append(@, data)]

AddAll(block, data) ==
    LET added[n \in 0..Len(data)] == IF n = 0 THEN block ELSE AddTo(added[n - 1], data[n])
    IN  added[Len(data)]

Cleared(block) == [block EXCEPT !.items = <<>>]

-----------------------------------------------------------------------------
(* createHash: which cipher, and of what, follows from the syncs, the       *)
(* account and the type.                                                    *)
CreateHash(map_sync, sync, account_id, type) ==
    Funcs((type * type + map_sync + sync + account_id) % 16,
          type * account_id + map_sync * sync)

Hash(e, type) == CreateHash(e.serverMapSync, e.clientSync, e.clientAccId, type)

SyncValues == {0} \cup Syncs
Types      == {137, 275} \cup UNION {{pair[1], pair[2]} : pair \in Ids}

(* Dwords of 32 bits, and a buffer into which three keys fit. *)
ASSUME PacketsAssumption ==
    /\ WordSize = 4 /\ BufferSize \in Nat /\ BufferSize >= 130
    /\ Targets \subseteq Nat /\ SkillUses \subseteq Nat \X Nat \X Nat
    /\ \A map_sync, sync, account_id \in SyncValues, type \in Types :
          CreateHash(map_sync, sync, account_id, type) \in Int

(* The sum of intCtr * pass and of hashData less an offset, in a dword,     *)
(* modulo 0x27.  A dword wraps around at 2 to the 32, which is 22 modulo    *)
(* 0x27 (2 to the 64 is 16).                                                *)
Magic(pass, hashData, offset) ==
    LET sum == (5 + 3 * pass) * pass + hashData - offset
    IN  (IF sum >= 0 THEN sum ELSE sum + (IF WordSize = 4 THEN 22 ELSE 16)) % 39

(* Where the key of each pass ends: four bytes and the padding further. *)
EndOf(pass, hashData, offset) ==
    LET end[p \in 0..pass] ==
            4 + Magic(p, hashData, offset) + IF p = 0 THEN 4 ELSE end[p - 1]
    IN  end[pass]

(* A dword is stored just before the end, its lowest byte first; of a dword *)
(* of eight bytes only the lower four are told apart.                       *)
Stored(buffer, end, key) ==
    [i \in Cells |-> IF i \in (end - WordSize)..(end - 1)
                     THEN <<"key", key, i - (end - WordSize)>> ELSE buffer[i]]

(* One of the six times: the key of each pass is changed by it. *)
Offsets == <<15, 14, 12, 9, 5, 0>>
Written(buffer, keys, hashData, iter) ==
    LET after[n \in 0..Len(keys)] ==
            IF n = 0 THEN buffer
            ELSE Stored(after[n - 1], EndOf(n - 1, hashData, Offsets[iter + 1]), keys[n] + iter - 5)
    IN  after[Len(keys)]

(* Mutant: the last time is forgotten. *)
WrittenFiveTimes(buffer, keys, hashData) ==
    LET times[n \in 0..5] ==
            IF n = 0 THEN buffer ELSE Written(times[n - 1], keys, hashData, n - 1)
    IN  times[5]

(* encode: the keys are written six times over, each time elsewhere and     *)
(* only the last time unchanged; what remains of the others is padding.     *)
WrittenOver(buffer, keys, hashData) ==
    LET times[n \in 0..6] ==
            IF n = 0 THEN buffer ELSE Written(times[n - 1], keys, hashData, n - 1)
    IN  times[6]

Encoded(e, type) ==
    LET keys   == e.inputKeys.items
        buffer == WrittenOver(e.pktBuffer, keys, Hash(e, type))
        length == IF keys = <<>> THEN 4 ELSE EndOf(Len(keys) - 1, Hash(e, type), 0)
    IN  [e EXCEPT !.pktBuffer = [buffer EXCEPT ![0] = <<"type", type, 0>>,
                                               ![1] = <<"type", type, 1>>,
                                               ![2] = <<"length", length % 256, 0>>],
                  !.inputKeys = Cleared(@)]

(* What is read back where a key ends, or would end, for a wrong hash may   *)
(* point behind the packet: getKey returns the lower four bytes.            *)
Unreadable == -1
ReadBack(bytes, end) ==
    LET Byte(b) == LET i == end - WordSize + 1 + b
                   IN  IF i <= Len(bytes) THEN bytes[i] ELSE Pad
        key == Byte(0)[2]
    IN  IF \A b \in 0..3 : Byte(b) = <<"key", key, b>> THEN key ELSE Unreadable

(* decode: reads the type from the packet, and as many keys as asked. *)
Decoded(block, bytes, keys, hashData) ==
    AddAll(block, [n \in 1..keys |-> ReadBack(bytes, EndOf(n - 1, hashData, 0))])

-----------------------------------------------------------------------------
PacketInit ==
    /\ engine = [serverMapSync |-> 0, clientSync |-> 0, clientAccId |-> 0,
                 pktBuffer |-> [i \in Cells |-> Pad],
                 inputKeys |-> EmptyBlock, outputKeys |-> EmptyBlock]
    /\ lastTargetId = 0
    /\ ids = <<137, 275>>
    /\ packet = NoPacket
    /\ decoded = Undecoded
    /\ built = 0

SetMapSync(v) ==
    /\ engine' = [engine EXCEPT !.serverMapSync = v]
    /\ UNCHANGED <<lastTargetId, ids, packet, decoded, built>>

SetSync(v) ==
    /\ engine' = [engine EXCEPT !.clientSync = v]
    /\ UNCHANGED <<lastTargetId, ids, packet, decoded, built>>

SetAccountId(v) ==
    /\ engine' = [engine EXCEPT !.clientAccId = v]
    /\ UNCHANGED <<lastTargetId, ids, packet, decoded, built>>

SetPacketIDs(sitAndSkill) ==
    /\ ids' = sitAndSkill
    /\ UNCHANGED <<engine, lastTargetId, packet, decoded, built>>

(* setPacket: a packet of the client's is padding for the ones to come. *)
SetPacket(length, targetId) ==
    /\ engine' = [engine EXCEPT !.pktBuffer =
                     [i \in Cells |-> IF i < length THEN Pad ELSE @[i]]]
    /\ lastTargetId' = targetId
    /\ UNCHANGED <<ids, packet, decoded, built>>

Knowing(e) == <<e.serverMapSync, e.clientSync, e.clientAccId>>

Create(type, keys) ==
    LET e == [engine EXCEPT !.inputKeys = AddAll(@, keys)]
        length == EndOf(Len(e.inputKeys.items) - 1, Hash(e, type), 0)
    IN  /\ built < MaxPackets /\ built' = built + 1
        /\ engine' = Encoded(e, type)
        /\ packet' = [bytes |-> [i \in 1..length |-> engine'.pktBuffer[i - 1]],
                      keys |-> keys, knowing |-> Knowing(engine)]
        /\ decoded' = Undecoded
        /\ UNCHANGED ids

CreateSitStand(sit) ==
    /\ Create(ids[1], <<lastTargetId, IF sit THEN 2 ELSE 3>>)
    /\ lastTargetId' = 0

CreateAtk(targetId) ==
    /\ Create(ids[1], <<targetId, 7>>)
    /\ UNCHANGED lastTargetId

CreateSkillUse(skillId, skillLv, targetId) ==
    /\ Create(ids[2], <<skillLv, skillId, targetId>>)
    /\ UNCHANGED lastTargetId

(* decodePacket, with getKey for each key. *)
DecodePacket(keyCount) ==
    /\ packet # NoPacket /\ keyCount <= Len(packet.keys)
    /\ LET type  == packet.bytes[1][2]
           block == Decoded(Cleared(engine.outputKeys), packet.bytes, keyCount, Hash(engine, type))
       IN  /\ engine' = [engine EXCEPT !.outputKeys = block]
           /\ decoded' = [keys |-> block.items,
                          right |-> Knowing(engine) = packet.knowing]
    /\ UNCHANGED <<lastTargetId, ids, packet, built>>

PacketNext ==
    \/ \E v \in Syncs : SetMapSync(v)
    \/ \E v \in Syncs : SetSync(v)
    \/ \E v \in Syncs : SetAccountId(v)
    \/ \E pair \in Ids : SetPacketIDs(pair)
    \/ \E t \in Targets : SetPacket(20, t)
    \/ \E sit \in BOOLEAN : CreateSitStand(sit)
    \/ \E t \in Targets : CreateAtk(t)
    \/ \E use \in SkillUses : CreateSkillUse(use[1], use[2], use[3])
    \/ \E n \in 1..3 : DecodePacket(n)

PacketSpec == PacketInit /\ [][PacketNext]_packetVars

(* Whoever knows the sync values and the account of the packet reads from   *)
(* it the keys that went in, whatever the buffer held before and wherever   *)
(* the hash puts them (Engine::encode against Engine::decode).              *)
KeysComeBack ==
    decoded.right => IsPrefix(decoded.keys, packet.keys) /\ decoded.keys # <<>>
=============================================================================
