\* Every size of key and block; texts of one to three blocks; a hash of up to
\* two buffers.  Words of three bits for Turtle: boxes of eight entries.
\* A client that logs in through three servers, which say what they like.
SPECIFICATION Spec
CONSTANTS
    k1 = k1  k2 = k2
    KeyLengths = {16, 24, 32}
    BlockSizes = {16, 24, 32}
    Secret <- SomeSecret
    FirstChain <- SomeChain
    Message <- SomeText
    KeyBits = {128, 192, 256}
    FstSecret <- SomeSecret
    FirstIV <- SomeIV
    FstText <- SomeText
    Bits = {200, 256}
    Octets = {1, 16, 23, 32}
    Bytes256 = {0, 1, 2, 3}
    BlockLength = 2
    Crypt <- Toy
    XorOf <- XorTwoBits
    Keys = {k1, k2}
    Salts <- TwoSalts
    Created <- TwoHandles
    Text <- FiveBytes
    Lengths = {1, 2, 3}
    MaxSessions = 2
    Source <- SomeBytes
    Adds = {8, 13, 248, 504}
    MaxAdds = 3
    S7 <- SomeS7
    S9 <- SomeS9
    CastBox <- SomeCastBox
    McgBox <- SomeMcgBox
    TurtleBits = 3
    BlockKeys <- TwoKeys
    PlainBlocks <- TwoBlocks
    Rpackets <- SomeRpackets
    AccountID <- SomeAccount
    HandlerOf <- SomeHandlers
    Says <- SomeMessages
    ManyBlocks = 5
    Configs <- SomeConfigs
    MaxBytes = 5
    MaxGreeted = 7
    MaxStale = 3
INVARIANTS CiphersAreStandard CiphersComeBack StreamArrives MessagesAreWhole
PROPERTIES SparesAccountServer TriesAgain
CHECK_DEADLOCK FALSE
