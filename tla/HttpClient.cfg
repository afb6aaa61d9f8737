\* One program with one reader of each kind, on both platforms.
SPECIFICATION FairSpec
CONSTANTS
    u1 = u1  u2 = u2  u3 = u3
    Nobody = Nobody
    Urls = {u1, u2}
    Platforms = {"unix", "win32"}
    Mirrors <- TwoMirrors
    MaxPieces = 2
INVARIANTS Lifetime DataInOrder NoReaderLost
PROPERTIES NothingHangs
CHECK_DEADLOCK FALSE
