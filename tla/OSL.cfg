\* One socket, its buffered and thread-safe streams, and two threads.
SPECIFICATION Spec
CONSTANTS
    main = main  worker = worker  Nobody = Nobody
    Platforms = {"unix", "win32"}
    Sizes = {1, 2}
    MaxBytes = 2
INVARIANTS UsedAreAlive NothingLeaks BytesInOrder
