\* Hooks that add, delete and call hooks of their own event while they are called.
SPECIFICATION Spec
CONSTANTS
    h1 = h1  h2 = h2  h3 = h3  h4 = h4
    NoIndex = NoIndex
    Entries = {h1, h2, h3, h4}
    MaxDepth = 2
INVARIANTS ListInStep HandleFindsEntry AllCalled
PROPERTIES NotCalledAnymore
