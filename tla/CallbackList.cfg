\* Callbacks add and remove callbacks of the list that calls them.
SPECIFICATION Spec
CONSTANTS
    c1 = c1  c2 = c2  c3 = c3  c4 = c4
    NoID = NoID
    Callbacks = {c1, c2, c3, c4}
    Owned = {c2, c3, c4}
    Adders = {c1, c2, c3, c4}
    Removers = {c1, c2, c3, c4}
INVARIANTS IDsFindItems AllCalled
PROPERTIES NobodyElseIsRemoved
