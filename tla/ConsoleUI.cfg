\* Two threads that print three messages, and two lines or ends of the input.
\* A program may stop and not start the console again.
SPECIFICATION Spec
CONSTANTS
    c1 = c1  c2 = c2
    Clients = {c1, c2}
    MaxPrints = 3
    MaxKeys = 2
INVARIANTS MessagesInOrder
PROPERTIES WaitedForAll CallsReturn
CHECK_DEADLOCK FALSE
