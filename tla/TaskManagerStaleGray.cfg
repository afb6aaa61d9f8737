\* Violation: a task that changes its mutexes a second time runs without locks.
SPECIFICATION Spec
CONSTANTS
    t1 = t1  t2 = t2  t3 = t3  t4 = t4  m1 = m1  m2 = m2  n1 = n1  n2 = n2
    NoTask = NoTask
    Tasks = {t1, t2}
    Mutexes = {m1, m2}
    Names = {n1, n2}
    NameOf <- Names2
    Priority <- Priority2
    InitialMutexes <- Mutexes2
    MutexLists = {{}, {m1}}
    Changing = {t1}
    Announcing = {}
    LateRestoring = {}
    DeferringStop = {t1, t2}
    MaxChanges = 2
INVARIANT ActiveDoNotConflict
