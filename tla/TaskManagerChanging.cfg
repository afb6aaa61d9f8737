\* One task changes its mutexes while it runs, and after it has stopped.
SPECIFICATION FairSpec
CONSTANTS
    t1 = t1  t2 = t2  t3 = t3  t4 = t4  m1 = m1  m2 = m2  n1 = n1  n2 = n2
    NoTask = NoTask
    Tasks = {t1, t2, t3}
    Mutexes = {m1, m2}
    Names = {n1, n2}
    NameOf <- Names3
    Priority <- Priority3
    InitialMutexes <- MutexesLate
    MutexLists <- Lists
    Changing = {t1}
    Announcing = {}
    LateRestoring = {t1}
    DeferringStop = {t2}
    MaxChanges = 2
PROPERTIES IterateReturns
