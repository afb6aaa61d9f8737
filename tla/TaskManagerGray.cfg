\* Two tasks change their mutexes while they run, and one when it is activated.
SPECIFICATION Spec
CONSTANTS
    t1 = t1  t2 = t2  t3 = t3  t4 = t4  m1 = m1  m2 = m2  n1 = n1  n2 = n2
    NoTask = NoTask
    Tasks = {t1, t2, t3}
    Mutexes = {m1, m2}
    Names = {n1, n2}
    NameOf <- Names3
    Priority <- Priority3
    InitialMutexes <- MutexesLate
    MutexLists <- Lists
    Changing = {t1, t2}
    Announcing = {t3}
    LateRestoring = {}
    DeferringStop = {t2}
    MaxChanges = 2
CONSTRAINT FewReports
INVARIANTS LockInv ActiveOwnUnlessGray GrayIsRescheduled TasksAreAccountedFor
