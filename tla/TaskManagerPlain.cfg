\* Four tasks whose mutexes never change: Task::SitStand, Wait, Move and the like.
SPECIFICATION FairSpec
CONSTANTS
    t1 = t1  t2 = t2  t3 = t3  t4 = t4  m1 = m1  m2 = m2  n1 = n1  n2 = n2
    NoTask = NoTask
    Tasks = {t1, t2, t3, t4}
    Mutexes = {m1, m2}
    Names = {n1, n2}
    NameOf <- Names4
    Priority <- Priority4
    InitialMutexes <- Mutexes4
    MutexLists = {}
    Changing = {}
    Announcing = {}
    LateRestoring = {}
    DeferringStop = {t2, t4}
    MaxChanges = 0
INVARIANTS ActiveDoNotConflict
PROPERTIES StatusContracts StoppedIsLetGo HighestRuns ImplementsScheduling
