SPECIFICATION FairSpec
CONSTANTS
    t1 = t1
    t2 = t2
    t3 = t3
    Threads = {t1, t2, t3}
    NoThread = NoThread
    Calls <- MCCalls
    InitialCount = 0
    MaxCount = 3
INVARIANT TypeOK
INVARIANT MutexHeld
INVARIANT NoLostWakeup
PROPERTY ImplementsAbstract
PROPERTY SleeperWakes
