CONSTANTS
    s1 = s1
    alice = alice
    f1 = f1
    f2 = f2
    Session = {s1}
    Threads = 2
    Timeout = 1
    Account = {alice}
    NoName = NoName
    Dir = {alice}
    DirsOf <- MCDirsOf
    File = {f1, f2}
    HomeOf <- MCHome
    NoLease = NoLease
    MaxNumber = 1
SPECIFICATION FairSpec
INVARIANTS
    ExitCompletesUpdates
    LockedForAReason
    RemovesWhenUnreachable
PROPERTIES
    DrainedServerExits
