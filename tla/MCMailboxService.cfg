CONSTANTS
    s1 = s1
    s2 = s2
    s3 = s3
    alice = alice
    bob = bob
    inbox = inbox
    work = work
    f1 = f1
    f2 = f2
    f3 = f3
    NoName = NoName
    NoLease = NoLease
    Session = {s1, s2}
    Account = {alice, bob}
    Dir = {inbox, work, bob}
    DirsOf <- MCDirsOf
    File = {f1, f2, f3}
    HomeOf <- MCHomeOf
    MaxNumber = 1
SPECIFICATION FairSpec
INVARIANTS
    TypeOK
    LockTableExact
    UpdateIsAllOrNothing
    VanishesOnlyOnRequest
PROPERTIES
    LeaseSpec
    BusyOnlyWhileServed
    CloseCompletes
CHECK_DEADLOCK FALSE
