CONSTANTS
    s1 = s1
    s2 = s2
    s3 = s3
    alice = alice
    bob = bob
    inbox = inbox
    work = work
    f1 = f1
    f2 = f2
    f3 = f3
    NoName = NoName
    NoLease = NoLease
    Session = {s1, s2}
    Account = {alice}
    Dir = {inbox}
    DirsOf <- MCOneDirOf
    File = {f1, f2}
    HomeOf <- MCHomeInbox
    MaxNumber = 1
SPECIFICATION Spec
INVARIANT ExclusiveMaildrop
CHECK_DEADLOCK FALSE
