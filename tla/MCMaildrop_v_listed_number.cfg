CONSTANTS
    f1 = f1
    f2 = f2
    f3 = f3
    f4 = f4
    File = {f1, f2}
    StorageNo = 1
    HomeOf <- MCHome
    MaxNumber = 3
SPECIFICATION Spec
INVARIANT ListedNumberResolves
