CONSTANTS
    f1 = f1
    f2 = f2
    f3 = f3
    f4 = f4
    File = {f1, f2, f3, f4}
    StorageNo = 2
    HomeOf <- MCHome
    MaxNumber = 3
SPECIFICATION Spec
INVARIANTS
    TypeOK
    MarksSound
    RemovesWhatWasAcknowledged
    DeletedIsNotServed
    CountMatchesListing
    NumbersMatchCount
PROPERTY PromiseSpec
