CONSTANTS
    alice = alice
    bob = bob
    carol = carol
    right = right
    wrong = wrong
    h1 = h1
    h2 = h2
    byHand = byHand
    defaultDir = defaultDir
    dirA = dirA
    dirB = dirB
    MaxOptions = 2
    OptionName = {"path", "max", "path2"}
    LongName = {"path2"}
    OptionValue = {dirA, dirB}
    DefaultDir = defaultDir
    Malformed = Malformed
    Missing = Missing
    Nobody = Nobody
    Thread = {t1, t2}
    Name = {alice, bob, carol}
    Password = {right, wrong}
    NameHash <- MCNameHash
    Hash = {right, wrong}
    PasswordHash <- MCPasswordHash
    FileName = {h1, h2, byHand}
    Consumer <- MCConsumer
    Document <- MCDocument
SPECIFICATION Spec
INVARIANTS
    TypeOK
    ProvisionedCanLogOn
    AnswersFromOwnRecord
PROPERTY
    LogonSpec
SYMMETRY MCSymmetry
