CONSTANTS
    Word = {"USER", "PASS", "RETR", "alice", "bob", "secret"}
    Numeral = {"secret"}
    Account = {"alice", "bob"}
    PasswordOf <- MCPasswordOf
    NoName = NoName
    EOL = EOL
    Lockstep = FALSE
    MaxWords = 2
    MaxWire = 3
SPECIFICATION Spec
INVARIANTS
    OwnMaildropOnly
    ParametersMatchCommands
CHECK_DEADLOCK FALSE
