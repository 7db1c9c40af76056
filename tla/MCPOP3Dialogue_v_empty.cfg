CONSTANTS
    Word = {"USER", "PASS", "STAT", "LIST", "RETR", "DELE", "NOOP", "RSET", "QUIT", "alice", "bob", "secret", "1"}
    Numeral = {"1"}
    Account = {"alice", "bob"}
    PasswordOf <- MCPasswordOf
    NoName = NoName
    EOL = EOL
    Lockstep = TRUE
    MaxWords = 2
    MaxWire = 3
SPECIFICATION Spec
INVARIANT EmptyLineIsRefused
CHECK_DEADLOCK FALSE
