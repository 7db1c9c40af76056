CONSTANTS
    s1 = s1
    s2 = s2
    Session = {s1}
    Threads = 2
    Timeout = 1
    HandlersThrow = FALSE
SPECIFICATION FairSpec
PROPERTY SilentClientIsDropped
