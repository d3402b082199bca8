CONSTANTS
    setup = setup
    a = a
    b = b
    c = c
    ka = ka
    kb = kb
    kc = kc
    None = None
    URLs = {setup, a, b}
    Setup = setup
    Keys = {ka, kb}
    Key <- TwoKeys
    Docs <- FewerDocs
    Answers <- BufferedAnswers
    MaxChanges = 2
SPECIFICATION FairSpec
PROPERTY GetsDocument
\* A loop that has stopped waits for the end of the process.
CHECK_DEADLOCK FALSE
