CONSTANTS
    N = 3
    Execs = {e1, e2}
    Operators = {o1}
    Scenarios <- LastMatches
    OldExec = old
    None = none
SPECIFICATION FairSpec
PROPERTIES UploadNeverWedged
