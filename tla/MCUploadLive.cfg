CONSTANTS
    N = 2
    Execs = {e1, e2}
    Operators = {o1}
    Scenarios <- NoFaults
    OldExec = old
    None = none
SPECIFICATION FairSpec
PROPERTIES UploadNeverWedged
