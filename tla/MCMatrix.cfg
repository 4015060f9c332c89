CONSTANTS
    Users = {sponsor, maintainer, contributor}
    Sponsor = sponsor
    Maintainer = maintainer
    Contributor = contributor
    DefaultKey = defaultKey
    ZeroRef = "zero"
    Refs = {"zero", "release", "refund", "cancel"}
    Amounts = {}
    Maintainers = {}
    Contributors = {}
    Supply <- MCSupply
    None = none
    Amount = 2
    Flows = {"release", "refund", "cancel"}
    ReleaseLead = 3
    RefundLead = 1
    MaxTime = 3
    MaxPolls = 1
    Faults = {"throw", "lag", "drop", "fork", "write"}
SPECIFICATION MatrixFairSpec
PROPERTIES RunEnds
INVARIANTS CompleteMeansSettled VerifiedBeforeNext ReceiptCoversEverySend FailedHadNoEffect
CHECK_DEADLOCK FALSE
