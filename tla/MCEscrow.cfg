CONSTANTS
    a = a
    b = b
    r = r
    Users = {a, b}
    DefaultKey = defaultKey
    ZeroRef = zero
    Refs = {zero, r}
    Amounts = {0, 1}
    Maintainers <- MCMaintainers
    Contributors <- MCContributors
    MaxTime = 2
    InitialTokens = 2
    Supply <- MCSupply
SPECIFICATION FairSpec
INVARIANTS VaultSolvent SettledAtMostOnce PayoutFollowsTerms
PROPERTIES VaultDebitIsSettlement ImplementsIdeal FundedEventuallySettled
