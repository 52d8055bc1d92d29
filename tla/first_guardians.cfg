\* Is the threshold of a will with guardians in range?
CONSTANTS
    alice = alice
    bob = bob
    carol = carol
    Contract = Contract
    NoAccount = NoAccount
    Accounts <- MCAccounts
    Tokens = {1}
    MaxWills = 1
    MaxTime = 2
    SECONDS_PER_DAY = 1
    MAX_PERIOD_DAYS = 2
    MAX_BENEFICIARIES = 3
    MAX_GUARDIANS = 2
    MAX_GUARDIAN_WEIGHT = 2
    MAX_TOKENS = 2
    MAX_KEEPER_BOUNTY_BPS = 100
    MAX_WILLS_PER_INDEX = 2
    GUARDIAN_COOLDOWN_DAYS = 1
    CONFIRMATION_DEADLINE_BUFFER_SECONDS = 1
    Purse <- MCPurse
    CreateForms <- MCUnguarded
    PeriodUpdates <- NoPeriods
    Delegates <- NoDelegates
    Refusals <- Willing
    GuardianLists <- MCBothLists
    WeightedLists <- NoWeighted
SPECIFICATION QuorumSpec
INVARIANTS
    ThresholdInRange
CHECK_DEADLOCK FALSE
