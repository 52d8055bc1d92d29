\* Do expired votes stay expired?
CONSTANTS
    alice = alice
    bob = bob
    carol = carol
    Contract = Contract
    NoAccount = NoAccount
    Accounts <- MCAccounts
    Tokens = {1}
    MaxWills = 1
    MaxTime = 6
    SECONDS_PER_DAY = 1
    MAX_PERIOD_DAYS = 2
    MAX_BENEFICIARIES = 3
    MAX_GUARDIANS = 2
    MAX_GUARDIAN_WEIGHT = 2
    MAX_TOKENS = 2
    MAX_KEEPER_BOUNTY_BPS = 100
    MAX_WILLS_PER_INDEX = 2
    GUARDIAN_COOLDOWN_DAYS = 1
    CONFIRMATION_DEADLINE_BUFFER_SECONDS = 1
    Purse <- MCPurse
    CreateForms <- MCForms
    PeriodUpdates <- MCPeriods
    Delegates <- NoDelegates
    Refusals <- Willing
    GuardianLists <- NoLists
    WeightedLists <- NoWeighted
SPECIFICATION QuorumSpec
PROPERTIES
    ExpiredVotesStayExpired
CHECK_DEADLOCK FALSE
