\* A client pages through listings and a trail while the wills change.
CONSTANTS
    alice = alice
    carol = carol
    Contract = Contract
    NoAccount = NoAccount
    Accounts <- MCAccounts
    Tokens = {1}
    MaxWills = 3
    MaxTime = 1
    SECONDS_PER_DAY = 1
    MAX_PERIOD_DAYS = 2
    MAX_BENEFICIARIES = 1
    MAX_GUARDIANS = 2
    MAX_GUARDIAN_WEIGHT = 2
    MAX_TOKENS = 2
    MAX_KEEPER_BOUNTY_BPS = 100
    MAX_WILLS_PER_INDEX = 3
    GUARDIAN_COOLDOWN_DAYS = 1
    CONFIRMATION_DEADLINE_BUFFER_SECONDS = 1
    Purse <- MCPurse
    CreateForms <- MCForms
    PeriodUpdates <- Nothing
    Delegates <- Nothing
    Refusals <- Willing
    GuardianLists <- Nothing
    WeightedLists <- Nothing
    None = None
    TopUps <- Nothing
    BeneficiaryLists <- Nothing
    Settings <- Nothing
    HashedShares <- Nothing
    Batches <- Nothing
    BATCH_MAX = 2
    ClonePurses <- Nothing
    Splits <- Nothing
    MAX_PAGE_SIZE = 2
    MAX_HISTORY_ENTRIES = 2
    PageLimit = 1
    MaxRecords = 4
    Queries <- MCQueries
SPECIFICATION ReadsSpec
INVARIANTS
    WalkNeverRepeats
    FinishedWalkMissesNothing
    TrailIsNewestWindow
PROPERTIES
    EntriesNeverRewritten
CHECK_DEADLOCK FALSE
