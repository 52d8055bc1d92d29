\* Cloning, batches, merges and splits of up to three wills.
CONSTANTS
    alice = alice
    bob = bob
    carol = carol
    Contract = Contract
    NoAccount = NoAccount
    Accounts <- MCAccounts
    Tokens = {1}
    MaxWills = 3
    MaxTime = 2
    SECONDS_PER_DAY = 1
    MAX_PERIOD_DAYS = 2
    MAX_BENEFICIARIES = 3
    MAX_GUARDIANS = 2
    MAX_GUARDIAN_WEIGHT = 2
    MAX_TOKENS = 2
    MAX_KEEPER_BOUNTY_BPS = 100
    MAX_WILLS_PER_INDEX = 2
    GUARDIAN_COOLDOWN_DAYS = 0
    CONFIRMATION_DEADLINE_BUFFER_SECONDS = 1
    Purse <- MCPurse
    CreateForms <- NoForms
    PeriodUpdates <- NoPeriods
    Delegates <- NoDelegates
    Refusals <- Willing
    GuardianLists <- NoLists
    WeightedLists <- NoWeighted
    None = None
    TopUps <- NoTopUps
    BeneficiaryLists <- NoLists
    Settings <- NoSettings
    HashedShares <- NoHashed
    Batches <- MCBatches
    BATCH_MAX = 2
    ClonePurses <- MCClonePurses
    Splits <- MCSplits
SPECIFICATION ReshapingSpec
INVARIANTS
    AddressIndexesExact
    IndexesWithinCap
    NothingStranded
    TrailEndsInStatus
    FixedBequestsCovered
    PercentagesWhole
PROPERTIES
    ImplementsDeadMansSwitch
CHECK_DEADLOCK FALSE
