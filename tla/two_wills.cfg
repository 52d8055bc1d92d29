\* The money of two wills: refusals, retries, cancellation, archive.
CONSTANTS
    alice = alice
    bob = bob
    carol = carol
    Contract = Contract
    NoAccount = NoAccount
    Accounts <- MCAccounts
    Tokens = {1}
    MaxWills = 2
    MaxTime = 3
    SECONDS_PER_DAY = 1
    MAX_PERIOD_DAYS = 2
    MAX_BENEFICIARIES = 3
    MAX_GUARDIANS = 2
    MAX_GUARDIAN_WEIGHT = 2
    MAX_TOKENS = 2
    MAX_KEEPER_BOUNTY_BPS = 100
    MAX_WILLS_PER_INDEX = 2
    GUARDIAN_COOLDOWN_DAYS = 1
    CONFIRMATION_DEADLINE_BUFFER_SECONDS = 1
    Purse <- TwinPurse
    CreateForms <- MCBequests
    PeriodUpdates <- NoPeriods
    Delegates <- NoDelegates
    Refusals <- Refusing
    GuardianLists <- NoLists
    WeightedLists <- NoWeighted
    None = None
    TopUps <- OneTopUp
    BeneficiaryLists <- NoLists
    Settings <- NoSettings
    HashedShares <- NoHashed
SPECIFICATION EstateSpec
INVARIANTS
    NothingStranded
    AddressIndexesExact
    ActiveCountExact
    OwnerStatsAddUp
PROPERTIES
    ImplementsDeadMansSwitch
CHECK_DEADLOCK FALSE
