\* Guardians of one will: consent, votes, expiry, replacement.
CONSTANTS
    alice = alice
    bob = bob
    carol = carol
    Contract = Contract
    NoAccount = NoAccount
    Accounts <- MCAccounts
    Tokens = {1}
    MaxWills = 1
    MaxTime = 6
    SECONDS_PER_DAY = 1
    MAX_PERIOD_DAYS = 2
    MAX_BENEFICIARIES = 2
    MAX_GUARDIANS = 2
    MAX_GUARDIAN_WEIGHT = 2
    MAX_TOKENS = 2
    MAX_KEEPER_BOUNTY_BPS = 100
    MAX_WILLS_PER_INDEX = 2
    GUARDIAN_COOLDOWN_DAYS = 1
    CONFIRMATION_DEADLINE_BUFFER_SECONDS = 1
    Purse <- MCPurse
    CreateForms <- MCForms
    PeriodUpdates <- MCPeriods
    Delegates <- NoDelegates
    Refusals <- Willing
    GuardianLists <- MCLists
    WeightedLists <- MCWeighted
SPECIFICATION QuorumSpec
INVARIANTS
    TypeOK
    VotesOfGuardiansOnly
    VotesPostdateCooldown
    CancelRoundsStartEmpty
    TalliesBackedByRecords
    NoIdleQuorum
    DeadlineAnswersHonest
PROPERTIES
    GuardianReleaseNeedsQuorum
    VoteAnswersHonest
    ImplementsDeadMansSwitch
CHECK_DEADLOCK FALSE
