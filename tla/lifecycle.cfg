\* One will through every order of check-ins, period changes, triggers and releases, with keepers who call.
CONSTANTS
    alice = alice
    bob = bob
    carol = carol
    Contract = Contract
    NoAccount = NoAccount
    Accounts <- MCAccounts
    Tokens = {1, 2}
    MaxWills = 1
    MaxTime = 6
    SECONDS_PER_DAY = 1
    MAX_PERIOD_DAYS = 2
    MAX_BENEFICIARIES = 2
    MAX_GUARDIANS = 2
    MAX_GUARDIAN_WEIGHT = 2
    MAX_TOKENS = 2
    MAX_KEEPER_BOUNTY_BPS = 100
    MAX_WILLS_PER_INDEX = 2
    GUARDIAN_COOLDOWN_DAYS = 1
    CONFIRMATION_DEADLINE_BUFFER_SECONDS = 1
    Purse <- MCPurse
    CreateForms <- MCForms
    PeriodUpdates <- MCPeriods
    Delegates <- MCDelegates
    Refusals <- Refusing
SPECIFICATION FairLifecycle
INVARIANTS
    TriggerTimeIsTheMissedDeadline
    TriggeredIndexExact
    TrailEndsInStatus
PROPERTIES
    ImplementsDeadMansSwitch
    TriggeredResolves
    MissedCheckinIsNoticed
CHECK_DEADLOCK FALSE
