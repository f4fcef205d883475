SPECIFICATION FairPoolSpec
CONSTANTS
    Calls <- MCCalls
    Kind <- MCKind
    Threads = 2
    db_pool_size = 1
    db_max_overflow = 1
    read = read
    answer = answer
    publish = publish
    register = register
    health = health
INVARIANTS
    StandstillNeedsLoad
PROPERTIES
    TurnedAwayUnderLoad
    Answered
