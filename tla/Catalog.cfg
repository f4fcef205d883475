SPECIFICATION Spec
CONSTANTS
    Events <- MCEvents
    Seeded <- MCSeeded
    Row <- MCRow
    Profiles = {n1, n2}
    Score <- MCScore
    Queries <- MCQueries
    DayLength = 2
    MaxInteger = 1000
    Nil = Nil
    o1 = o1
    o2 = o2
    n1 = n1
    n2 = n2
INVARIANTS
    EventsAreWhole
    MissesExplained
    QuietPagesAreTheList
