SPECIFICATION Spec
CONSTANTS
    Attendees = {a1, a2}
    Events = {past, soon, later}
    Event <- MCEvent
    Requests = {seeded, r1, r2, r3}
    Seeded = seeded
    SeedAttendee = a1
    SeedEvent = past
    Views <- MCViews
    RecentRequestsLimit = 2
    MaxTime = 3
    Nil = Nil
    a1 = a1
    a2 = a2
    o1 = o1
    o2 = o2
    past = past
    soon = soon
    later = later
    seeded = seeded
    r1 = r1
    r2 = r2
    r3 = r3
CONSTRAINT MCBound
SYMMETRY MCSymmetry
INVARIANTS
    TypeOK
    PagesExplained
    FiguresAddUp
    QuietDashboardIsOnePicture
    DashboardAnswers
