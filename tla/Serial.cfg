SPECIFICATION Spec
CONSTANTS
    Attendees = {a1, a2}
    Organizers = {o1, o2}
    Events = {upcoming, past, e1}
    Requests = {seeded, r1, r2}
    Needs = {n1}
    Workers = {w1}
    Windows <- MCWindows
    MaxTime = 2
    SeedAttendee = a1
    SeedOrganizer = o1
    SeedNeeds = n1
    UpcomingEvent = upcoming
    PastEvent = past
    PastRequest = seeded
    Nil = Nil
SYMMETRY MCSymmetry
INVARIANT
    OneActiveRequest
PROPERTY
    ImplementsContract
