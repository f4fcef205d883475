SPECIFICATION FairSpec
CONSTANTS
    Attendees = {a1}
    Organizers = {o1}
    Events = {upcoming, past}
    Requests = {seeded, r1}
    Needs = {n1}
    Workers = {w1, w2}
    Windows <- MCNoWindows
    MaxTime = 1
    SeedAttendee = a1
    SeedOrganizer = o1
    SeedNeeds = n1
    UpcomingEvent = upcoming
    PastEvent = past
    PastRequest = seeded
    Nil = Nil
PROPERTIES
    Settles
    OverIsVerified
