SPECIFICATION Spec
CONSTANTS
    ann = ann
    Ann = Ann
    bob = bob
    Spellings = {ann, Ann, bob}
    Mailboxes = {ann, bob}
    Canon <- MCCanon
    Passwords = {p1, p2}
    Users = {att, org, u1, u2, u3}
    DemoAttendee = att
    DemoOrganizer = org
    Workers = {w1, w2}
    Nil = Nil
SYMMETRY MCSymmetry
INVARIANTS
    TypeOK
    OneAccountPerMailbox
    OrganizersHaveProfiles
    TokenHolderCanLogin
