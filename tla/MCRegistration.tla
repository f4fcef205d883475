---------------------------- MODULE MCRegistration ----------------------------
(* Instances of Registration for TLC. *)
EXTENDS Registration, TLC

CONSTANTS ann, Ann, bob

\* A mailbox typed as it is stored and typed otherwise, and another mailbox.
MCCanon == ann :> ann @@ Ann :> ann @@ bob :> bob

\* Threads are interchangeable, and so are the ids of registered users.
MCSymmetry ==
    Permutations(Workers) \cup Permutations(Users \ {DemoAttendee, DemoOrganizer})
=============================================================================
