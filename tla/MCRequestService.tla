-------------------------- MODULE MCRequestService --------------------------
(* Instances of RequestService for TLC. *)
EXTENDS RequestService, TLC

\* No event besides the seeded ones is published.
MCNoWindows == {}

\* An event to come and one that is running.
MCWindows == {<<0, 1>>, <<1, 2>>}

\* Threads, and ids of requests the API may create, are interchangeable.
MCSymmetry == Permutations(Workers) \cup Permutations(Requests \ {PastRequest})
=============================================================================
