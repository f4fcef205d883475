---------------------------- MODULE MCNeedProfile ----------------------------
(* Instances of NeedProfile for TLC. *)
EXTENDS NeedProfile, TLC

\* Threads are interchangeable; columns are not, each is a property of its own.
MCSymmetry == Permutations(Workers)
=============================================================================
