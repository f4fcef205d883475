----------------------------- MODULE MCMediaUpload -----------------------------
(* Instances of MediaUpload for TLC. *)
EXTENDS MediaUpload, TLC

CONSTANTS o1, o2, e1, e2

MCOwner == e1 :> o1 @@ e2 :> o2

\* Empty, within the limit, at it, and beyond it by one byte and by two.
MCSizes == {0, 1, 2, 3, 4}

MCSymmetry == Permutations(Workers) \cup Permutations(Paths)
=============================================================================
