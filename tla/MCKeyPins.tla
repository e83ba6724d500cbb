----------------------------- MODULE MCKeyPins ------------------------------
(* Instances of KeyPins for TLC. *)
EXTENDS KeyPins, TLC

CONSTANTS p1, k1, k2, t1, t2

\* A peer that the properties except already tells no states apart.
KeyView ==
  <<state, disk, shown, task, vouched, misread, strayed, exposed \ (misread \cup strayed), trusted \ misread>>

KeySymmetry == Permutations({k1, k2}) \cup Permutations({t1, t2})
=============================================================================
