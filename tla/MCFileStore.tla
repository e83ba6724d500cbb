---------------------------- MODULE MCFileStore -----------------------------
(* Instances of FileStore for TLC. *)
EXTENDS FileStore

CONSTANTS f1, f2

\* Each fits the quota of 2 by itself, and not with the other.
MCSize == [i \in Ids |-> IF i = f1 THEN 1 ELSE 2]
=============================================================================
