---------------------------- MODULE MCTransport -----------------------------
(* Instances of Transport for TLC: the .cfg files give every constant. *)
EXTENDS Transport
=============================================================================
