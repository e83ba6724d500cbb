----------------------------- MODULE MCAccounts -----------------------------
(* Instances of Accounts for TLC. *)
EXTENDS Accounts, TLC

CONSTANTS u1, u2, c1, c2, c3, d1, d2, j1, j2

\* c1 and c2 are two cards of u1, of two devices or of one; c3 is u2's.
MCOf == [c \in Clients |-> IF c = c3 THEN u2 ELSE u1]

\* The jobs, the cards of u1 and the device ids are interchangeable.
TwinSymmetry ==
  {p @@ q @@ r : p \in Permutations({j1, j2}), q \in Permutations({c1, c2}), r \in Permutations({d1, d2})}

\* No property asks for late[u] of a handle without a client, nor for stale
\* where every client's handle is late, nor for the device id of a row that is
\* gone; no action asks for them either.
AccountsView ==
  LET lateOf == [c \in Clients |-> late[Of[c]]] IN
    <<accounts, banned, sessions, [c \in devices |-> idOf[c]], memory, request, job, lateOf, stale \/ \A c \in Clients : lateOf[c]>>
=============================================================================
