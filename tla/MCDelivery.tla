----------------------------- MODULE MCDelivery -----------------------------
(* Instances of Delivery for TLC. *)
EXTENDS Delivery, TLC

CONSTANTS s1, s2, m1, m2, e1, e2, e3, j1, j2

\* e1 and e2 are addressed to m1, e3 to m2.
MCTo == [e \in Envelopes |-> IF e = e3 THEN m2 ELSE m1]

\* s1 presents a token of the account that has every mailbox, s2 one of the
\* account that has m1 only.
MCOwns == [s \in Sockets |-> IF s = s1 THEN Mailboxes ELSE {m1}]

\* Interchangeable: the flushes, the sockets of one account, the envelopes of
\* one mailbox.
FaultsSymmetry ==
  Permutations({s1, s2}) \cup Permutations({e1, e2}) \cup Permutations({j1, j2})
=============================================================================
