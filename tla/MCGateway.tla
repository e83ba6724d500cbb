------------------------------ MODULE MCGateway -------------------------------
(***************************************************************************)
(* One instance for TLC of the modules of the gateway and of the networks  *)
(* in front of it that share no state: the last hop with two accounts      *)
(* (Delivery), the sign-in, what is counted against a client, the mix      *)
(* nodes, the packet they peel, and the letters in it.  Their steps        *)
(* commute, so a behaviour of all is one of each: every run of one part is *)
(* explored with the others at rest.                                       *)
(***************************************************************************)
EXTENDS Delivery, SignIn, MixNode, Sphinx, Envelope, Admission, TLC

\* c1, c2 are passwords; t1, t2 handlers of the gateway that run side by side.
CONSTANTS s1, s2, m1, m2, e1, e3, p, me, c1, c2, t1, t2, a, m, v, n1, n2, n3, n4, n5

VARIABLE part       \* the part that runs

\* s1 presents a token of the account that has both mailboxes, s2 one of the
\* account that has m1 only.
MCTo == [e \in Envelopes |-> IF e = e3 THEN m2 ELSE m1]
MCOwns == [s \in Sockets |-> IF s = s1 THEN Mailboxes ELSE {m1}]

\* Packet a goes through a mix node, the others come to their exit at once.
MCPath == [x \in Packets |-> IF x = a THEN <<m, v>> ELSE <<v>>]

\* A path of each length.
MCRoutes == {SubSeq(<<n1, n2, n3, n4, n5>>, 1, nu) : nu \in 1..MaxHops}

\* The page's user has another device; one other user.
MCHandleOf == [d \in Devices |-> IF d = n3 THEN p ELSE me]
MCProviderOf == [d \in Devices |-> IF d = n2 THEN m ELSE v]

\* A client may name another one's address; one bucket of each kind.
MCClaims == {<<>>, <<n2>>}
MCKeys == {<<"http", n1>>, <<"submit", n4>>, <<"presence", me>>}

MCInit ==
  /\ part \in {"last hop", "sign-in", "mix", "packet", "letters", "counts"}
  /\ Init /\ SignInInit /\ MixInit /\ SphinxInit /\ LettersInit /\ AdmissionInit

MCNext ==
  /\ UNCHANGED part
  /\ \/ part = "last hop" /\ Next /\ UNCHANGED <<signInVars, mixVars, sphinxVars, letterVars, admissionVars>>
     \/ part = "sign-in" /\ SignInNext /\ UNCHANGED <<vars, mixVars, sphinxVars, letterVars, admissionVars>>
     \/ part = "mix" /\ MixNext /\ UNCHANGED <<vars, signInVars, sphinxVars, letterVars, admissionVars>>
     \/ part = "packet" /\ SphinxNext /\ UNCHANGED <<vars, signInVars, mixVars, letterVars, admissionVars>>
     \/ part = "letters" /\ LettersNext /\ UNCHANGED <<vars, signInVars, mixVars, sphinxVars, admissionVars>>
     \/ part = "counts" /\ AdmissionNext /\ UNCHANGED <<vars, signInVars, mixVars, sphinxVars, letterVars>>

\* The state of the part that runs; of the last hop, without what no action reads
\* and no property asks for: lost, the deliveries that sentOn rightly records, and
\* what is left of a closed socket, which Connect sets anew; of the sign-in,
\* without which handler is which.
LastHopView ==
  LET Closed == {s \in Sockets : conn[s] = "closed"} IN
  <<conn, {s \in Sockets \ Closed : isAlive[s]}, checking,
    {x \in (Sockets \ Closed) \X Mailboxes : myMbkey[x[1]] = x[2]}, subs, mbkeySockets,
    table, nextId, pushing, flush, injected,
    {x \in Envelopes \X Sockets : x[2] \in sentOn[x[1]] /\ To[x[1]] \notin Owns[x[2]]}>>

SignInView ==
  <<lockout, secretOf, sessions, deleting,
    {<<attempt[r], Cardinality({q \in Attempts : attempt[q] = attempt[r]})>> : r \in Attempts}>>

GatewayView ==
  <<part, CASE part = "last hop" -> LastHopView [] part = "sign-in" -> SignInView
            [] part = "mix" -> mixVars [] part = "packet" -> sphinxVars
            [] part = "letters" -> letterVars [] part = "counts" -> admissionVars>>

MCSpec == MCInit /\ [][MCNext]_<<part, vars, signInVars, mixVars, sphinxVars, letterVars, admissionVars>>
=============================================================================
