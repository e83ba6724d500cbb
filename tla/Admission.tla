------------------------------ MODULE Admission ------------------------------
(***************************************************************************)
(* What the gateway counts against a client before it serves it            *)
(* (apps/server/server.js, util.js): connections per address, and the      *)
(* token buckets of addresses, sockets and accounts, behind the proxies    *)
(* that append to X-Forwarded-For.                                         *)
(*                                                                         *)
(* Time is a count of ticks; a bucket's key is <<limiter, who>>.           *)
(***************************************************************************)
EXTENDS Integers, Sequences, FiniteSets

CONSTANTS
  Clients,      \* their own addresses
  Proxy,        \* the address of our proxies
  Hops,         \* CFG.trustedProxyHops: how many they are
  Claims,       \* what a client may send as X-Forwarded-For itself
  Conns,        \* connections at once (a bound)
  Accounts,     \* signed-in accounts
  MaxConnPerIp, \* CFG.maxConnPerIp (20)
  Keys,         \* the buckets that are followed
  Capacity,     \* of a bucket
  Refill,       \* tokens that a tick brings
  IdleTicks,    \* a bucket untouched for longer is swept (600 s)
  Costs         \* what a request may cost: 1, 4, or one for each handle

Addresses == Clients \cup {Proxy}

\* Every limiter refills within the ten minutes: 12 tokens at 0.15/s, 60 at 0.5/s.
ASSUME AdmissionAssumption ==
  /\ Hops \in Nat /\ Claims \subseteq Seq(Addresses) /\ MaxConnPerIp \in Nat \ {0}
  /\ Capacity \in Nat /\ Refill \in Nat /\ IdleTicks \in Nat /\ Costs \subseteq Nat
  /\ IsFiniteSet(Conns)
  /\ Capacity <= Refill * IdleTicks

VARIABLES
  connPerIp,    \* the count of each address, 0 for no entry
  links,         \* links[s]: [state, of, ip]
  buckets,      \* buckets[k]: [tokens, idle], or Unused
  budget        \* history: the tokens of a bucket that is never swept

admissionVars == <<connPerIp, links, buckets, budget>>

NoConn(client) == [state |-> "none", of |-> client, ip |-> client]
Unused == [tokens |-> Capacity, idle |-> -1]

AdmissionInit ==
  /\ connPerIp = [a \in Addresses |-> 0]
  /\ links = [s \in Conns |-> NoConn(Proxy)]
  /\ buckets = [k \in Keys |-> Unused] /\ budget = [k \in Keys |-> Capacity]

-----------------------------------------------------------------------------
(* util.js                                                                 *)

originAllowed(origin) == origin # "elsewhere"

\* Each proxy appends the address that it was called from.
Forwarded(client, claim) == claim \o [n \in 1..Hops |-> IF n = 1 THEN client ELSE Proxy]
Direct(client) == IF Hops = 0 THEN client ELSE Proxy

\* (For the mutants: the first entry.)
clientIpFirst(direct, parts) == IF Hops = 0 \/ parts = <<>> THEN direct ELSE parts[1]

clientIp(direct, parts) ==
  IF Hops = 0 \/ Len(parts) < Hops THEN direct ELSE parts[Len(parts) - Hops + 1]

IpOf(client, claim) == clientIp(Direct(client), Forwarded(client, claim))

tryAcquireConn(ip) == connPerIp[ip] + 1 <= MaxConnPerIp
releaseConn(ip) == [connPerIp EXCEPT ![ip] = IF @ = 0 THEN 0 ELSE @ - 1]

\* rateLimiter: refill what the idle time brought, then charge if it is enough.
Capped(n) == IF n > Capacity THEN Capacity ELSE n
Refilled(b) == IF b = Unused THEN Capacity ELSE Capped(b.tokens + b.idle * Refill)
Left(tokens, cost) == IF tokens < cost THEN tokens ELSE tokens - cost
Allows(k, cost) == k \in Keys => Refilled(buckets[k]) >= cost

\* charges[k]: what a request costs bucket k, of those that it comes to.
take(charges) ==
  /\ buckets' = [k \in Keys |-> IF k \notin DOMAIN charges THEN buckets[k]
                   ELSE [tokens |-> Left(Refilled(buckets[k]), charges[k]), idle |-> 0]]
  /\ budget' = [k \in Keys |-> IF k \notin DOMAIN charges THEN budget[k] ELSE Left(budget[k], charges[k])]

\* The interval of 5 minutes takes every idle bucket at once.
sweepBuckets ==
  /\ buckets' = [k \in Keys |-> IF buckets[k].idle > IdleTicks THEN Unused ELSE buckets[k]]
  /\ UNCHANGED <<connPerIp, links, budget>>

\* A bucket that is full again shows no difference by waiting on.
secondPasses ==
  /\ buckets' = [k \in Keys |-> IF buckets[k] = Unused \/ buckets[k].idle > IdleTicks THEN buckets[k]
                   ELSE [buckets[k] EXCEPT !.idle = @ + 1]]
  /\ budget' = [k \in Keys |-> Capped(budget[k] + Refill)]
  /\ UNCHANGED <<connPerIp, links>>

-----------------------------------------------------------------------------
(* server.js                                                               *)

\* A connection of a client, admitted or closed at once.  Its socket is new, and
\* so is its bucket.
connection(s, client, claim, origin) ==
  LET ip == IpOf(client, claim)
      admitted == originAllowed(origin) /\ tryAcquireConn(ip)
      own == <<"submit", s>>
  IN /\ links[s].state = "none"
     /\ links' = [links EXCEPT ![s] = [state |-> IF admitted THEN "open" ELSE "refused", of |-> client, ip |-> ip]]
     /\ connPerIp' = IF admitted THEN [connPerIp EXCEPT ![ip] = @ + 1] ELSE connPerIp
     /\ buckets' = [k \in Keys |-> IF k = own THEN Unused ELSE buckets[k]]
     /\ budget' = [k \in Keys |-> IF k = own THEN Capacity ELSE budget[k]]

\* The close event; one that was refused has no handler for it.
close(s) ==
  /\ links[s].state # "none" /\ links' = [links EXCEPT ![s] = NoConn(Proxy)]
  /\ connPerIp' = IF links[s].state = "open" THEN releaseConn(links[s].ip) ELSE connPerIp
  /\ UNCHANGED <<buckets, budget>>

\* A packet to forward; over the limit it is dropped, and the client is not told.
submitted(s) ==
  /\ links[s].state = "open"
  /\ take([k \in {<<"submit", s>>} |-> 1])
  /\ UNCHANGED <<connPerIp, links>>

\* Requests of an address, signed in or not: an upload costs 4.
request(client, claim, cost) ==
  /\ take([k \in {<<"http", IpOf(client, claim)>>} |-> cost])
  /\ UNCHANGED <<connPerIp, links>>

\* Then of an account, if the address had a token left.
presence(client, claim, user, handles) ==
  LET http == <<"http", IpOf(client, claim)>>
      own == <<"presence", user>>
  IN /\ take([k \in {http} \cup (IF Allows(http, 1) THEN {own} ELSE {}) |-> IF k = http THEN 1 ELSE handles])
     /\ UNCHANGED <<connPerIp, links>>

AdmissionNext ==
  \/ sweepBuckets \/ secondPasses
  \/ \E s \in Conns : close(s) \/ submitted(s)
  \/ \E client \in Clients, claim \in Claims :
       \/ \E s \in Conns, origin \in {"none", "same", "listed", "elsewhere"} : connection(s, client, claim, origin)
       \/ \E cost \in Costs : request(client, claim, cost) \/ \E user \in Accounts : presence(client, claim, user, cost)

AdmissionSpec == AdmissionInit /\ [][AdmissionNext]_admissionVars

AdmissionTypeOK ==
  /\ connPerIp \in [Addresses -> 0..MaxConnPerIp]
  /\ links \in [Conns -> [state : {"none", "open", "refused"}, of : Addresses, ip : Addresses]]
  /\ buckets \in [Keys -> [tokens : 0..Capacity, idle : -1..IdleTicks + 1]]
  /\ budget \in [Keys -> 0..Capacity]

\* An address is charged for the connections that its own client has open, and
\* for no other, whatever the header said and whatever was refused or closed in
\* between; and no sweep of idle buckets ever forgives or takes a token.
CountsExact ==
  /\ \A a \in Addresses : connPerIp[a] = Cardinality({s \in Conns : links[s].state = "open" /\ links[s].of = a})
  /\ \A k \in Keys : budget[k] = Refilled(buckets[k])
=============================================================================
