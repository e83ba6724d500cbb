------------------------------ MODULE MixNode -------------------------------
(***************************************************************************)
(* The mix nodes (apps/node/node.js) with their replay guards              *)
(* (packages/net/src/replay.js), along the path that a client draws for a  *)
(* Sphinx packet (packages/sphinx/src/sphinx.js).  The cryptography is     *)
(* symbolic: a packet at a hop is a pair of the onion and the hop, and its *)
(* alpha, the tag that the guard remembers, is this pair.  What was posted *)
(* once may arrive at its node again and again, late, or never; a node     *)
(* that restarts has forgotten all.                                        *)
(***************************************************************************)
EXTENDS Integers, Sequences, FiniteSets

CONSTANTS
  Packets,      \* onions
  Path,         \* Path[p]: a node of each layer, then the provider
  EpochMs, MaxPerEpoch,
  Never         \* no epoch yet, not accepted yet

Nodes == UNION {{Path[p][i] : i \in DOMAIN Path[p]} : p \in Packets}
Tags == {x \in Packets \X (1..5) : x[2] \in DOMAIN Path[x[1]]}     \* MAX_HOPS

ASSUME MixNodeAssumption ==
  /\ \A p \in Packets : Path[p] \in Seq(Nodes) /\ Len(Path[p]) \in 1..5
  /\ EpochMs \in Nat \ {0} /\ MaxPerEpoch \in Nat \ {0}
  /\ Never \notin Int \cup [ago : Int, others : Int]

VARIABLES
  guard,        \* guard[n]: [age, cur, prev], what node n remembers; age is
                \* now - epochStart
  timers,       \* packets in a node's mixing delay, by their next hop
  posted,       \* packets that were posted to a node
  exits,        \* exits[p]: deliveries to the gateway (2 stands for more)
  met,          \* history: met[p], how long ago its exit last accepted p, and how
                \* many other tags it has accepted since
  forgot        \* history: packets that their exit accepted again past the window

mixVars == <<guard, timers, posted, exits, met, forgot>>

NewGuard == [age |-> Never, cur |-> {}, prev |-> {}]
NodeAt(x) == Path[x[1]][x[2]]
ExitTag(p) == <<p, Len(Path[p])>>

MixInit ==
  /\ timers = {} /\ posted = {}
  /\ guard = [n \in Nodes |-> NewGuard]
  /\ exits = [p \in Packets |-> 0]
  /\ met = [p \in Packets |-> Never] /\ forgot = {}

\* (For the mutants.)
RolledAway(g) ==
  IF g.age = EpochMs \/ Cardinality(g.cur) >= MaxPerEpoch
  THEN [age |-> 0, cur |-> {}, prev |-> {}]
  ELSE [g EXCEPT !.age = IF @ = Never THEN 0 ELSE @]

\* The epoch ends by time or by size, but only when a packet comes.
Rolled(g) ==
  IF g.age = EpochMs \/ Cardinality(g.cur) >= MaxPerEpoch
  THEN [age |-> 0, cur |-> {}, prev |-> g.cur]
  ELSE [g EXCEPT !.age = IF @ = Never THEN 0 ELSE @]

\* n accepts x; the window of a tag is an epoch, and MaxPerEpoch other tags.
Meets(n, x) ==
  met' = [p \in Packets |->
            IF NodeAt(ExitTag(p)) # n THEN met[p]
            ELSE IF x = ExitTag(p) THEN [ago |-> 0, others |-> 0]
            ELSE IF met[p] = Never \/ met[p].others = MaxPerEpoch THEN met[p]
            ELSE [met[p] EXCEPT !.others = @ + 1]]
Past(m) == m = Never \/ m.ago = EpochMs \/ m.others >= MaxPerEpoch

\* buildOutgoing draws the path and wraps the onion; the gateway posts it.
buildOutgoing(p) ==
  /\ posted' = posted \cup {<<p, 1>>}
  /\ UNCHANGED <<guard, timers, exits, met, forgot>>

\* handlePacket: the tag counts as seen before the packet is peeled.  The exit
\* posts the payload to the gateway, which may fail; any other hop delays the
\* packet and posts it on.
handlePacket(x, arrives) ==
  LET n == NodeAt(x)
      g == Rolled(guard[n])
  IN IF x \in g.cur \cup g.prev
     THEN guard' = [guard EXCEPT ![n] = g] /\ UNCHANGED <<timers, posted, exits, met, forgot>>
     ELSE /\ guard' = [guard EXCEPT ![n] = [g EXCEPT !.cur = @ \cup {x}]]
          /\ Meets(n, x)
          /\ UNCHANGED posted
          /\ IF x # ExitTag(x[1]) THEN timers' = timers \cup {<<x[1], x[2] + 1>>} /\ UNCHANGED <<exits, forgot>>
             ELSE /\ exits' = [exits EXCEPT ![x[1]] = IF arrives /\ @ < 2 THEN @ + 1 ELSE @]
                  /\ forgot' = IF exits[x[1]] > 0 /\ Past(met[x[1]]) THEN forgot \cup {x[1]} ELSE forgot
                  /\ UNCHANGED timers

\* The delay is over; the post may fail.
forwards(x, arrives) ==
  /\ x \in timers /\ timers' = timers \ {x}
  /\ posted' = IF arrives THEN posted \cup {x} ELSE posted
  /\ UNCHANGED <<guard, exits, met, forgot>>

\* A restart loses the guard and the packets in their delay.
restarts(n) ==
  /\ guard' = [guard EXCEPT ![n] = NewGuard]
  /\ timers' = {x \in timers : NodeAt(<<x[1], x[2] - 1>>) # n}
  /\ met' = [p \in Packets |-> IF NodeAt(ExitTag(p)) = n THEN Never ELSE met[p]]
  /\ UNCHANGED <<posted, exits, forgot>>

\* A moment passes; ages are counted up to an epoch.
Aged(age) == IF age \in {Never, EpochMs} THEN age ELSE age + 1
ticks ==
  /\ guard' = [n \in Nodes |-> [guard[n] EXCEPT !.age = Aged(@)]]
  /\ met' = [p \in Packets |-> IF met[p] = Never THEN Never ELSE [met[p] EXCEPT !.ago = Aged(@)]]
  /\ UNCHANGED <<timers, posted, exits, forgot>>

MixNext ==
  \/ ticks
  \/ \E p \in Packets : buildOutgoing(p)
  \/ \E n \in Nodes : restarts(n)
  \/ \E x \in posted, arrives \in BOOLEAN : handlePacket(x, arrives)
  \/ \E x \in timers, arrives \in BOOLEAN : forwards(x, arrives)

MixSpec == MixInit /\ [][MixNext]_mixVars

MixTypeOK ==
  /\ guard \in [Nodes -> [age : 0..EpochMs \cup {Never}, cur : SUBSET Tags, prev : SUBSET Tags]]
  /\ timers \subseteq Tags /\ posted \subseteq Tags /\ forgot \subseteq Packets
  /\ exits \in [Packets -> 0..2]
  /\ \A n \in Nodes : /\ Cardinality(guard[n].cur) <= MaxPerEpoch
                      /\ Cardinality(guard[n].prev) <= MaxPerEpoch

\* A packet that arrives again, late or twice, at a node of its path, is
\* delivered twice only if its exit had restarted since, or an epoch had passed,
\* or as many other packets as an epoch holds: the rotation never shortens this.
DeliveredOnce == \A p \in Packets : exits[p] > 1 => p \in forgot
=============================================================================
