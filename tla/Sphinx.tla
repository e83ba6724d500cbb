------------------------------- MODULE Sphinx -------------------------------
(***************************************************************************)
(* The packet of packages/sphinx/src/sphinx.js on its way: the header that *)
(* createHeader wraps for each hop of a path, and what processPacket makes *)
(* of it hop by hop.  Lengths and shifts are the code's, in blocks of      *)
(* K = 16 bytes; the cryptography is symbolic.  A block is the set of what *)
(* was XORed into it ({} is zero), a MAC stands for its key and input, and *)
(* a payload is the stack of its LIONESS layers, outermost first.  On the  *)
(* way a packet may be altered or handed to any node.                      *)
(***************************************************************************)
EXTENDS Naturals, Sequences

CONSTANTS
  Routes,       \* paths that clients draw: a node of each layer, then the provider
  MaxHops       \* MAX_HOPS (5)

MixNodes == UNION {{path[i] : i \in DOMAIN path} : path \in Routes}

\* No path has a node twice.  A node is no word for a packet's place.
ASSUME SphinxAssumption ==
  /\ MixNodes \cap {"nowhere", "travels", "dropped"} = {}
  /\ MaxHops \in Nat \ {0}
  /\ \A path \in Routes : path \in Seq(MixNodes) /\ Len(path) \in 1..MaxHops
                          /\ \A i, j \in DOMAIN path : path[i] = path[j] => i = j

VARIABLES
  route,        \* the path of the packet, <<>> before it is built
  packet,       \* [alpha, beta, gamma, layers] as the next node gets it
  place,        \* "nowhere", "travels", "dropped", or the node that is its exit
  altered       \* history: what was altered on the way, misrouting included

sphinxVars == <<route, packet, place, altered>>

BetaLen == 2 * MaxHops + 1
Zeros(n) == [j \in 1..n |-> {}]

\* Streams, MACs and payload layers are keyed by the secret that a node shares
\* with the alpha of its hop; alphas[i] is the sender's ephemeral key blinded
\* i - 1 times.
Secret(i, n) == <<i, n>>
Atom(kind, s, of) == [kind |-> kind, s |-> s, of |-> of]
FinalMarker == {Atom("final", <<>>, <<>>)}
NodeId(n) == {Atom("id", <<n>>, <<>>)}
Flip == {Atom("flip", <<>>, <<>>)}
mac(s, beta) == {Atom("mac", s, beta)}
prg(s, n) == [j \in 1..n |-> {Atom("rho", Append(s, j), <<>>)}]
Xor(a, b) == [j \in DOMAIN a \cap DOMAIN b |-> (a[j] \ b[j]) \cup (b[j] \ a[j])]

\* The offset of the filler's part of a hop's stream.  (FillerEarly is the
\* off-by-one of the mutant.)
FillerEarly(i) == 2 * (MaxHops - i) + 2
FillerStart(i) == 2 * (MaxHops - i) + 3

\* The filler phi: what the zeros that hops 1..i append have become by then.
Filler(path) ==
  LET phi[i \in 0..Len(path) - 1] ==
        IF i = 0 THEN <<>>
        ELSE Xor(phi[i - 1] \o Zeros(2),
                 SubSeq(prg(Secret(i, path[i]), BetaLen + 2), FillerStart(i) + 1, BetaLen + 2))
  IN phi[Len(path) - 1]

\* The exit's block and the filler, then one layer for each hop before it.
createHeader(path) ==
  LET nu == Len(path)
      len == 2 * (MaxHops - nu) + 3
      Sealed(i, beta) == [beta |-> beta, gamma |-> mac(Secret(i, path[i]), beta)]
      wrapped[i \in 1..nu] ==
        IF i = nu
        THEN Sealed(nu, Xor(<<FinalMarker>> \o Zeros(len - 1), prg(Secret(nu, path[nu]), len)) \o Filler(path))
        ELSE Sealed(i, Xor(SubSeq(<<NodeId(path[i + 1]), wrapped[i + 1].gamma>> \o wrapped[i + 1].beta, 1, BetaLen),
                           prg(Secret(i, path[i]), BetaLen)))
  IN wrapped[1]

\* One LIONESS layer for each hop, the first one's outermost.
onionEncrypt(path) == [i \in DOMAIN path |-> Secret(i, path[i])]

\* A layer that is not the outermost one makes noise of the block.
Noise == <<<<0>>>>
lionessDecrypt(s, layers) == IF layers # <<>> /\ Head(layers) = s THEN Tail(layers) ELSE Noise

SphinxInit ==
  /\ route = <<>> /\ place = "nowhere" /\ altered = {}
  /\ packet = [alpha |-> 0, beta |-> <<>>, gamma |-> {}, layers |-> <<>>]

createPacket(path) ==
  /\ place = "nowhere"
  /\ route' = path /\ place' = "travels"
  /\ packet' = LET header == createHeader(path)
               IN [alpha |-> 1, beta |-> header.beta, gamma |-> header.gamma, layers |-> onionEncrypt(path)]
  /\ UNCHANGED altered

\* Node n checks the MAC, peels a layer of header and payload, and blinds alpha
\* for the next hop, unless the routing block says that it is the exit.
Peeled(n) ==
  Xor(packet.beta \o Zeros(2), prg(Secret(packet.alpha, n), BetaLen + 2))

processPacket(n) ==
  /\ place = "travels"
  /\ altered' = IF n = route[packet.alpha] THEN altered ELSE altered \cup {"route"}
  /\ UNCHANGED route
  /\ LET s == Secret(packet.alpha, n)
         B == Peeled(n)
         payload == lionessDecrypt(s, packet.layers)
     IN IF mac(s, packet.beta) # packet.gamma THEN place' = "dropped" /\ UNCHANGED packet
        ELSE /\ place' = IF B[1] = FinalMarker THEN n ELSE "travels"
             /\ packet' = IF B[1] = FinalMarker THEN [packet EXCEPT !.layers = payload]
                          ELSE [alpha |-> packet.alpha + 1, beta |-> SubSeq(B, 3, 2 + BetaLen), gamma |-> B[2],
                                layers |-> payload]

\* A block of the header or the payload is altered on the way (bounds: once each).
alterHeader(j) ==
  /\ place = "travels" /\ "header" \notin altered
  /\ packet' = [packet EXCEPT !.beta[j] = (@ \ Flip) \cup (Flip \ @)]
  /\ altered' = altered \cup {"header"}
  /\ UNCHANGED <<route, place>>

alterPayload ==
  /\ place = "travels" /\ "payload" \notin altered
  /\ packet' = [packet EXCEPT !.layers = Noise]
  /\ altered' = altered \cup {"payload"}
  /\ UNCHANGED <<route, place>>

-----------------------------------------------------------------------------
SphinxNext ==
  \/ \E path \in Routes : createPacket(path)
  \/ \E n \in MixNodes : processPacket(n)
  \/ \E j \in 1..BetaLen : alterHeader(j)
  \/ alterPayload

SphinxSpec == SphinxInit /\ [][SphinxNext]_sphinxVars

\* The types; a header is as long at each hop as at the first.
SphinxTypeOK ==
  /\ route \in Routes \cup {<<>>}
  /\ place \in MixNodes \cup {"nowhere", "travels", "dropped"}
  /\ packet.alpha \in 0..Len(route)
  /\ place # "nowhere" => DOMAIN packet.beta = 1..BetaLen
  /\ altered \subseteq {"header", "payload", "route"}

\* A packet built for any path up to MAX_HOPS passes the MAC of each of its hops,
\* so that the filler is block for block what the hops' shifts make of their
\* padding; the routing block ends it at its last node, with every layer peeled
\* off the payload unless this was altered.  What was altered in the header, or
\* came to another node, is dropped there.
OnionPeels ==
  /\ place = "dropped" => altered \cap {"header", "route"} # {}
  /\ place \in MixNodes =>
       /\ place = route[Len(route)] /\ altered \subseteq {"payload"}
       /\ packet.layers = <<>> <=> altered = {}
=============================================================================
