----------------------------- MODULE PacketProofs -----------------------------
(***************************************************************************)
(* The formats of this program, and that they carry what they should,      *)
(* whoever handles it on the way.                                          *)
(*                                                                         *)
(* The onion, for every MAX_HOPS and every path up to it: the filler that  *)
(* createHeader computes is block for block what the hops make of their    *)
(* padding, so that each finds the next one's header whole.                *)
(*                                                                         *)
(* The letters, for any people, devices, contents and network: what a page *)
(* takes for a message of somebody is one that this sender sealed for it,  *)
(* however often and in whatever state the network hands it over.          *)
(*                                                                         *)
(* A string of bytes is a sequence; the provers handle \o and SubSeq badly,*)
(* so that Cat and Cut stand for them, known by the lemmas about them.     *)
(***************************************************************************)
EXTENDS Sphinx, Envelope, FiniteSetTheorems, SequenceTheorems, WellFoundedInduction, TLAPS

-----------------------------------------------------------------------------
(* Induction, with a set for the predicate: the provers can instantiate it. *)

LEMMA NaturalsFrom0 ==
  ASSUME NEW S, 0 \in S, \A n \in Nat : n \in S => n + 1 \in S
  PROVE  Nat \subseteq S
<1> DEFINE T == Nat \ S
           R == OpToRel(<, Nat)
<1> SUFFICES ASSUME T # {} PROVE FALSE OBVIOUS
<1>1. IsWellFoundedOn(R, Nat) BY NatLessThanWellFounded, Zenon
<1>2. \A y \in Nat, x \in Nat : y < x => <<y, x>> \in R BY DEF OpToRel
<1> HIDE DEF R
<1>3. PICK x \in T : \A y \in T : <<y, x>> \notin R BY <1>1, WFMin
<1>4. x # 0 /\ x - 1 \in Nat /\ x - 1 < x BY <1>3
<1>5. x - 1 \notin T BY <1>2, <1>3, <1>4
<1> QED BY <1>3, <1>4, <1>5

-----------------------------------------------------------------------------
(* Strings of blocks *)

IsStr(a, n) == n \in Nat /\ DOMAIN a = 1..n /\ a = [j \in 1..n |-> a[j]]
Plus(x, y) == (x \ y) \cup (y \ x)

LEMMA StrSeq ==
  ASSUME NEW a, NEW n, IsStr(a, n), NEW S, \A j \in 1..n : a[j] \in S
  PROVE  a \in Seq(S) /\ Len(a) = n
<1>1. a \in [1..n -> S] BY DEF IsStr
<1>2. a \in Seq(S) BY <1>1, SeqDef DEF IsStr
<1>3. 1..Len(a) = 1..n /\ Len(a) \in Nat BY <1>2, LenProperties DEF IsStr
<1> QED BY <1>2, <1>3 DEF IsStr

LEMMA SeqStr ==
  ASSUME NEW S, NEW a \in Seq(S)
  PROVE  IsStr(a, Len(a))
BY LenProperties DEF IsStr

LEMMA StrEqual ==
  ASSUME NEW a, NEW b, NEW n, IsStr(a, n), IsStr(b, n), \A j \in 1..n : a[j] = b[j]
  PROVE  a = b
BY DEF IsStr

Cat(a, b) == a \o b
LEMMA ConcatStr ==
  ASSUME NEW a, NEW m, IsStr(a, m), NEW b, NEW n, IsStr(b, n)
  PROVE  /\ IsStr(Cat(a, b), m + n)
         /\ \A j \in 1..m : Cat(a, b)[j] = a[j]
         /\ \A j \in m + 1..m + n : Cat(a, b)[j] = b[j - m]
<1> DEFINE S == {a[j] : j \in 1..m} \cup {b[j] : j \in 1..n}
<1>5. (\A j \in 1..m : a[j] \in S) /\ (\A j \in 1..n : b[j] \in S) OBVIOUS
<1> HIDE DEF S
<1>1. a \in Seq(S) /\ Len(a) = m BY <1>5, StrSeq
<1>2. b \in Seq(S) /\ Len(b) = n BY <1>5, StrSeq
<1>3. /\ a \o b \in Seq(S) /\ Len(a \o b) = m + n
      /\ \A j \in 1..m + n : (a \o b)[j] = IF j <= m THEN a[j] ELSE b[j - m]
  BY <1>1, <1>2, ConcatProperties
<1>4. IsStr(a \o b, m + n) BY <1>3, SeqStr
<1> QED BY <1>3, <1>4 DEF IsStr, Cat

Cut(a, p, q) == SubSeq(a, p, q)
LEMMA CutStr ==
  ASSUME NEW a, NEW p \in Nat, NEW q \in Nat, p <= q + 1
  PROVE  /\ IsStr(Cut(a, p, q), q - p + 1)
         /\ \A j \in 1..q - p + 1 : Cut(a, p, q)[j] = a[p + j - 1]
<1> DEFINE S == {a[j] : j \in p..q}
<1>1. \A j \in p..q : a[j] \in S OBVIOUS
<1> HIDE DEF S
<1>2. /\ SubSeq(a, p, q) \in Seq(S)
      /\ Len(SubSeq(a, p, q)) = q - p + 1
      /\ \A j \in 1..q - p + 1 : SubSeq(a, p, q)[j] = a[p + j - 1]
  BY <1>1, SubSeqProperties
<1>3. IsStr(SubSeq(a, p, q), q - p + 1) BY <1>2, SeqStr
<1> QED BY <1>2, <1>3 DEF Cut

LEMMA XorStr ==
  ASSUME NEW a, NEW m, IsStr(a, m), NEW b, NEW n, IsStr(b, n), m <= n
  PROVE  IsStr(Xor(a, b), m) /\ \A j \in 1..m : Xor(a, b)[j] = Plus(a[j], b[j])
<1>1. DOMAIN a \cap DOMAIN b = 1..m BY DEF IsStr
<1>2. Xor(a, b) = [j \in 1..m |-> Plus(a[j], b[j])] BY <1>1 DEF Xor, Plus
<1> QED BY <1>2 DEF IsStr

LEMMA ZerosStr ==
  ASSUME NEW n \in Nat
  PROVE  IsStr(Zeros(n), n) /\ \A j \in 1..n : Zeros(n)[j] = {}
BY DEF IsStr, Zeros

\* What a hop appends before it peels.
LEMMA PadStr ==
  ASSUME NEW a, NEW m, IsStr(a, m)
  PROVE  /\ IsStr(Cat(a, Zeros(2)), m + 2)
         /\ \A j \in 1..m : Cat(a, Zeros(2))[j] = a[j]
         /\ \A j \in m + 1..m + 2 : Cat(a, Zeros(2))[j] = {}
<1> DEFINE z == Zeros(2)
           c == Cat(a, z)
<1>1. IsStr(z, 2) /\ \A j \in 1..2 : z[j] = {} BY ZerosStr
<1> HIDE DEF z
<1>2. IsStr(c, m + 2) /\ (\A j \in 1..m : c[j] = a[j]) /\ \A j \in m + 1..m + 2 : c[j] = z[j - m]
  BY <1>1, ConcatStr
<1> HIDE DEF c
<1>3. ASSUME NEW j \in m + 1..m + 2 PROVE c[j] = {}
  <2>1. j - m \in 1..2 BY DEF IsStr
  <2> QED BY <1>1, <1>2, <2>1
<1> QED BY <1>2, <1>3 DEF c, z

LEMMA OneStr == ASSUME NEW x PROVE IsStr(<<x>>, 1) /\ <<x>>[1] = x
BY DEF IsStr

LEMMA PairStr == ASSUME NEW x, NEW y PROVE IsStr(<<x, y>>, 2) /\ <<x, y>>[1] = x /\ <<x, y>>[2] = y
BY DEF IsStr

LEMMA EmptyStr == IsStr(<<>>, 0)
BY DEF IsStr

LEMMA PrgStr ==
  ASSUME NEW s, NEW n \in Nat
  PROVE  IsStr(prg(s, n), n) /\ \A j \in 1..n : prg(s, n)[j] = {Atom("rho", Append(s, j), <<>>)}
BY DEF IsStr, prg

LEMMA PlusFacts ==
  ASSUME NEW x, NEW y
  PROVE  Plus({}, x) = x /\ Plus(Plus(x, y), y) = x
BY DEF Plus

-----------------------------------------------------------------------------
(* The filler *)

Rho(path, i, j) == {Atom("rho", Append(Secret(i, path[i]), j), <<>>)}

FillerFrom(phi, path, n) ==
  phi = [i \in 0..n |->
           IF i = 0 THEN <<>>
           ELSE Xor(Cat(phi[i - 1], Zeros(2)),
                    Cut(prg(Secret(i, path[i]), BetaLen + 2), FillerStart(i) + 1, BetaLen + 2))]

LEMMA FillerByDef ==
  ASSUME NEW path
  PROVE  Filler(path) = (CHOOSE phi : FillerFrom(phi, path, Len(path) - 1))[Len(path) - 1]
BY DEF Filler, FillerFrom, Cat, Cut

LEMMA FillerStep ==
  ASSUME NEW phi, NEW path, NEW n, FillerFrom(phi, path, n), NEW i \in 0..n
  PROVE  phi[i] = IF i = 0 THEN <<>>
                  ELSE Xor(Cat(phi[i - 1], Zeros(2)),
                           Cut(prg(Secret(i, path[i]), BetaLen + 2), FillerStart(i) + 1, BetaLen + 2))
BY DEF FillerFrom

LEMMA FillerExists ==
  ASSUME NEW path, NEW n \in Nat
  PROVE  \E phi : FillerFrom(phi, path, n)
<1> DEFINE N == {k \in Nat : \E phi : FillerFrom(phi, path, k)}
<1>1. 0 \in N
  <2>1. FillerFrom([i \in 0..0 |-> <<>>], path, 0) BY DEF FillerFrom
  <2> QED BY <2>1
<1>2. ASSUME NEW k \in Nat, k \in N PROVE k + 1 \in N
  <2>1. PICK phi : FillerFrom(phi, path, k) BY <1>2
  <2> DEFINE Late(i) == Cut(prg(Secret(i, path[i]), BetaLen + 2), FillerStart(i) + 1, BetaLen + 2)
             psi == [i \in 0..k + 1 |-> IF i = 0 THEN <<>> ELSE Xor(Cat(phi[i - 1], Zeros(2)), Late(i))]
  <2> HIDE DEF Late
  <2>2. ASSUME NEW i \in 0..k PROVE psi[i] = phi[i]
    <3>1. phi[i] = IF i = 0 THEN <<>> ELSE Xor(Cat(phi[i - 1], Zeros(2)), Late(i)) BY <2>1, FillerStep DEF Late
    <3> QED BY <3>1
  <2>3. ASSUME NEW i \in 0..k + 1, i # 0 PROVE psi[i] = Xor(Cat(psi[i - 1], Zeros(2)), Late(i))
    <3>1. i - 1 \in 0..k BY <2>3
    <3>2. psi[i - 1] = phi[i - 1] BY <2>2, <3>1
    <3>3. psi[i] = Xor(Cat(phi[i - 1], Zeros(2)), Late(i)) BY <2>3
    <3> QED BY <3>2, <3>3
  <2>4. psi[0] = <<>> OBVIOUS
  <2>5. psi = [i \in 0..k + 1 |-> psi[i]] OBVIOUS
  <2> HIDE DEF psi
  <2>6. psi = [i \in 0..k + 1 |-> IF i = 0 THEN <<>> ELSE Xor(Cat(psi[i - 1], Zeros(2)), Late(i))] BY <2>3, <2>4, <2>5
  <2>7. FillerFrom(psi, path, k + 1) BY <2>6 DEF FillerFrom, Late
  <2> QED BY <2>7
<1>3. Nat \subseteq N
  <2> HIDE DEF N
  <2> QED BY <1>1, <1>2, NaturalsFrom0
<1> QED BY <1>3

\* After i hops it is 2 i blocks: what it was and two blocks of padding, under
\* the end of the hop's stream.
LEMMA FillerBlocks ==
  ASSUME NEW phi, NEW path, NEW n \in Nat, n < MaxHops, FillerFrom(phi, path, n)
  PROVE  \A i \in 0..n :
           /\ IsStr(phi[i], 2 * i)
           /\ i # 0 => \A j \in 1..2 * i :
                phi[i][j] = Plus(IF j <= 2 * (i - 1) THEN phi[i - 1][j] ELSE {}, Rho(path, i, FillerStart(i) + j))
<1> DEFINE Good(i) ==
      /\ IsStr(phi[i], 2 * i)
      /\ i # 0 => \A j \in 1..2 * i :
           phi[i][j] = Plus(IF j <= 2 * (i - 1) THEN phi[i - 1][j] ELSE {}, Rho(path, i, FillerStart(i) + j))
    N == {k \in Nat : k <= n => Good(k)}
<1>1. 0 \in N
  <2>1. phi[0] = <<>> BY FillerStep
  <2>2. IsStr(phi[0], 2 * 0) BY <2>1, EmptyStr
  <2> QED BY <2>2
<1>2. ASSUME NEW k \in Nat, k \in N PROVE k + 1 \in N
  <2> SUFFICES ASSUME k + 1 <= n PROVE Good(k + 1) OBVIOUS
  <2> DEFINE i == k + 1
             a == Cat(phi[k], Zeros(2))
             r == prg(Secret(i, path[i]), BetaLen + 2)
             b == Cut(r, FillerStart(i) + 1, BetaLen + 2)
  <2>1. IsStr(phi[k], 2 * k) BY <1>2
  <2>2. i \in 0..n /\ i # 0 /\ i - 1 = k OBVIOUS
  <2>3. phi[i] = Xor(a, b) BY <2>2, FillerStep
  <2>4. IsStr(a, 2 * k + 2) /\ (\A j \in 1..2 * k : a[j] = phi[k][j]) /\ \A j \in 2 * k + 1..2 * k + 2 : a[j] = {}
    <3> DEFINE m == 2 * k
    <3>1. IsStr(phi[k], m) BY <2>1
    <3> HIDE DEF m
    <3>2. IsStr(a, m + 2) /\ (\A j \in 1..m : a[j] = phi[k][j]) /\ \A j \in m + 1..m + 2 : a[j] = {}
      BY <3>1, PadStr
    <3> QED BY <3>2 DEF m
  <2> HIDE DEF a
  <2>5. ASSUME NEW j \in 1..2 * k + 2 PROVE a[j] = IF j <= 2 * k THEN phi[k][j] ELSE {}
    <3>1. CASE j <= 2 * k BY <2>4, <3>1
    <3>2. CASE ~(j <= 2 * k)
      <4>1. j \in 2 * k + 1..2 * k + 2 BY <3>2
      <4> QED BY <2>4, <3>2, <4>1
    <3> QED BY <3>1, <3>2
  <2>6. /\ BetaLen \in Nat /\ BetaLen + 2 \in Nat /\ FillerStart(i) + 1 \in Nat /\ FillerStart(i) + 1 <= BetaLen + 3
        /\ BetaLen + 2 - (FillerStart(i) + 1) + 1 = 2 * i /\ FillerStart(i) \in Nat /\ FillerStart(i) + 2 * i = BetaLen + 2
    BY SphinxAssumption DEF BetaLen, FillerStart
  <2> HIDE DEF a, b, i
  <2>7. \A j \in 1..BetaLen + 2 : r[j] = Rho(path, i, j) BY <2>6, PrgStr DEF Rho
  <2> HIDE DEF r
  <2>8. IsStr(b, 2 * i) /\ \A j \in 1..2 * i : b[j] = r[FillerStart(i) + 1 + j - 1]
    <3> DEFINE p == FillerStart(i) + 1
               q == BetaLen + 2
    <3>1. p \in Nat /\ q \in Nat /\ p <= q + 1 /\ q - p + 1 = 2 * i BY <2>6
    <3>2. b = Cut(r, p, q) BY DEF b
    <3> HIDE DEF p, q
    <3>3. IsStr(b, q - p + 1) /\ \A j \in 1..q - p + 1 : b[j] = r[p + j - 1] BY <3>1, <3>2, CutStr
    <3> QED BY <3>1, <3>3 DEF p
  <2>9. \A j \in 1..2 * i : b[j] = Rho(path, i, FillerStart(i) + j)
    <3> SUFFICES ASSUME NEW j \in 1..2 * i PROVE b[j] = Rho(path, i, FillerStart(i) + j) OBVIOUS
    <3>1. FillerStart(i) + 1 + j - 1 = FillerStart(i) + j /\ FillerStart(i) + j \in 1..BetaLen + 2
      BY <2>6 DEF i
    <3> QED BY <2>7, <2>8, <3>1
  <2>10. IsStr(a, 2 * i) /\ 2 * k + 2 = 2 * i /\ 2 * k = 2 * (i - 1) /\ phi[k] = phi[i - 1] BY <2>2, <2>4 DEF i
  <2>11. IsStr(Xor(a, b), 2 * i) /\ \A j \in 1..2 * i : Xor(a, b)[j] = Plus(a[j], b[j])
    BY <2>8, <2>10, XorStr DEF i
  <2>12. Good(i) BY <2>3, <2>5, <2>9, <2>10, <2>11
  <2> QED BY <2>12 DEF i
<1>3. Nat \subseteq N
  <2> HIDE DEF N
  <2> QED BY <1>1, <1>2, NaturalsFrom0
<1> QED BY <1>3

-----------------------------------------------------------------------------
(* The header *)

ExitLen(path) == 2 * (MaxHops - Len(path)) + 3
SealedHop(path, i, beta) == [beta |-> beta, gamma |-> mac(Secret(i, path[i]), beta)]
ExitBeta(path) ==
  Cat(Xor(Cat(<<FinalMarker>>, Zeros(ExitLen(path) - 1)), prg(Secret(Len(path), path[Len(path)]), ExitLen(path))),
      Filler(path))
HopBeta(path, i, next) ==
  Xor(Cut(Cat(<<NodeId(path[i + 1]), next.gamma>>, next.beta), 1, BetaLen), prg(Secret(i, path[i]), BetaLen))

Wraps(w, path, D) ==
  w = [i \in D |-> IF i = Len(path) THEN SealedHop(path, Len(path), ExitBeta(path))
                   ELSE SealedHop(path, i, HopBeta(path, i, w[i + 1]))]
Header(path) == CHOOSE w : Wraps(w, path, 1..Len(path))

LEMMA HeaderByDef ==
  ASSUME NEW path
  PROVE  createHeader(path) = Header(path)[1]
BY DEF createHeader, Header, Wraps, SealedHop, ExitBeta, HopBeta, ExitLen, Cat, Cut

LEMMA WrapsStep ==
  ASSUME NEW w, NEW path, NEW D, Wraps(w, path, D), NEW i \in D
  PROVE  w[i] = IF i = Len(path) THEN SealedHop(path, Len(path), ExitBeta(path))
                ELSE SealedHop(path, i, HopBeta(path, i, w[i + 1]))
BY DEF Wraps

LEMMA HeaderExists ==
  ASSUME NEW path, Len(path) \in Nat \ {0}
  PROVE  Wraps(Header(path), path, 1..Len(path))
<1> DEFINE nu == Len(path)
           N == {k \in Nat : k < nu => \E w : Wraps(w, path, nu - k..nu)}
<1>1. 0 \in N
  <2>1. Wraps([i \in nu - 0..nu |-> SealedHop(path, nu, ExitBeta(path))], path, nu - 0..nu) BY DEF Wraps
  <2> QED BY <2>1
<1>2. ASSUME NEW k \in Nat, k \in N PROVE k + 1 \in N
  <2> SUFFICES ASSUME k + 1 < nu PROVE \E w : Wraps(w, path, nu - (k + 1)..nu) OBVIOUS
  <2>1. PICK w : Wraps(w, path, nu - k..nu) BY <1>2
  <2> DEFINE D == nu - (k + 1)..nu
             v == [i \in D |-> IF i = nu THEN SealedHop(path, nu, ExitBeta(path))
                               ELSE SealedHop(path, i, HopBeta(path, i, w[i + 1]))]
  <2>2. ASSUME NEW i \in nu - k..nu PROVE v[i] = w[i]
    <3>1. w[i] = IF i = nu THEN SealedHop(path, nu, ExitBeta(path))
                 ELSE SealedHop(path, i, HopBeta(path, i, w[i + 1])) BY <2>1, WrapsStep
    <3> QED BY <3>1
  <2>3. ASSUME NEW i \in D, i # nu PROVE v[i] = SealedHop(path, i, HopBeta(path, i, v[i + 1]))
    <3>1. i + 1 \in nu - k..nu BY <2>3
    <3>2. v[i + 1] = w[i + 1] BY <2>2, <3>1
    <3>3. v[i] = SealedHop(path, i, HopBeta(path, i, w[i + 1])) BY <2>3
    <3> QED BY <3>2, <3>3
  <2>4. v[nu] = SealedHop(path, nu, ExitBeta(path)) OBVIOUS
  <2>5. v = [i \in D |-> v[i]] OBVIOUS
  <2> HIDE DEF v
  <2>6. v = [i \in D |-> IF i = nu THEN SealedHop(path, nu, ExitBeta(path))
                         ELSE SealedHop(path, i, HopBeta(path, i, v[i + 1]))] BY <2>3, <2>4, <2>5
  <2>7. Wraps(v, path, D) BY <2>6 DEF Wraps
  <2> QED BY <2>7
<1>3. Nat \subseteq N
  <2> HIDE DEF N
  <2> QED BY <1>1, <1>2, NaturalsFrom0
<1>4. nu - 1 \in N /\ nu - (nu - 1)..nu = 1..nu BY <1>3
<1>5. \E w : Wraps(w, path, 1..nu) BY <1>4
<1> QED BY <1>5 DEF Header

RouteOK(path) == path \in Seq(MixNodes) /\ Len(path) \in 1..MaxHops

\* Every hop's header has the same length, and its blocks are these.
LEMMA HopBlocks ==
  ASSUME NEW path, NEW i, NEW next, IsStr(next.beta, BetaLen)
  PROVE  LET beta == HopBeta(path, i, next)
         IN /\ IsStr(beta, BetaLen)
            /\ beta[1] = Plus(NodeId(path[i + 1]), Rho(path, i, 1))
            /\ beta[2] = Plus(next.gamma, Rho(path, i, 2))
            /\ \A j \in 3..BetaLen : beta[j] = Plus(next.beta[j - 2], Rho(path, i, j))
<1> DEFINE L == BetaLen
           id == NodeId(path[i + 1])
           pair == <<id, next.gamma>>
           a == Cat(pair, next.beta)
           c == Cut(a, 1, L)
           r == prg(Secret(i, path[i]), L)
           beta == HopBeta(path, i, next)
<1>1. L \in Nat /\ L >= 3 BY SphinxAssumption DEF BetaLen
<1>2. IsStr(pair, 2) /\ pair[1] = id /\ pair[2] = next.gamma BY PairStr
<1>3. beta = Xor(c, r) BY DEF HopBeta
<1>4. IsStr(r, L) /\ \A j \in 1..L : r[j] = Rho(path, i, j) BY <1>1, PrgStr DEF Rho
<1> HIDE DEF id, pair, r, beta, L
<1>5. /\ IsStr(a, 2 + L)
      /\ \A j \in 1..2 : a[j] = pair[j]
      /\ \A j \in 2 + 1..2 + L : a[j] = next.beta[j - 2]
  BY <1>2, ConcatStr DEF L
<1> HIDE DEF a
<1>6. IsStr(c, L - 1 + 1) /\ \A j \in 1..L - 1 + 1 : c[j] = a[1 + j - 1]
  <2>1. 1 \in Nat /\ 1 <= L + 1 BY <1>1
  <2> QED BY <1>1, <2>1, CutStr
<1> HIDE DEF c
<1>7. IsStr(c, L) /\ \A j \in 1..L : c[j] = a[j]
  <2>1. L - 1 + 1 = L /\ \A j \in 1..L : 1 + j - 1 = j BY <1>1
  <2> QED BY <1>6, <2>1
<1>8. IsStr(beta, L) /\ \A j \in 1..L : beta[j] = Plus(c[j], r[j])
  <2>1. IsStr(c, L) /\ IsStr(r, L) /\ L <= L BY <1>1, <1>4, <1>7
  <2>2. IsStr(Xor(c, r), L) /\ \A j \in 1..L : Xor(c, r)[j] = Plus(c[j], r[j]) BY <2>1, XorStr
  <2> QED BY <1>3, <2>2
<1>9. beta[1] = Plus(id, Rho(path, i, 1)) /\ beta[2] = Plus(next.gamma, Rho(path, i, 2))
  <2>1. 1 \in 1..L /\ 2 \in 1..L BY <1>1
  <2>2. c[1] = id /\ c[2] = next.gamma BY <1>2, <1>5, <1>7, <2>1
  <2> QED BY <1>4, <1>8, <2>1, <2>2
<1>10. ASSUME NEW j \in 3..L PROVE beta[j] = Plus(next.beta[j - 2], Rho(path, i, j))
  <2>1. j \in 1..L /\ j \in 2 + 1..2 + L BY <1>1
  <2>2. c[j] = next.beta[j - 2] BY <1>5, <1>7, <2>1
  <2> QED BY <1>4, <1>8, <2>1, <2>2
<1> QED BY <1>8, <1>9, <1>10 DEF beta, id, L

LEMMA ExitBlocks ==
  ASSUME NEW path, Len(path) \in 1..MaxHops, IsStr(Filler(path), 2 * (Len(path) - 1))
  PROVE  LET beta == ExitBeta(path)
         IN /\ IsStr(beta, BetaLen)
            /\ beta[1] = Plus(FinalMarker, Rho(path, Len(path), 1))
            /\ \A j \in 1..2 * (Len(path) - 1) : beta[BetaLen - 2 * (Len(path) - 1) + j] = Filler(path)[j]
<1> DEFINE nu == Len(path)
           n == ExitLen(path)
           m == n - 1
           one == <<FinalMarker>>
           z == Zeros(m)
           a == Cat(one, z)
           r == prg(Secret(nu, path[nu]), n)
           x == Xor(a, r)
           f == Filler(path)
           k == 2 * (nu - 1)
           beta == ExitBeta(path)
<1>1. n \in Nat /\ m \in Nat /\ n >= 1 /\ n + k = BetaLen /\ k \in Nat /\ 1 + m = n
  BY SphinxAssumption DEF ExitLen, BetaLen
<1>2. beta = Cat(x, f) BY DEF ExitBeta
<1>3. IsStr(one, 1) /\ one[1] = FinalMarker BY OneStr
<1>4. IsStr(z, m) BY <1>1, ZerosStr
<1>5. IsStr(r, n) /\ \A j \in 1..n : r[j] = Rho(path, nu, j) BY <1>1, PrgStr DEF Rho
<1>6. IsStr(f, k) OBVIOUS
<1> HIDE DEF nu, n, m, one, z, r, f, k, beta
<1>7. IsStr(a, 1 + m) /\ \A j \in 1..1 : a[j] = one[j] BY <1>3, <1>4, ConcatStr
<1> HIDE DEF a
<1>8. IsStr(a, n) /\ a[1] = FinalMarker BY <1>1, <1>3, <1>7
<1>9. IsStr(x, n) /\ \A j \in 1..n : x[j] = Plus(a[j], r[j]) BY <1>1, <1>5, <1>8, XorStr
<1> HIDE DEF x
<1>10. /\ IsStr(beta, n + k)
       /\ \A j \in 1..n : beta[j] = x[j]
       /\ \A j \in n + 1..n + k : beta[j] = f[j - n]
  BY <1>2, <1>6, <1>9, ConcatStr
<1>11. IsStr(beta, BetaLen) BY <1>1, <1>10
<1>12. beta[1] = Plus(FinalMarker, Rho(path, nu, 1))
  <2>1. 1 \in 1..n BY <1>1
  <2> QED BY <1>5, <1>8, <1>9, <1>10, <2>1
<1>13. ASSUME NEW j \in 1..k PROVE beta[BetaLen - k + j] = f[j]
  <2> DEFINE at == BetaLen - k + j
  <2>1. at \in n + 1..n + k /\ at - n = j BY <1>1
  <2> HIDE DEF at
  <2>2. beta[at] = f[at - n] BY <1>10, <2>1
  <2> QED BY <2>1, <2>2 DEF at
<1> QED BY <1>11, <1>12, <1>13 DEF beta, nu, k, f

\* The facts about a header that the hops on its way rely on.
HopFacts(path, w, i) ==
  /\ IsStr(w[i].beta, BetaLen)
  /\ w[i].gamma = mac(Secret(i, path[i]), w[i].beta)
  /\ w[i].beta[1] = Plus(IF i = Len(path) THEN FinalMarker ELSE NodeId(path[i + 1]), Rho(path, i, 1))
  /\ i # Len(path) =>
       /\ w[i].beta[2] = Plus(w[i + 1].gamma, Rho(path, i, 2))
       /\ \A j \in 3..BetaLen : w[i].beta[j] = Plus(w[i + 1].beta[j - 2], Rho(path, i, j))

LEMMA DownFrom ==
  ASSUME NEW nu \in Nat \ {0}, NEW G, nu \in G, \A i \in 1..nu - 1 : i + 1 \in G => i \in G
  PROVE  1..nu \subseteq G
<1> DEFINE N == {k \in Nat : k < nu => nu - k \in G}
<1>1. 0 \in N OBVIOUS
<1>2. ASSUME NEW k \in Nat, k \in N PROVE k + 1 \in N
  <2> SUFFICES ASSUME k + 1 < nu PROVE nu - (k + 1) \in G OBVIOUS
  <2>1. nu - k \in G BY <1>2
  <2>2. nu - (k + 1) \in 1..nu - 1 /\ nu - (k + 1) + 1 = nu - k OBVIOUS
  <2> QED BY <2>1, <2>2
<1>3. Nat \subseteq N
  <2> HIDE DEF N
  <2> QED BY <1>1, <1>2, NaturalsFrom0
<1> SUFFICES ASSUME NEW i \in 1..nu PROVE i \in G OBVIOUS
<1>4. nu - i \in N /\ nu - i < nu /\ nu - (nu - i) = i BY <1>3
<1> QED BY <1>4

LEMMA FillerIs ==
  ASSUME NEW path, Len(path) \in 1..MaxHops
  PROVE  \E phi : FillerFrom(phi, path, Len(path) - 1) /\ Filler(path) = phi[Len(path) - 1]
<1>1. Len(path) - 1 \in Nat BY SphinxAssumption
<1>2. \E phi : FillerFrom(phi, path, Len(path) - 1) BY <1>1, FillerExists
<1> QED BY <1>2, FillerByDef

LEMMA HeaderBlocks ==
  ASSUME NEW path, Len(path) \in 1..MaxHops
  PROVE  \A i \in 1..Len(path) : HopFacts(path, Header(path), i)
<1> DEFINE nu == Len(path)
           w == Header(path)
           G == {i \in 1..nu : HopFacts(path, w, i)}
<1>0. nu \in Nat \ {0} /\ nu <= MaxHops BY SphinxAssumption
<1>1. Wraps(w, path, 1..nu) BY <1>0, HeaderExists
<1>2. nu \in G
  <2>1. PICK phi : FillerFrom(phi, path, nu - 1) /\ Filler(path) = phi[nu - 1] BY FillerIs
  <2>2. IsStr(Filler(path), 2 * (nu - 1))
    <3>1. nu - 1 \in Nat /\ nu - 1 < MaxHops /\ nu - 1 \in 0..nu - 1 BY <1>0, SphinxAssumption
    <3> QED BY <2>1, <3>1, FillerBlocks
  <2>3. IsStr(ExitBeta(path), BetaLen) /\ ExitBeta(path)[1] = Plus(FinalMarker, Rho(path, nu, 1))
    BY <2>2, ExitBlocks
  <2>4. w[nu] = SealedHop(path, nu, ExitBeta(path)) BY <1>0, <1>1, WrapsStep
  <2>5. w[nu].beta = ExitBeta(path) /\ w[nu].gamma = mac(Secret(nu, path[nu]), ExitBeta(path)) BY <2>4 DEF SealedHop
  <2> QED BY <1>0, <2>3, <2>5 DEF HopFacts
<1>3. ASSUME NEW i \in 1..nu - 1, i + 1 \in G PROVE i \in G
  <2>1. i \in 1..nu /\ i # nu BY <1>0
  <2>2. IsStr(w[i + 1].beta, BetaLen) BY <1>3 DEF HopFacts
  <2> DEFINE next == w[i + 1]
             beta == HopBeta(path, i, next)
  <2>3. w[i] = SealedHop(path, i, beta) BY <1>1, <2>1, WrapsStep
  <2>4. /\ IsStr(beta, BetaLen)
        /\ beta[1] = Plus(NodeId(path[i + 1]), Rho(path, i, 1))
        /\ beta[2] = Plus(next.gamma, Rho(path, i, 2))
        /\ \A j \in 3..BetaLen : beta[j] = Plus(next.beta[j - 2], Rho(path, i, j))
    BY <2>2, HopBlocks
  <2> HIDE DEF beta
  <2>5. w[i].beta = beta /\ w[i].gamma = mac(Secret(i, path[i]), beta) BY <2>3 DEF SealedHop
  <2> HIDE DEF w
  <2>6. HopFacts(path, w, i) BY <2>1, <2>4, <2>5 DEF HopFacts
  <2> QED BY <2>1, <2>6
<1> HIDE DEF G
<1>4. 1..nu \subseteq G BY <1>0, <1>2, <1>3, DownFrom
<1> QED BY <1>4 DEF G

\* The end of the header of hop i is what the filler is after i - 1 hops, so that
\* the header of the next one ends with the two blocks that hop i makes of its
\* padding.
LEMMA HeaderEndsInFiller ==
  ASSUME NEW path, Len(path) \in 1..MaxHops,
         NEW phi, FillerFrom(phi, path, Len(path) - 1), Filler(path) = phi[Len(path) - 1]
  PROVE  \A i \in 1..Len(path) : \A j \in 1..2 * (i - 1) :
           Header(path)[i].beta[BetaLen - 2 * (i - 1) + j] = phi[i - 1][j]
<1> DEFINE nu == Len(path)
           w == Header(path)
           L == BetaLen
           G == {i \in 1..nu : \A j \in 1..2 * (i - 1) : w[i].beta[L - 2 * (i - 1) + j] = phi[i - 1][j]}
<1>0. nu \in Nat \ {0} /\ nu <= MaxHops /\ MaxHops \in Nat /\ L = 2 * MaxHops + 1 /\ L \in Nat BY SphinxAssumption DEF BetaLen
<1>1. nu - 1 \in Nat /\ nu - 1 < MaxHops BY <1>0
<1>2. \A i \in 0..nu - 1 :
        /\ IsStr(phi[i], 2 * i)
        /\ i # 0 => \A j \in 1..2 * i :
             phi[i][j] = Plus(IF j <= 2 * (i - 1) THEN phi[i - 1][j] ELSE {}, Rho(path, i, FillerStart(i) + j))
  BY <1>1, FillerBlocks
<1>3. nu \in G
  <2>1. IsStr(Filler(path), 2 * (nu - 1)) BY <1>1, <1>2
  <2>2. \A j \in 1..2 * (nu - 1) : ExitBeta(path)[L - 2 * (nu - 1) + j] = Filler(path)[j] BY <2>1, ExitBlocks
  <2>3. w[nu] = SealedHop(path, nu, ExitBeta(path)) BY <1>0, HeaderExists, WrapsStep
  <2>4. w[nu].beta = ExitBeta(path) BY <2>3 DEF SealedHop
  <2> QED BY <1>0, <2>2, <2>4
<1>4. ASSUME NEW i \in 1..nu - 1, i + 1 \in G PROVE i \in G
  <2> SUFFICES ASSUME NEW j \in 1..2 * (i - 1) PROVE w[i].beta[L - 2 * (i - 1) + j] = phi[i - 1][j]
    BY <1>0
  <2> DEFINE at == L - 2 * (i - 1) + j
  <2>1. at \in 3..L /\ i # nu /\ i \in 1..nu /\ i \in 0..nu - 1 /\ i # 0 BY <1>0
  <2>2. w[i].beta[at] = Plus(w[i + 1].beta[at - 2], Rho(path, i, at)) BY <2>1, HeaderBlocks DEF HopFacts
  <2>3. j \in 1..2 * i /\ j \in 1..2 * (i + 1 - 1) /\ j <= 2 * (i - 1) /\ at - 2 = L - 2 * (i + 1 - 1) + j BY <1>0
  <2>4. w[i + 1].beta[at - 2] = phi[i + 1 - 1][j]
    <3> HIDE DEF w, L, at
    <3>1. i + 1 \in {g \in 1..nu : \A k \in 1..2 * (g - 1) : w[g].beta[L - 2 * (g - 1) + k] = phi[g - 1][k]} BY <1>4
    <3>2. \A k \in 1..2 * (i + 1 - 1) : w[i + 1].beta[L - 2 * (i + 1 - 1) + k] = phi[i + 1 - 1][k] BY <3>1
    <3> QED BY <2>3, <3>2
  <2>5. i + 1 - 1 = i OBVIOUS
  <2>6. phi[i][j] = Plus(phi[i - 1][j], Rho(path, i, FillerStart(i) + j)) BY <1>2, <2>1, <2>3
  <2>7. FillerStart(i) + j = at BY <1>0 DEF FillerStart
  <2> HIDE DEF at, w
  <2>8. w[i].beta[at] = Plus(Plus(phi[i - 1][j], Rho(path, i, at)), Rho(path, i, at))
    BY <2>2, <2>4, <2>5, <2>6, <2>7
  <2>9. w[i].beta[at] = phi[i - 1][j] BY <2>8, PlusFacts
  <2> QED BY <2>9 DEF at
<1> HIDE DEF G
<1>5. 1..nu \subseteq G BY <1>0, <1>3, <1>4, DownFrom
<1> QED BY <1>5 DEF G

\* A node that holds the hop's secret strips one layer of the header.
PeelAt(path, beta, i) == Xor(Cat(beta, Zeros(2)), prg(Secret(i, path[i]), BetaLen + 2))

LEMMA PeeledByDef ==
  ASSUME NEW path, NEW n, n = path[packet.alpha]
  PROVE  Peeled(n) = PeelAt(path, packet.beta, packet.alpha)
BY DEF Peeled, PeelAt, Cat

LEMMA PeelBlocks ==
  ASSUME NEW path, NEW beta, NEW i, IsStr(beta, BetaLen)
  PROVE  /\ IsStr(PeelAt(path, beta, i), BetaLen + 2)
         /\ \A j \in 1..BetaLen : PeelAt(path, beta, i)[j] = Plus(beta[j], Rho(path, i, j))
         /\ \A j \in BetaLen + 1..BetaLen + 2 : PeelAt(path, beta, i)[j] = Rho(path, i, j)
<1> DEFINE L == BetaLen
           m == L + 2
           a == Cat(beta, Zeros(2))
           r == prg(Secret(i, path[i]), m)
           B == PeelAt(path, beta, i)
<1>1. L \in Nat /\ m \in Nat BY SphinxAssumption DEF BetaLen
<1>3. IsStr(r, m) /\ \A j \in 1..m : r[j] = Rho(path, i, j) BY <1>1, PrgStr DEF Rho
<1>4. B = Xor(a, r) BY DEF PeelAt
<1>5. IsStr(beta, L) OBVIOUS
<1> HIDE DEF L, r, B
<1>6. IsStr(a, m) /\ (\A j \in 1..L : a[j] = beta[j]) /\ \A j \in L + 1..L + 2 : a[j] = {}
  BY <1>5, PadStr
<1> HIDE DEF a
<1>8. 1..L \subseteq 1..m /\ L + 1..L + 2 \subseteq 1..m /\ m <= m BY <1>1
<1> HIDE DEF m
<1>9. IsStr(Xor(a, r), m) /\ \A j \in 1..m : Xor(a, r)[j] = Plus(a[j], r[j]) BY <1>3, <1>6, <1>8, XorStr
<1>10. \A j \in 1..L : B[j] = Plus(beta[j], Rho(path, i, j)) BY <1>3, <1>4, <1>6, <1>8, <1>9
<1>11. \A j \in L + 1..L + 2 : B[j] = Rho(path, i, j) BY <1>3, <1>4, <1>6, <1>8, <1>9, PlusFacts
<1> QED BY <1>4, <1>9, <1>10, <1>11 DEF B, L, m

\* Every hop but the last finds the next one's header, whole, and the last one
\* the marker.
LEMMA HopPeels ==
  ASSUME NEW path, Len(path) \in 1..MaxHops, NEW i \in 1..Len(path)
  PROVE  LET w == Header(path)
             B == PeelAt(path, w[i].beta, i)
         IN /\ B[1] = IF i = Len(path) THEN FinalMarker ELSE NodeId(path[i + 1])
            /\ i # Len(path) => B[2] = w[i + 1].gamma /\ SubSeq(B, 3, 2 + BetaLen) = w[i + 1].beta
<1> DEFINE nu == Len(path)
           w == Header(path)
           B == PeelAt(path, w[i].beta, i)
           L == BetaLen
           next == Cut(B, 3, 2 + L)
<1>0. nu \in Nat \ {0} /\ nu <= MaxHops /\ MaxHops \in Nat /\ L = 2 * MaxHops + 1 /\ L \in Nat /\ L >= 3
  BY SphinxAssumption DEF BetaLen
<1>1. HopFacts(path, w, i) BY HeaderBlocks
<1>2. IsStr(w[i].beta, L) BY <1>1 DEF HopFacts
<1>3. /\ \A j \in 1..L : B[j] = Plus(w[i].beta[j], Rho(path, i, j))
      /\ \A j \in L + 1..L + 2 : B[j] = Rho(path, i, j)
  BY <1>2, PeelBlocks
<1>4. B[1] = IF i = nu THEN FinalMarker ELSE NodeId(path[i + 1])
  <2> DEFINE x == IF i = nu THEN FinalMarker ELSE NodeId(path[i + 1])
  <2>1. w[i].beta[1] = Plus(x, Rho(path, i, 1)) BY <1>1 DEF HopFacts
  <2> HIDE DEF x, B, w
  <2>2. 1 \in 1..L BY <1>0
  <2>3. B[1] = Plus(Plus(x, Rho(path, i, 1)), Rho(path, i, 1)) BY <1>3, <2>1, <2>2
  <2> QED BY <2>3, PlusFacts DEF x
<1>5. ASSUME i # nu PROVE B[2] = w[i + 1].gamma /\ SubSeq(B, 3, 2 + L) = w[i + 1].beta
  <2>1. /\ w[i].beta[2] = Plus(w[i + 1].gamma, Rho(path, i, 2))
        /\ \A j \in 3..L : w[i].beta[j] = Plus(w[i + 1].beta[j - 2], Rho(path, i, j))
    BY <1>1, <1>5 DEF HopFacts
  <2>2. i + 1 \in 1..nu /\ i \in 0..nu - 1 /\ i # 0 BY <1>0, <1>5
  <2>3. IsStr(w[i + 1].beta, L) BY <2>2, HeaderBlocks DEF HopFacts
  <2>4. PICK phi : FillerFrom(phi, path, nu - 1) /\ Filler(path) = phi[nu - 1] BY FillerIs
  <2>5. ASSUME NEW j \in L + 1..L + 2 PROVE w[i + 1].beta[j - 2] = Rho(path, i, j)
    <3> DEFINE k == j - 2 - L + 2 * i
    <3>1. k \in 1..2 * (i + 1 - 1) /\ L - 2 * (i + 1 - 1) + k = j - 2 /\ k \in 1..2 * i /\ ~(k <= 2 * (i - 1))
          /\ FillerStart(i) + k = j
      BY <1>0, <2>2 DEF FillerStart
    <3>2. i + 1 - 1 = i OBVIOUS
    <3> HIDE DEF k, w
    <3>3. Header(path)[i + 1].beta[L - 2 * (i + 1 - 1) + k] = phi[i + 1 - 1][k]
      <4>1. \A h \in 1..nu : \A t \in 1..2 * (h - 1) :
              Header(path)[h].beta[L - 2 * (h - 1) + t] = phi[h - 1][t]
        BY <2>4, HeaderEndsInFiller
      <4> QED BY <2>2, <3>1, <4>1
    <3>4. w[i + 1].beta[j - 2] = phi[i][k] BY <3>1, <3>2, <3>3 DEF w
    <3>5. nu - 1 \in Nat /\ nu - 1 < MaxHops BY <1>0
    <3>6. phi[i][k] = Plus(IF k <= 2 * (i - 1) THEN phi[i - 1][k] ELSE {}, Rho(path, i, FillerStart(i) + k))
      BY <2>2, <2>4, <3>1, <3>5, FillerBlocks
    <3>7. phi[i][k] = Plus({}, Rho(path, i, j)) BY <3>1, <3>6
    <3> QED BY <3>4, <3>7, PlusFacts
  <2> HIDE DEF B, w
  <2>6. B[2] = w[i + 1].gamma
    <3>1. 2 \in 1..L BY <1>0
    <3>2. B[2] = Plus(Plus(w[i + 1].gamma, Rho(path, i, 2)), Rho(path, i, 2)) BY <1>3, <2>1, <3>1
    <3> QED BY <3>2, PlusFacts
  <2>7. ASSUME NEW j \in 3..L PROVE B[j] = w[i + 1].beta[j - 2]
    <3>1. j \in 1..L OBVIOUS
    <3>2. B[j] = Plus(Plus(w[i + 1].beta[j - 2], Rho(path, i, j)), Rho(path, i, j)) BY <1>3, <2>1, <3>1
    <3> QED BY <3>2, PlusFacts
  <2>8. ASSUME NEW j \in 3..L + 2 PROVE B[j] = w[i + 1].beta[j - 2]
    <3>1. j \in 3..L \/ j \in L + 1..L + 2 BY <1>0
    <3> QED BY <1>3, <2>5, <2>7, <3>1
  <2>9. IsStr(next, L) /\ \A j \in 1..L : next[j] = B[3 + j - 1]
    <3> DEFINE q == 2 + L
    <3>1. 3 \in Nat /\ q \in Nat /\ 3 <= q + 1 /\ q - 3 + 1 = L BY <1>0
    <3> HIDE DEF q
    <3>2. IsStr(Cut(B, 3, q), q - 3 + 1) /\ \A j \in 1..q - 3 + 1 : Cut(B, 3, q)[j] = B[3 + j - 1]
      BY <3>1, CutStr
    <3> QED BY <3>1, <3>2 DEF q
  <2> HIDE DEF next
  <2>10. ASSUME NEW j \in 1..L PROVE next[j] = w[i + 1].beta[j]
    <3> DEFINE at == 3 + j - 1
    <3>1. at \in 3..L + 2 /\ at - 2 = j BY <1>0
    <3>2. next[j] = B[at] BY <2>9
    <3> HIDE DEF at
    <3>3. B[at] = w[i + 1].beta[at - 2] BY <2>8, <3>1
    <3> QED BY <3>1, <3>2, <3>3
  <2>11. next = w[i + 1].beta BY <2>3, <2>9, <2>10, StrEqual
  <2> QED BY <2>6, <2>11 DEF next, Cut
<1> QED BY <1>4, <1>5

-----------------------------------------------------------------------------
(* The packet on its way *)

LayersFrom(path, i) == [k \in 1..Len(path) - i + 1 |-> Secret(i + k - 1, path[i + k - 1])]

\* What travels is the header of its hop and the layers that are left, but for
\* what was altered.
Travels ==
  /\ route \in Routes /\ packet.alpha \in 1..Len(route)
  /\ "route" \notin altered
  /\ IsStr(packet.beta, BetaLen)
  /\ packet.gamma = mac(Secret(packet.alpha, route[packet.alpha]), Header(route)[packet.alpha].beta)
  /\ "header" \in altered <=> packet.beta # Header(route)[packet.alpha].beta
  /\ packet.layers = IF "payload" \in altered THEN Noise ELSE LayersFrom(route, packet.alpha)

OnionInv ==
  /\ packet = [alpha |-> packet.alpha, beta |-> packet.beta, gamma |-> packet.gamma, layers |-> packet.layers]
  /\ place = "nowhere" => altered = {}
  /\ place = "travels" => Travels
  /\ SphinxTypeOK
  /\ OnionPeels

LEMMA RouteLen == ASSUME NEW path \in Routes PROVE path \in Seq(MixNodes) /\ Len(path) \in Nat \ {0} /\ Len(path) \in 1..MaxHops
BY SphinxAssumption

LEMMA RouteNode ==
  ASSUME NEW path \in Routes, NEW i \in 1..Len(path)
  PROVE  path[i] \in MixNodes
BY RouteLen, ElementOfSeq

LEMMA MacSame ==
  ASSUME NEW s, NEW b, NEW t, NEW c, mac(s, b) = mac(t, c)
  PROVE  s = t /\ b = c
<1>1. Atom("mac", s, b) = Atom("mac", t, c) BY DEF mac
<1>2. Atom("mac", s, b).s = s /\ Atom("mac", s, b).of = b BY DEF Atom
<1>3. Atom("mac", t, c).s = t /\ Atom("mac", t, c).of = c BY DEF Atom
<1> QED BY <1>1, <1>2, <1>3

LEMMA SecretSame ==
  ASSUME NEW i, NEW n, NEW m, Secret(i, n) = Secret(i, m)
  PROVE  n = m
BY DEF Secret

LEMMA MarkerIsNoId == ASSUME NEW n PROVE NodeId(n) # FinalMarker
<1>1. Atom("id", <<n>>, <<>>).kind = "id" /\ Atom("final", <<>>, <<>>).kind = "final" BY DEF Atom
<1>2. Atom("id", <<n>>, <<>>) # Atom("final", <<>>, <<>>) BY <1>1
<1> QED BY <1>2 DEF NodeId, FinalMarker

LEMMA LayersOpen ==
  ASSUME NEW path, Len(path) \in Nat, NEW i \in 1..Len(path)
  PROVE  lionessDecrypt(Secret(i, path[i]), LayersFrom(path, i)) = LayersFrom(path, i + 1)
<1> DEFINE n == Len(path) - i + 1
           x == LayersFrom(path, i)
           y == LayersFrom(path, i + 1)
           S == {x[k] : k \in 1..n}
<1>1. n \in Nat /\ n >= 1 /\ Len(path) - (i + 1) + 1 = n - 1 OBVIOUS
<1>2. IsStr(x, n) /\ \A k \in 1..n : x[k] = Secret(i + k - 1, path[i + k - 1]) BY <1>1 DEF LayersFrom, IsStr
<1>3. IsStr(y, n - 1) /\ \A k \in 1..n - 1 : y[k] = Secret(i + k, path[i + k])
  <2>1. y = [k \in 1..n - 1 |-> Secret(i + 1 + k - 1, path[i + 1 + k - 1])] BY <1>1 DEF LayersFrom
  <2>2. \A k \in 1..n - 1 : i + 1 + k - 1 = i + k OBVIOUS
  <2> HIDE DEF y, n
  <2>3. \A k \in 1..n - 1 : y[k] = Secret(i + k, path[i + k]) BY <2>1, <2>2
  <2>4. IsStr(y, n - 1) BY <1>1, <2>1 DEF IsStr
  <2> QED BY <2>3, <2>4
<1>4. \A k \in 1..n : x[k] \in S OBVIOUS
<1> HIDE DEF x, y, n, S
<1>5. x \in Seq(S) /\ Len(x) = n BY <1>2, <1>4, StrSeq
<1>6. x # <<>> BY <1>1, <1>5
<1>7. Head(x) = x[1] BY <1>5
<1>8. 1 \in 1..n /\ i + 1 - 1 = i BY <1>1
<1>9. Head(x) = Secret(i, path[i]) BY <1>2, <1>7, <1>8
<1>10. Tail(x) \in Seq(S) /\ Len(Tail(x)) = n - 1 /\ \A k \in 1..n - 1 : Tail(x)[k] = x[k + 1]
  BY <1>5, <1>6, HeadTailProperties
<1>11. IsStr(Tail(x), n - 1) BY <1>10, SeqStr
<1>12. ASSUME NEW k \in 1..n - 1 PROVE Tail(x)[k] = y[k]
  <2>1. k + 1 \in 1..n /\ i + (k + 1) - 1 = i + k BY <1>1
  <2>2. x[k + 1] = Secret(i + (k + 1) - 1, path[i + (k + 1) - 1]) BY <1>2, <2>1
  <2> QED BY <1>3, <1>10, <2>1, <2>2
<1>13. Tail(x) = y BY <1>3, <1>11, <1>12, StrEqual
<1> QED BY <1>6, <1>9, <1>13 DEF lionessDecrypt, x, y

LEMMA NoiseStays ==
  ASSUME NEW i, NEW n
  PROVE  lionessDecrypt(Secret(i, n), Noise) = Noise /\ Noise # <<>>
<1>1. Head(Noise) = <<0>> BY DEF Noise
<1>2. <<0>> # <<i, n>> OBVIOUS
<1> QED BY <1>1, <1>2 DEF lionessDecrypt, Secret, Noise

LEMMA OnionCreates ==
  ASSUME OnionInv, NEW path \in Routes, createPacket(path)
  PROVE  OnionInv'
<1> USE DEF OnionInv
<1>1. altered' = {} /\ route' = path /\ place' = "travels" /\ place' \notin MixNodes
  BY SphinxAssumption DEF createPacket
<1>2. packet' = [alpha |-> 1, beta |-> Header(path)[1].beta, gamma |-> Header(path)[1].gamma, layers |-> onionEncrypt(path)]
  BY HeaderByDef DEF createPacket
<1>3. 1 \in 1..Len(path) /\ 1 \in 0..Len(path) /\ DOMAIN path = 1..Len(path) BY RouteLen, LenProperties
<1>4. HopFacts(path, Header(path), 1) BY <1>3, RouteLen, HeaderBlocks
<1>5. onionEncrypt(path) = LayersFrom(path, 1)
  <2>1. Len(path) - 1 + 1 = Len(path) /\ \A k \in 1..Len(path) : 1 + k - 1 = k BY RouteLen
  <2> QED BY <1>3, <2>1 DEF onionEncrypt, LayersFrom
<1>6. Travels' BY <1>1, <1>2, <1>3, <1>4, <1>5 DEF Travels, HopFacts
<1>7. SphinxTypeOK' BY <1>1, <1>2, <1>3, <1>4 DEF SphinxTypeOK, HopFacts, IsStr
<1>8. OnionPeels' BY <1>1 DEF OnionPeels
<1> QED BY <1>1, <1>2, <1>6, <1>7, <1>8

LEMMA OnionProcessed ==
  ASSUME OnionInv, NEW n \in MixNodes, processPacket(n)
  PROVE  OnionInv'
<1> DEFINE i == packet.alpha
           nu == Len(route)
           w == Header(route)
           s == Secret(i, n)
           B == Peeled(n)
           payload == lionessDecrypt(s, packet.layers)
<1>1. Travels /\ place = "travels" /\ route' = route BY DEF OnionInv, processPacket
<1>2. /\ route \in Routes /\ i \in 1..nu /\ "route" \notin altered
      /\ packet.gamma = mac(Secret(i, route[i]), w[i].beta)
      /\ "header" \in altered <=> packet.beta # w[i].beta
      /\ nu \in Nat \ {0} /\ nu \in 1..MaxHops
  BY <1>1, RouteLen DEF Travels
<1>3. altered' = IF n = route[i] THEN altered ELSE altered \cup {"route"} BY DEF processPacket
<1>4. altered' \subseteq {"header", "payload", "route"} BY <1>3 DEF OnionInv, SphinxTypeOK
<1>5. CASE mac(s, packet.beta) # packet.gamma
  <2>1. place' = "dropped" /\ packet' = packet BY <1>5 DEF processPacket
  <2>2. altered' \cap {"header", "route"} # {}
    <3>1. CASE n # route[i] BY <1>3, <3>1
    <3>2. CASE n = route[i]
      <4>1. packet.beta # w[i].beta BY <1>2, <1>5, <3>2
      <4> QED BY <1>2, <1>3, <3>2, <4>1
    <3> QED BY <3>1, <3>2
  <2>3. place' \notin MixNodes BY <2>1, SphinxAssumption
  <2> QED BY <1>1, <1>4, <2>1, <2>2, <2>3 DEF OnionInv, OnionPeels, SphinxTypeOK
<1>6. CASE mac(s, packet.beta) = packet.gamma
  <2>1. n = route[i] /\ packet.beta = w[i].beta
    <3>1. s = Secret(i, route[i]) /\ packet.beta = w[i].beta BY <1>2, <1>6, MacSame
    <3> QED BY <3>1, SecretSame
  <2>2. altered' = altered /\ altered \subseteq {"payload"} BY <1>2, <1>3, <2>1 DEF OnionInv, SphinxTypeOK
  <2>3. B = PeelAt(route, w[i].beta, i) BY <2>1, PeeledByDef
  <2>4. /\ B[1] = IF i = nu THEN FinalMarker ELSE NodeId(route[i + 1])
        /\ i # nu => B[2] = w[i + 1].gamma /\ SubSeq(B, 3, 2 + BetaLen) = w[i + 1].beta
    BY <1>2, <2>3, HopPeels
  <2>5. payload = IF "payload" \in altered THEN Noise ELSE LayersFrom(route, i + 1)
    <3>1. packet.layers = IF "payload" \in altered THEN Noise ELSE LayersFrom(route, i) BY <1>1 DEF Travels
    <3> QED BY <1>2, <2>1, <3>1, LayersOpen, NoiseStays
  <2>6. CASE i = nu
    <3>1. B[1] = FinalMarker BY <2>4, <2>6
    <3>2. place' = n /\ packet' = [packet EXCEPT !.layers = payload] BY <1>6, <3>1 DEF processPacket
    <3>3. place' \notin {"nowhere", "travels", "dropped"} BY <3>2, SphinxAssumption
    <3>4. LayersFrom(route, i + 1) = <<>>
      <4>1. Len(route) - (i + 1) + 1 = 0 BY <1>2, <2>6
      <4> QED BY <4>1 DEF LayersFrom
    <3> HIDE DEF i, nu, w, s, B, payload
    <3>5. /\ packet'.layers = payload /\ packet'.alpha = packet.alpha
          /\ packet'.beta = packet.beta /\ packet'.gamma = packet.gamma
      BY <3>2 DEF OnionInv
    <3>6. packet'.layers = <<>> <=> altered' = {} BY <2>2, <2>5, <3>4, <3>5, NoiseStays
    <3>7. packet' = [alpha |-> packet'.alpha, beta |-> packet'.beta, gamma |-> packet'.gamma, layers |-> packet'.layers]
      BY <3>2 DEF OnionInv
    <3>8. OnionPeels'
      <4>1. place' = route'[Len(route')] BY <1>1, <2>1, <2>6, <3>2 DEF i, nu
      <4> QED BY <2>2, <3>3, <3>6, <4>1 DEF OnionPeels
    <3>9. SphinxTypeOK'
      <4>1. DOMAIN packet'.beta = 1..BetaLen BY <1>1, <3>5 DEF Travels, IsStr
      <4>2. packet'.alpha \in 0..Len(route') BY <1>1, <1>2, <3>5 DEF i, nu
      <4> QED BY <1>1, <1>2, <1>4, <3>2, <4>1, <4>2 DEF SphinxTypeOK
    <3> QED BY <3>3, <3>7, <3>8, <3>9 DEF OnionInv
  <2>7. CASE i # nu
    <3>1. B[1] # FinalMarker BY <2>4, <2>7, MarkerIsNoId
    <3>2. /\ place' = "travels"
          /\ packet' = [alpha |-> i + 1, beta |-> w[i + 1].beta, gamma |-> w[i + 1].gamma, layers |-> payload]
      BY <1>6, <2>4, <2>7, <3>1 DEF processPacket
    <3>3. i + 1 \in 1..nu /\ i + 1 \in 0..nu BY <1>2, <2>7
    <3>4. HopFacts(route, w, i + 1) BY <1>2, <3>3, HeaderBlocks
    <3> HIDE DEF i, nu, w, s, B, payload
    <3>5. /\ IsStr(packet'.beta, BetaLen) /\ packet'.alpha = i + 1 /\ packet'.beta = w[i + 1].beta
          /\ packet'.gamma = mac(Secret(i + 1, route[i + 1]), w[i + 1].beta) /\ packet'.layers = payload
      BY <3>2, <3>4 DEF HopFacts
    <3>6. Travels' BY <1>1, <1>2, <2>2, <2>5, <3>3, <3>5 DEF Travels, nu, w
    <3>7. place' \notin MixNodes BY <3>2, SphinxAssumption
    <3>8. SphinxTypeOK' BY <1>1, <1>2, <1>4, <3>2, <3>3, <3>5 DEF SphinxTypeOK, IsStr, nu
    <3> QED BY <3>2, <3>5, <3>6, <3>7, <3>8 DEF OnionInv, OnionPeels
  <2> QED BY <2>6, <2>7
<1> QED BY <1>5, <1>6

LEMMA OnionAltered ==
  ASSUME OnionInv, alterPayload \/ \E j \in 1..BetaLen : alterHeader(j)
  PROVE  OnionInv'
<1>1. place = "travels" /\ Travels /\ UNCHANGED <<route, place>> BY DEF OnionInv, alterPayload, alterHeader
<1>2. place' \notin MixNodes BY <1>1, SphinxAssumption
<1>3. CASE alterPayload
  <2>1. packet' = [packet EXCEPT !.layers = Noise] /\ altered' = altered \cup {"payload"} BY <1>3 DEF alterPayload
  <2>2. /\ packet'.layers = Noise /\ packet'.alpha = packet.alpha
        /\ packet'.beta = packet.beta /\ packet'.gamma = packet.gamma
        /\ packet' = [alpha |-> packet'.alpha, beta |-> packet'.beta, gamma |-> packet'.gamma, layers |-> packet'.layers]
    BY <2>1 DEF OnionInv
  <2>3. Travels' BY <1>1, <2>1, <2>2 DEF Travels
  <2>4. SphinxTypeOK' BY <1>1, <2>1, <2>2 DEF OnionInv, SphinxTypeOK
  <2> QED BY <1>1, <1>2, <2>2, <2>3, <2>4 DEF OnionInv, OnionPeels
<1>4. ASSUME NEW j \in 1..BetaLen, alterHeader(j) PROVE OnionInv'
  <2> DEFINE beta == [packet.beta EXCEPT ![j] = Plus(packet.beta[j], Flip)]
  <2>1. packet' = [packet EXCEPT !.beta = beta] /\ altered' = altered \cup {"header"} /\ "header" \notin altered
    BY <1>4 DEF alterHeader, Plus
  <2>2. IsStr(packet.beta, BetaLen) BY <1>1 DEF Travels
  <2>3. IsStr(beta, BetaLen) BY <2>2 DEF IsStr
  <2>4. beta # packet.beta
    <3>1. beta[j] = Plus(packet.beta[j], Flip) BY <2>2 DEF IsStr
    <3>2. Flip # {} BY DEF Flip
    <3>3. Plus(packet.beta[j], Flip) # packet.beta[j] BY <3>2 DEF Plus
    <3> HIDE DEF beta
    <3> QED BY <3>1, <3>3
  <2> HIDE DEF beta
  <2>5. /\ packet'.layers = packet.layers /\ packet'.alpha = packet.alpha
        /\ packet'.beta = beta /\ packet'.gamma = packet.gamma
        /\ packet' = [alpha |-> packet'.alpha, beta |-> packet'.beta, gamma |-> packet'.gamma, layers |-> packet'.layers]
    BY <2>1 DEF OnionInv
  <2>6. Travels' BY <1>1, <2>1, <2>3, <2>4, <2>5 DEF Travels
  <2>7. SphinxTypeOK' BY <1>1, <2>1, <2>3, <2>5 DEF OnionInv, SphinxTypeOK, IsStr
  <2> QED BY <1>1, <1>2, <2>5, <2>6, <2>7 DEF OnionInv, OnionPeels
<1> QED BY <1>3, <1>4

LEMMA OnionStarts == SphinxInit => OnionInv
<1> SUFFICES ASSUME SphinxInit PROVE OnionInv OBVIOUS
<1>1. place = "nowhere" /\ altered = {} /\ route = <<>> /\ place \notin MixNodes
  BY SphinxAssumption DEF SphinxInit
<1>2. packet.alpha = 0 /\ 0 \in 0..Len(route) BY <1>1 DEF SphinxInit
<1>3. packet = [alpha |-> packet.alpha, beta |-> packet.beta, gamma |-> packet.gamma, layers |-> packet.layers]
  BY DEF SphinxInit
<1> QED BY <1>1, <1>2, <1>3 DEF OnionInv, OnionPeels, SphinxTypeOK

LEMMA OnionStep == OnionInv /\ [SphinxNext]_sphinxVars => OnionInv'
<1> SUFFICES ASSUME OnionInv, [SphinxNext]_sphinxVars PROVE OnionInv' OBVIOUS
<1>1. CASE UNCHANGED sphinxVars
  BY <1>1 DEF sphinxVars, OnionInv, OnionPeels, SphinxTypeOK, Travels
<1> QED BY <1>1, OnionCreates, OnionProcessed, OnionAltered DEF SphinxNext

\* A packet for any path up to MAX_HOPS peels at each of its hops and no other.
THEOREM OnionCorrect == SphinxSpec => []OnionPeels
<1>1. OnionInv => OnionPeels BY DEF OnionInv
<1> QED BY <1>1, OnionStarts, OnionStep, PTL DEF SphinxSpec

-----------------------------------------------------------------------------
(* Packed fields                                                           *)

Flattened(g, s) == g = [i \in 1..Len(s) |-> IF i = 1 THEN s[i] ELSE Cat(g[i - 1], s[i])]

LEMMA FlattenByDef ==
  ASSUME NEW s, Len(s) # 0
  PROVE  FlattenSeq(s) = (CHOOSE g : Flattened(g, s))[Len(s)]
BY DEF FlattenSeq, Flattened, Cat

LEMMA StrLen == ASSUME NEW a, NEW n, IsStr(a, n) PROVE Len(a) = n
<1>1. \A j \in 1..n : a[j] \in {a[i] : i \in 1..n} OBVIOUS
<1> DEFINE S == {a[i] : i \in 1..n}
<1> HIDE DEF S
<1>2. \A j \in 1..n : a[j] \in S BY <1>1 DEF S
<1> QED BY <1>2, StrSeq

FlatTo(g, s, m) == g = [i \in 1..m |-> IF i = 1 THEN s[i] ELSE Cat(g[i - 1], s[i])]

LEMMA FlattenExists ==
  ASSUME NEW s, NEW m \in Nat \ {0}
  PROVE  \E g : FlatTo(g, s, m)
<1> DEFINE N == {k \in Nat : \E g : FlatTo(g, s, k + 1)}
<1>1. 0 \in N
  <2>1. FlatTo([i \in 1..1 |-> s[i]], s, 1) BY DEF FlatTo
  <2>2. 0 + 1 = 1 OBVIOUS
  <2> QED BY <2>1, <2>2
<1>2. ASSUME NEW k \in Nat, k \in N PROVE k + 1 \in N
  <2> DEFINE n == k + 1
  <2>1. PICK g : FlatTo(g, s, n) BY <1>2
  <2>2. n \in Nat \ {0} OBVIOUS
  <2> HIDE DEF n
  <2> DEFINE h == [i \in 1..n + 1 |-> IF i = 1 THEN s[i] ELSE Cat(g[i - 1], s[i])]
  <2>3. \A i \in 1..n : h[i] = g[i] BY <2>1, <2>2 DEF FlatTo
  <2>4. \A i \in 1..n + 1 : h[i] = IF i = 1 THEN s[i] ELSE Cat(h[i - 1], s[i])
    <3>1. \A i \in 1..n + 1 : i = 1 \/ i - 1 \in 1..n BY <2>2
    <3> QED BY <2>3, <3>1
  <2>5. h = [i \in 1..n + 1 |-> h[i]] OBVIOUS
  <2> HIDE DEF h
  <2>6. FlatTo(h, s, n + 1) BY <2>4, <2>5 DEF FlatTo
  <2> QED BY <2>6 DEF n
<1>3. Nat \subseteq N
  <2> HIDE DEF N
  <2> QED BY <1>1, <1>2, NaturalsFrom0
<1>4. m - 1 \in Nat /\ m - 1 + 1 = m OBVIOUS
<1>5. m - 1 \in N BY <1>3, <1>4
<1> QED BY <1>4, <1>5

LEMMA FlattenTo ==
  ASSUME NEW s, NEW m \in Nat \ {0}, IsStr(s, m)
  PROVE  \E g : FlatTo(g, s, m) /\ FlattenSeq(s) = g[m]
<1> DEFINE g == CHOOSE g : Flattened(g, s)
<1>1. Len(s) = m BY StrLen
<1>2. PICK h : FlatTo(h, s, m) BY FlattenExists
<1>3. Flattened(h, s) BY <1>1, <1>2 DEF Flattened, FlatTo
<1>4. Flattened(g, s) BY <1>3
<1>5. FlattenSeq(s) = g[m] BY <1>1, FlattenByDef
<1> HIDE DEF g
<1>6. FlatTo(g, s, m) BY <1>1, <1>4 DEF Flattened, FlatTo
<1> QED BY <1>5, <1>6

LEMMA FlattenTwo ==
  ASSUME NEW p, NEW q
  PROVE  FlattenSeq(<<p, q>>) = Cat(p, q)
<1> DEFINE s == <<p, q>>
           f == [i \in 1..2 |-> IF i = 1 THEN p ELSE Cat(p, q)]
           g == CHOOSE g : Flattened(g, s)
<1>1. Len(s) = 2 /\ s[1] = p /\ s[2] = q OBVIOUS
<1>2. FlattenSeq(s) = g[2] BY <1>1, FlattenByDef
<1> HIDE DEF s
<1>3. Flattened(f, s) BY <1>1 DEF Flattened
<1>4. Flattened(g, s) BY <1>3
<1> HIDE DEF g
<1>5. g[1] = p /\ g[2] = Cat(g[1], q) BY <1>1, <1>4 DEF Flattened
<1> QED BY <1>2, <1>5 DEF s

LEMMA FlattenThree ==
  ASSUME NEW p, NEW q, NEW r
  PROVE  FlattenSeq(<<p, q, r>>) = Cat(Cat(p, q), r)
<1> DEFINE s == <<p, q, r>>
           f == [i \in 1..3 |-> IF i = 1 THEN p ELSE IF i = 2 THEN Cat(p, q) ELSE Cat(Cat(p, q), r)]
           g == CHOOSE g : Flattened(g, s)
<1>1. Len(s) = 3 /\ s[1] = p /\ s[2] = q /\ s[3] = r OBVIOUS
<1>2. FlattenSeq(s) = g[3] BY <1>1, FlattenByDef
<1> HIDE DEF s
<1>3. Flattened(f, s) BY <1>1 DEF Flattened
<1>4. Flattened(g, s) BY <1>3
<1> HIDE DEF g
<1>5. g[1] = p /\ g[2] = Cat(g[1], q) /\ g[3] = Cat(g[2], r) BY <1>1, <1>4 DEF Flattened
<1> QED BY <1>2, <1>5 DEF s

\* Field a of length m stands at this place of the bytes.
FieldAt(bytes, at, a, m) ==
  bytes[at] = <<"length", m>> /\ \A j \in 1..m : bytes[at + j] = a[j]
Field(a) == Cat(<<<<"length", Len(a)>>>>, a)

FieldsOf(s) == [i \in DOMAIN s |-> Field(s[i])]

LEMMA PackByDef ==
  ASSUME NEW s
  PROVE  pack(s) = FlattenSeq(FieldsOf(s))
BY DEF pack, FieldsOf, Field, Cat

LEMMA TripleStr ==
  ASSUME NEW x, NEW y, NEW z
  PROVE  IsStr(<<x, y, z>>, 3) /\ <<x, y, z>>[1] = x /\ <<x, y, z>>[2] = y /\ <<x, y, z>>[3] = z
BY DEF IsStr

LEMMA TwoIs ==
  ASSUME NEW f, IsStr(f, 2), NEW x, NEW y, f[1] = x, f[2] = y
  PROVE  f = <<x, y>>
<1>1. IsStr(<<x, y>>, 2) /\ <<x, y>>[1] = x /\ <<x, y>>[2] = y BY PairStr
<1> DEFINE t == <<x, y>>
<1> HIDE DEF t
<1>2. IsStr(t, 2) /\ \A j \in 1..2 : f[j] = t[j] BY <1>1 DEF t
<1>3. f = t BY <1>2, StrEqual
<1> QED BY <1>3 DEF t

LEMMA ThreeIs ==
  ASSUME NEW f, IsStr(f, 3), NEW x, NEW y, NEW z, f[1] = x, f[2] = y, f[3] = z
  PROVE  f = <<x, y, z>>
<1>1. IsStr(<<x, y, z>>, 3) /\ <<x, y, z>>[1] = x /\ <<x, y, z>>[2] = y /\ <<x, y, z>>[3] = z BY TripleStr
<1> DEFINE t == <<x, y, z>>
<1> HIDE DEF t
<1>2. IsStr(t, 3) /\ \A j \in 1..3 : f[j] = t[j] BY <1>1 DEF t
<1>3. f = t BY <1>2, StrEqual
<1> QED BY <1>3 DEF t

LEMMA FieldsOfStr ==
  ASSUME NEW s, NEW n, IsStr(s, n)
  PROVE  IsStr(FieldsOf(s), n) /\ \A j \in 1..n : FieldsOf(s)[j] = Field(s[j])
<1>1. n \in Nat /\ DOMAIN s = 1..n BY DEF IsStr
<1>2. FieldsOf(s) = [j \in 1..n |-> Field(s[j])] BY <1>1 DEF FieldsOf
<1> QED BY <1>1, <1>2 DEF IsStr

LEMMA FieldIs ==
  ASSUME NEW a, NEW m, IsStr(a, m)
  PROVE  IsStr(Field(a), m + 1) /\ FieldAt(Field(a), 1, a, m)
<1> DEFINE one == <<<<"length", Len(a)>>>>
           c == Cat(one, a)
<1>1. IsStr(one, 1) /\ one[1] = <<"length", m>> BY OneStr, StrLen
<1>2. m \in Nat BY DEF IsStr
<1> HIDE DEF one
<1>3. IsStr(c, 1 + m) /\ (\A j \in 1..1 : c[j] = one[j]) /\ \A j \in 1 + 1..1 + m : c[j] = a[j - 1]
  BY <1>1, ConcatStr
<1> HIDE DEF c
<1>4. ASSUME NEW j \in 1..m PROVE c[1 + j] = a[j]
  <2> DEFINE k == 1 + j
  <2>1. k \in 1 + 1..1 + m /\ k - 1 = j BY <1>2
  <2> HIDE DEF k
  <2>2. c[k] = a[k - 1] BY <1>3, <2>1
  <2> QED BY <2>1, <2>2 DEF k
<1>5. 1 + m = m + 1 BY <1>2
<1>6. IsStr(c, m + 1) BY <1>3, <1>5
<1>7. c[1] = <<"length", m>> BY <1>1, <1>3
<1>8. FieldAt(c, 1, a, m) BY <1>4, <1>7 DEF FieldAt
<1>9. Field(a) = c BY DEF Field, c, one
<1> QED BY <1>6, <1>8, <1>9

\* A field stays where it is when bytes follow, and moves by what comes before.
LEMMA FieldBefore ==
  ASSUME NEW p, NEW N, IsStr(p, N), NEW z, NEW k, IsStr(z, k),
         NEW at \in Nat \ {0}, NEW a, NEW m \in Nat, FieldAt(p, at, a, m), at + m <= N
  PROVE  FieldAt(Cat(p, z), at, a, m)
<1>1. \A j \in 1..N : Cat(p, z)[j] = p[j] BY ConcatStr
<1>2. N \in Nat /\ at \in 1..N /\ \A j \in 1..m : at + j \in 1..N BY DEF IsStr
<1> QED BY <1>1, <1>2 DEF FieldAt

LEMMA FieldBehind ==
  ASSUME NEW p, NEW N, IsStr(p, N), NEW z, NEW k, IsStr(z, k),
         NEW at \in Nat \ {0}, NEW a, NEW m \in Nat, FieldAt(z, at, a, m), at + m <= k
  PROVE  FieldAt(Cat(p, z), N + at, a, m)
<1> DEFINE c == Cat(p, z)
<1>1. \A j \in N + 1..N + k : c[j] = z[j - N] BY ConcatStr
<1> HIDE DEF c
<1>2. N \in Nat /\ k \in Nat BY DEF IsStr
<1>3. ASSUME NEW j \in 0..m PROVE c[N + at + j] = z[at + j]
  <2> DEFINE h == N + at + j
  <2>1. h \in N + 1..N + k /\ h - N = at + j BY <1>2
  <2> HIDE DEF h
  <2>2. c[h] = z[h - N] BY <1>1, <2>1
  <2> QED BY <2>1, <2>2 DEF h
<1>4. c[N + at] = z[at]
  <2>1. N + at + 0 = N + at /\ at + 0 = at /\ 0 \in 0..m BY <1>2
  <2>2. c[N + at + 0] = z[at + 0] BY <1>3, <2>1
  <2> QED BY <2>1, <2>2
<1>5. \A j \in 1..m : j \in 0..m OBVIOUS
<1> QED BY <1>3, <1>4, <1>5 DEF FieldAt, c

LEMMA PackTwo ==
  ASSUME NEW a, NEW m, IsStr(a, m), NEW b, NEW n, IsStr(b, n)
  PROVE  LET p == pack(<<a, b>>)
         IN IsStr(p, m + n + 2) /\ FieldAt(p, 1, a, m) /\ FieldAt(p, m + 2, b, n)
<1> DEFINE p == pack(<<a, b>>)
           x == Field(a)
           y == Field(b)
<1>1. p = Cat(x, y)
  <2> DEFINE s == <<a, b>>
  <2>1. IsStr(s, 2) /\ s[1] = a /\ s[2] = b BY PairStr
  <2>2. p = FlattenSeq(FieldsOf(s)) BY PackByDef
  <2> HIDE DEF p, s
  <2>3. IsStr(FieldsOf(s), 2) /\ FieldsOf(s)[1] = x /\ FieldsOf(s)[2] = y BY <2>1, FieldsOfStr
  <2>4. FieldsOf(s) = <<x, y>> BY <2>3, TwoIs
  <2> QED BY <2>2, <2>4, FlattenTwo
<1>2. m \in Nat /\ n \in Nat BY DEF IsStr
<1>3. IsStr(x, m + 1) /\ FieldAt(x, 1, a, m) BY FieldIs
<1>4. IsStr(y, n + 1) /\ FieldAt(y, 1, b, n) BY FieldIs
<1> HIDE DEF p, x, y
<1>5. IsStr(p, m + 1 + (n + 1)) BY <1>1, <1>3, <1>4, ConcatStr
<1>6. FieldAt(p, 1, a, m)
  <2>1. 1 \in Nat \ {0} /\ 1 + m <= m + 1 BY <1>2
  <2> QED BY <1>1, <1>2, <1>3, <1>4, <2>1, FieldBefore
<1>7. FieldAt(p, m + 1 + 1, b, n)
  <2>1. 1 \in Nat \ {0} /\ 1 + n <= n + 1 BY <1>2
  <2> QED BY <1>1, <1>2, <1>3, <1>4, <2>1, FieldBehind
<1>8. m + 1 + (n + 1) = m + n + 2 /\ m + 1 + 1 = m + 2 BY <1>2
<1> QED BY <1>5, <1>6, <1>7, <1>8 DEF p

LEMMA PackThree ==
  ASSUME NEW a, NEW m, IsStr(a, m), NEW b, NEW n, IsStr(b, n), NEW c, NEW k, IsStr(c, k)
  PROVE  LET p == pack(<<a, b, c>>)
         IN /\ IsStr(p, m + n + k + 3)
            /\ FieldAt(p, 1, a, m) /\ FieldAt(p, m + 2, b, n) /\ FieldAt(p, m + n + 3, c, k)
<1> DEFINE p == pack(<<a, b, c>>)
           x == Field(a)
           y == Field(b)
           z == Field(c)
           q == Cat(x, y)
<1>1. p = Cat(q, z)
  <2> DEFINE s == <<a, b, c>>
  <2>1. IsStr(s, 3) /\ s[1] = a /\ s[2] = b /\ s[3] = c BY TripleStr
  <2>2. p = FlattenSeq(FieldsOf(s)) BY PackByDef
  <2> HIDE DEF p, s
  <2>3. IsStr(FieldsOf(s), 3) /\ FieldsOf(s)[1] = x /\ FieldsOf(s)[2] = y /\ FieldsOf(s)[3] = z
    BY <2>1, FieldsOfStr
  <2>4. FieldsOf(s) = <<x, y, z>> BY <2>3, ThreeIs
  <2> QED BY <2>2, <2>4, FlattenThree
<1>2. m \in Nat /\ n \in Nat /\ k \in Nat BY DEF IsStr
<1>3. IsStr(x, m + 1) /\ FieldAt(x, 1, a, m) BY FieldIs
<1>4. IsStr(y, n + 1) /\ FieldAt(y, 1, b, n) BY FieldIs
<1>5. IsStr(z, k + 1) /\ FieldAt(z, 1, c, k) BY FieldIs
<1> HIDE DEF p, x, y, z
<1>6. IsStr(q, m + 1 + (n + 1)) BY <1>3, <1>4, ConcatStr
<1>7. FieldAt(q, 1, a, m)
  <2>1. 1 \in Nat \ {0} /\ 1 + m <= m + 1 BY <1>2
  <2> QED BY <1>2, <1>3, <1>4, <2>1, FieldBefore
<1>8. FieldAt(q, m + 1 + 1, b, n)
  <2>1. 1 \in Nat \ {0} /\ 1 + n <= n + 1 BY <1>2
  <2> QED BY <1>2, <1>3, <1>4, <2>1, FieldBehind
<1> HIDE DEF q
<1> DEFINE M == m + 1 + (n + 1)
           at == m + 1 + 1
<1>9. IsStr(q, M) /\ FieldAt(q, at, b, n) BY <1>6, <1>8
<1>10. 1 \in Nat \ {0} /\ at \in Nat \ {0} /\ 1 + m <= M /\ at + n <= M /\ 1 + k <= k + 1 BY <1>2
<1>11. at = m + 2 /\ M + 1 = m + n + 3 /\ M + (k + 1) = m + n + k + 3 BY <1>2
<1> HIDE DEF M, at
<1>12. IsStr(p, M + (k + 1)) BY <1>1, <1>5, <1>9, ConcatStr
<1>13. FieldAt(p, 1, a, m) BY <1>1, <1>2, <1>5, <1>7, <1>9, <1>10, FieldBefore
<1>14. FieldAt(p, at, b, n) BY <1>1, <1>2, <1>5, <1>9, <1>10, FieldBefore
<1>15. FieldAt(p, M + 1, c, k) BY <1>1, <1>2, <1>5, <1>9, <1>10, FieldBehind
<1> QED BY <1>11, <1>12, <1>13, <1>14, <1>15 DEF p

NextAt(bytes, at) ==
  IF at = 0 \/ at > Len(bytes) THEN 0
  ELSE IF bytes[at][1] # "length" \/ at + bytes[at][2] > Len(bytes) THEN 0
  ELSE at + bytes[at][2] + 1
StartsFrom(f, bytes, count) == f = [i \in 1..count + 1 |-> IF i = 1 THEN 1 ELSE NextAt(bytes, f[i - 1])]

LEMMA StartsByDef ==
  ASSUME NEW bytes, NEW count
  PROVE  Starts(bytes, count) = CHOOSE f : StartsFrom(f, bytes, count)
BY DEF Starts, StartsFrom, NextAt

LEMMA StartsTwo ==
  ASSUME NEW bytes
  PROVE  LET f == Starts(bytes, 2)
         IN DOMAIN f = 1..3 /\ f[1] = 1 /\ f[2] = NextAt(bytes, f[1]) /\ f[3] = NextAt(bytes, f[2])
<1> DEFINE N(x) == NextAt(bytes, x)
           g == [i \in 1..3 |-> IF i = 1 THEN 1 ELSE IF i = 2 THEN N(1) ELSE N(N(1))]
           f == Starts(bytes, 2)
<1> HIDE DEF N
<1>1. 2 + 1 = 3 OBVIOUS
<1>2. g = [i \in 1..3 |-> IF i = 1 THEN 1 ELSE N(g[i - 1])] OBVIOUS
<1> HIDE DEF g
<1>3. StartsFrom(g, bytes, 2) BY <1>1, <1>2 DEF StartsFrom, N
<1>4. StartsFrom(f, bytes, 2) BY <1>3, StartsByDef
<1> HIDE DEF f
<1>5. f = [i \in 1..3 |-> IF i = 1 THEN 1 ELSE N(f[i - 1])] BY <1>1, <1>4 DEF StartsFrom, N
<1>6. DOMAIN f = 1..3 /\ f[1] = 1 /\ f[2] = N(f[1]) /\ f[3] = N(f[2]) BY <1>5
<1> QED BY <1>6 DEF f, N

LEMMA StartsThree ==
  ASSUME NEW bytes
  PROVE  LET f == Starts(bytes, 3)
         IN /\ DOMAIN f = 1..4 /\ f[1] = 1
            /\ f[2] = NextAt(bytes, f[1]) /\ f[3] = NextAt(bytes, f[2]) /\ f[4] = NextAt(bytes, f[3])
<1> DEFINE N(x) == NextAt(bytes, x)
           g == [i \in 1..4 |-> IF i = 1 THEN 1 ELSE IF i = 2 THEN N(1) ELSE IF i = 3 THEN N(N(1)) ELSE N(N(N(1)))]
           f == Starts(bytes, 3)
<1> HIDE DEF N
<1>1. 3 + 1 = 4 OBVIOUS
<1>2. g = [i \in 1..4 |-> IF i = 1 THEN 1 ELSE N(g[i - 1])] OBVIOUS
<1> HIDE DEF g
<1>3. StartsFrom(g, bytes, 3) BY <1>1, <1>2 DEF StartsFrom, N
<1>4. StartsFrom(f, bytes, 3) BY <1>3, StartsByDef
<1> HIDE DEF f
<1>5. f = [i \in 1..4 |-> IF i = 1 THEN 1 ELSE N(f[i - 1])] BY <1>1, <1>4 DEF StartsFrom, N
<1>6. DOMAIN f = 1..4 /\ f[1] = 1 /\ f[2] = N(f[1]) /\ f[3] = N(f[2]) /\ f[4] = N(f[3]) BY <1>5
<1> QED BY <1>6 DEF f, N

LEMMA NextAtField ==
  ASSUME NEW bytes, NEW N, IsStr(bytes, N), NEW at \in Nat \ {0}, NEW a, NEW m \in Nat,
         FieldAt(bytes, at, a, m), at + m <= N
  PROVE  NextAt(bytes, at) = at + m + 1
<1>1. Len(bytes) = N BY StrLen
<1>2. bytes[at][1] = "length" /\ bytes[at][2] = m BY DEF FieldAt
<1>3. N \in Nat BY DEF IsStr
<1> QED BY <1>1, <1>2, <1>3 DEF NextAt

\* What stands between two starts is the field.
LEMMA FieldCut ==
  ASSUME NEW bytes, NEW at \in Nat \ {0}, NEW a, NEW m, IsStr(a, m), FieldAt(bytes, at, a, m)
  PROVE  Cut(bytes, at + 1, at + m + 1 - 1) = a
<1> DEFINE p == at + 1
           q == at + m + 1 - 1
           c == Cut(bytes, p, q)
<1>1. m \in Nat BY DEF IsStr
<1>2. p \in Nat /\ q \in Nat /\ p <= q + 1 /\ q - p + 1 = m BY <1>1
<1> HIDE DEF p, q
<1>3. IsStr(c, m) /\ \A j \in 1..m : c[j] = bytes[p + j - 1]
  <2>1. IsStr(c, q - p + 1) /\ \A j \in 1..q - p + 1 : c[j] = bytes[p + j - 1] BY <1>2, CutStr
  <2> QED BY <1>2, <2>1
<1> HIDE DEF c
<1>4. ASSUME NEW j \in 1..m PROVE c[j] = a[j]
  <2>1. p + j - 1 = at + j BY DEF p
  <2>2. bytes[at + j] = a[j] BY DEF FieldAt
  <2> QED BY <1>3, <2>1, <2>2
<1>5. c = a BY <1>3, <1>4, StrEqual
<1> QED BY <1>5 DEF c, p, q

LEMMA FieldsStr ==
  ASSUME NEW bytes, NEW f, NEW n \in Nat, DOMAIN f = 1..n + 1
  PROVE  IsStr(Fields(bytes, f), n) /\ \A i \in 1..n : Fields(bytes, f)[i] = Cut(bytes, f[i] + 1, f[i + 1] - 1)
<1>1. Cardinality(1..n + 1) = n + 1 BY FS_Interval
<1>2. Cardinality(DOMAIN f) - 1 = n BY <1>1
<1>3. Fields(bytes, f) = [i \in 1..n |-> Cut(bytes, f[i] + 1, f[i + 1] - 1)] BY <1>2 DEF Fields, Cut
<1> QED BY <1>3 DEF IsStr

LEMMA FieldsTwo ==
  ASSUME NEW bytes, NEW f, DOMAIN f = 1..3
  PROVE  /\ IsStr(Fields(bytes, f), 2)
         /\ Fields(bytes, f)[1] = Cut(bytes, f[1] + 1, f[2] - 1)
         /\ Fields(bytes, f)[2] = Cut(bytes, f[2] + 1, f[3] - 1)
<1> DEFINE C(i, j) == Cut(bytes, f[i] + 1, f[j] - 1)
           h == Fields(bytes, f)
<1>1. 2 \in Nat /\ DOMAIN f = 1..2 + 1 OBVIOUS
<1>2. IsStr(h, 2) /\ \A i \in 1..2 : h[i] = C(i, i + 1) BY <1>1, FieldsStr
<1> HIDE DEF C, h
<1>3. h[1] = C(1, 1 + 1) /\ h[2] = C(2, 2 + 1) BY <1>2
<1>4. 1 + 1 = 2 /\ 2 + 1 = 3 OBVIOUS
<1>5. h[1] = C(1, 2) /\ h[2] = C(2, 3) BY <1>3, <1>4
<1> QED BY <1>2, <1>5 DEF C, h

LEMMA FieldsThree ==
  ASSUME NEW bytes, NEW f, DOMAIN f = 1..4
  PROVE  /\ IsStr(Fields(bytes, f), 3)
         /\ Fields(bytes, f)[1] = Cut(bytes, f[1] + 1, f[2] - 1)
         /\ Fields(bytes, f)[2] = Cut(bytes, f[2] + 1, f[3] - 1)
         /\ Fields(bytes, f)[3] = Cut(bytes, f[3] + 1, f[4] - 1)
<1> DEFINE C(i, j) == Cut(bytes, f[i] + 1, f[j] - 1)
           h == Fields(bytes, f)
<1>1. 3 \in Nat /\ DOMAIN f = 1..3 + 1 OBVIOUS
<1>2. IsStr(h, 3) /\ \A i \in 1..3 : h[i] = C(i, i + 1) BY <1>1, FieldsStr
<1> HIDE DEF C, h
<1>3. h[1] = C(1, 1 + 1) /\ h[2] = C(2, 2 + 1) /\ h[3] = C(3, 3 + 1) BY <1>2
<1>4. 1 + 1 = 2 /\ 2 + 1 = 3 /\ 3 + 1 = 4 OBVIOUS
<1>5. h[1] = C(1, 2) /\ h[2] = C(2, 3) /\ h[3] = C(3, 4) BY <1>3, <1>4
<1> QED BY <1>2, <1>5 DEF C, h

LEMMA FieldRead ==
  ASSUME NEW bytes, NEW at \in Nat \ {0}, NEW a, NEW m, IsStr(a, m), FieldAt(bytes, at, a, m),
         NEW x, NEW y, x = at, y = at + m + 1
  PROVE  Cut(bytes, x + 1, y - 1) = a
<1> DEFINE p == at + 1
           q == at + m + 1 - 1
<1>1. m \in Nat BY DEF IsStr
<1>2. x + 1 = p /\ y - 1 = q BY <1>1
<1>3. Cut(bytes, p, q) = a BY FieldCut
<1> QED BY <1>2, <1>3

LEMMA UnpackTwo ==
  ASSUME NEW bytes, NEW N, IsStr(bytes, N), NEW a, NEW m, IsStr(a, m), NEW b, NEW n, IsStr(b, n),
         FieldAt(bytes, 1, a, m), FieldAt(bytes, m + 2, b, n), m + n + 2 <= N
  PROVE  unpack(bytes, 2) = <<a, b>>
<1> DEFINE f == Starts(bytes, 2)
           h == Fields(bytes, f)
           at == m + 2
<1>1. m \in Nat /\ n \in Nat /\ N \in Nat BY DEF IsStr
<1>2. DOMAIN f = 1..3 /\ f[1] = 1 /\ f[2] = NextAt(bytes, f[1]) /\ f[3] = NextAt(bytes, f[2]) BY StartsTwo
<1> HIDE DEF f
<1>3. f[2] = 1 + m + 1
  <2>1. 1 \in Nat \ {0} /\ 1 + m <= N BY <1>1
  <2> QED BY <1>1, <1>2, <2>1, NextAtField
<1>4. f[2] = at /\ at \in Nat \ {0} /\ at + n <= N /\ FieldAt(bytes, at, b, n) BY <1>1, <1>3
<1> HIDE DEF at
<1>5. f[3] = at + n + 1 BY <1>1, <1>2, <1>4, NextAtField
<1>6. f[3] # 0 /\ 2 + 1 = 3 BY <1>1, <1>4, <1>5
<1>7. IsStr(h, 2) /\ h[1] = Cut(bytes, f[1] + 1, f[2] - 1) /\ h[2] = Cut(bytes, f[2] + 1, f[3] - 1)
  BY <1>2, FieldsTwo
<1>8. Cut(bytes, f[1] + 1, f[2] - 1) = a
  <2>1. 1 \in Nat \ {0} OBVIOUS
  <2> QED BY <1>2, <1>3, <2>1, FieldRead
<1>9. Cut(bytes, f[2] + 1, f[3] - 1) = b BY <1>4, <1>5, FieldRead
<1>10. IsStr(h, 2) /\ h[1] = a /\ h[2] = b BY <1>7, <1>8, <1>9
<1> HIDE DEF h
<1>11. h = <<a, b>> BY <1>10, TwoIs
<1>12. unpack(bytes, 2) = h BY <1>6 DEF unpack, f, h
<1> QED BY <1>11, <1>12

LEMMA UnpackThree ==
  ASSUME NEW bytes, NEW N, IsStr(bytes, N), NEW a, NEW m, IsStr(a, m), NEW b, NEW n, IsStr(b, n),
         NEW c, NEW k, IsStr(c, k), m + n + k + 3 <= N,
         FieldAt(bytes, 1, a, m), FieldAt(bytes, m + 2, b, n), FieldAt(bytes, m + n + 3, c, k)
  PROVE  unpack(bytes, 3) = <<a, b, c>>
<1> DEFINE f == Starts(bytes, 3)
           h == Fields(bytes, f)
           at == m + 2
           it == m + n + 3
<1>1. m \in Nat /\ n \in Nat /\ k \in Nat /\ N \in Nat BY DEF IsStr
<1>2. /\ DOMAIN f = 1..4 /\ f[1] = 1
      /\ f[2] = NextAt(bytes, f[1]) /\ f[3] = NextAt(bytes, f[2]) /\ f[4] = NextAt(bytes, f[3])
  BY StartsThree
<1> HIDE DEF f
<1>3. f[2] = 1 + m + 1
  <2>1. 1 \in Nat \ {0} /\ 1 + m <= N BY <1>1
  <2> QED BY <1>1, <1>2, <2>1, NextAtField
<1>4. f[2] = at /\ at \in Nat \ {0} /\ at + n <= N /\ FieldAt(bytes, at, b, n) BY <1>1, <1>3
<1>5. it = at + n + 1 /\ it \in Nat \ {0} /\ it + k <= N /\ FieldAt(bytes, it, c, k) BY <1>1
<1> HIDE DEF at, it
<1>6. f[3] = at + n + 1 BY <1>1, <1>2, <1>4, NextAtField
<1>7. f[4] = it + k + 1 BY <1>1, <1>2, <1>5, <1>6, NextAtField
<1>8. f[4] # 0 /\ 3 + 1 = 4 BY <1>1, <1>5, <1>7
<1>9. /\ IsStr(h, 3) /\ h[1] = Cut(bytes, f[1] + 1, f[2] - 1)
      /\ h[2] = Cut(bytes, f[2] + 1, f[3] - 1) /\ h[3] = Cut(bytes, f[3] + 1, f[4] - 1)
  BY <1>2, FieldsThree
<1>10. Cut(bytes, f[1] + 1, f[2] - 1) = a
  <2>1. 1 \in Nat \ {0} OBVIOUS
  <2> QED BY <1>2, <1>3, <2>1, FieldRead
<1>11. Cut(bytes, f[2] + 1, f[3] - 1) = b BY <1>4, <1>6, FieldRead
<1>12. Cut(bytes, f[3] + 1, f[4] - 1) = c
  <2>1. f[3] = it BY <1>5, <1>6
  <2> QED BY <1>5, <1>7, <2>1, FieldRead
<1>13. IsStr(h, 3) /\ h[1] = a /\ h[2] = b /\ h[3] = c BY <1>9, <1>10, <1>11, <1>12
<1> HIDE DEF h
<1>14. h = <<a, b, c>> BY <1>13, ThreeIs
<1>15. unpack(bytes, 3) = h BY <1>8 DEF unpack, f, h
<1> QED BY <1>14, <1>15

\* A field that is longer than the bytes is cut off.
LEMMA UnpackTorn ==
  ASSUME NEW n \in Nat \ {0}
  PROVE  unpack(<<<<"length", n>>>>, 2) = Torn
<1> DEFINE bytes == <<<<"length", n>>>>
           f == Starts(bytes, 2)
<1>1. Len(bytes) = 1 /\ bytes[1][1] = "length" /\ bytes[1][2] = n OBVIOUS
<1>2. f[1] = 1 /\ f[2] = NextAt(bytes, f[1]) /\ f[3] = NextAt(bytes, f[2]) BY StartsTwo
<1> HIDE DEF bytes, f
<1>3. f[2] = 0 BY <1>1, <1>2 DEF NextAt
<1>4. f[3] = 0 /\ 2 + 1 = 3 BY <1>2, <1>3 DEF NextAt
<1>5. unpack(bytes, 2) = Torn BY <1>4 DEF unpack, f
<1> QED BY <1>5 DEF bytes

-----------------------------------------------------------------------------
(* Envelopes                                                               *)

LEMMA TailStr ==
  ASSUME NEW a, NEW n \in Nat, IsStr(a, n + 1)
  PROVE  IsStr(Tail(a), n) /\ \A j \in 1..n : Tail(a)[j] = a[j + 1]
<1> DEFINE S == {a[j] : j \in 1..n + 1}
           t == Tail(a)
<1>1. \A j \in 1..n + 1 : a[j] \in S OBVIOUS
<1> HIDE DEF S
<1>2. a \in Seq(S) /\ Len(a) = n + 1 BY <1>1, StrSeq
<1>3. a # <<>> BY <1>2
<1>4. t \in Seq(S) /\ Len(t) = Len(a) - 1 /\ \A j \in 1..Len(t) : t[j] = a[j + 1] BY <1>2, <1>3, HeadTailProperties
<1> HIDE DEF t
<1>5. Len(t) = n BY <1>2, <1>4
<1>6. IsStr(t, n) BY <1>4, <1>5, SeqStr
<1> QED BY <1>4, <1>5, <1>6 DEF t

LEMMA BlockStr == ASSUME NEW x PROVE IsStr(Block(x), 1) /\ Block(x)[1][2] = x
BY OneStr DEF Block

LEMMA Unpacked ==
  ASSUME NEW a, NEW m, IsStr(a, m), NEW b, NEW n, IsStr(b, n)
  PROVE  unpack(pack(<<a, b>>), 2) = <<a, b>>
<1> DEFINE p == pack(<<a, b>>)
<1>1. IsStr(p, m + n + 2) /\ FieldAt(p, 1, a, m) /\ FieldAt(p, m + 2, b, n) BY PackTwo
<1>2. m + n + 2 <= m + n + 2 BY DEF IsStr
<1> HIDE DEF p
<1>3. unpack(p, 2) = <<a, b>> BY <1>1, <1>2, UnpackTwo
<1> QED BY <1>3 DEF p

\* The padding of the onion is not read.
LEMMA UnpackedPadded ==
  ASSUME NEW a, NEW m, IsStr(a, m), NEW b, NEW n, IsStr(b, n), NEW z, NEW k, IsStr(z, k)
  PROVE  unpack(Cat(pack(<<a, b>>), z), 2) = <<a, b>>
<1> DEFINE p == pack(<<a, b>>)
           c == Cat(p, z)
           N == m + n + 2
           at == m + 2
<1>1. IsStr(p, N) /\ FieldAt(p, 1, a, m) /\ FieldAt(p, at, b, n) BY PackTwo
<1>2. m \in Nat /\ n \in Nat /\ k \in Nat BY DEF IsStr
<1> HIDE DEF p
<1>3. /\ 1 \in Nat \ {0} /\ at \in Nat \ {0} /\ 1 + m <= N /\ at + n <= N
      /\ N \in Nat /\ N <= N + k
  BY <1>2
<1> HIDE DEF N, at
<1>4. IsStr(c, N + k) BY <1>1, ConcatStr
<1>5. FieldAt(c, 1, a, m) BY <1>1, <1>2, <1>3, FieldBefore
<1>6. FieldAt(c, at, b, n) BY <1>1, <1>2, <1>3, FieldBefore
<1> HIDE DEF c
<1>7. FieldAt(c, m + 2, b, n) /\ m + n + 2 <= N + k BY <1>3, <1>6 DEF at, N
<1>8. unpack(c, 2) = <<a, b>> BY <1>4, <1>5, <1>7, UnpackTwo
<1> QED BY <1>8 DEF c, p

LEMMA UnpackedThree ==
  ASSUME NEW x, NEW y, NEW z
  PROVE  unpack(pack(<<Block(x), Block(y), Block(z)>>), 3) = <<Block(x), Block(y), Block(z)>>
<1> DEFINE a == Block(x)
           b == Block(y)
           c == Block(z)
           p == pack(<<a, b, c>>)
<1>1. IsStr(a, 1) /\ IsStr(b, 1) /\ IsStr(c, 1) BY BlockStr
<1> HIDE DEF a, b, c
<1>2. IsStr(p, 1 + 1 + 1 + 3) /\ FieldAt(p, 1, a, 1) /\ FieldAt(p, 1 + 2, b, 1) /\ FieldAt(p, 1 + 1 + 3, c, 1)
  BY <1>1, PackThree
<1>3. 1 + 1 + 1 + 3 <= 1 + 1 + 1 + 3 OBVIOUS
<1> HIDE DEF p
<1>4. unpack(p, 3) = <<a, b, c>> BY <1>1, <1>2, <1>3, UnpackThree
<1> QED BY <1>4 DEF p, a, b, c

SealedPlain(content, sig) == Cat(<<<<"version", 1>>>>, pack(<<Block(content), Block(sig.ed), Block(sig.dsa)>>))

LEMMA PlainOpens ==
  ASSUME NEW content, NEW sig
  PROVE  LET plain == SealedPlain(content, sig)
         IN /\ Head(plain) = <<"version", 1>>
            /\ unpack(Tail(plain), 3) = <<Block(content), Block(sig.ed), Block(sig.dsa)>>
<1> DEFINE a == Block(content)
           b == Block(sig.ed)
           c == Block(sig.dsa)
           p == pack(<<a, b, c>>)
           v == <<<<"version", 1>>>>
           plain == Cat(v, p)
           n == 1 + 1 + 1 + 3
<1>1. IsStr(a, 1) /\ IsStr(b, 1) /\ IsStr(c, 1) BY BlockStr
<1>2. unpack(p, 3) = <<a, b, c>> BY UnpackedThree
<1>3. IsStr(v, 1) /\ v[1] = <<"version", 1>> BY OneStr
<1> HIDE DEF a, b, c
<1>4. IsStr(p, n) BY <1>1, PackThree
<1>5. n \in Nat OBVIOUS
<1> HIDE DEF p, n, v
<1>6. /\ IsStr(plain, 1 + n) /\ (\A j \in 1..1 : plain[j] = v[j])
      /\ \A j \in 1 + 1..1 + n : plain[j] = p[j - 1]
  BY <1>3, <1>4, ConcatStr
<1> HIDE DEF plain
<1>7. IsStr(plain, n + 1) /\ plain[1] = <<"version", 1>> BY <1>3, <1>5, <1>6
<1>8. IsStr(Tail(plain), n) /\ \A j \in 1..n : Tail(plain)[j] = plain[j + 1] BY <1>5, <1>7, TailStr
<1> DEFINE t == Tail(plain)
<1> HIDE DEF t
<1>9. ASSUME NEW j \in 1..n PROVE t[j] = p[j]
  <2> DEFINE k == j + 1
  <2>1. k \in 1 + 1..1 + n /\ k - 1 = j BY <1>5
  <2>2. t[j] = plain[k] BY <1>8 DEF t
  <2> HIDE DEF k
  <2>3. plain[k] = p[k - 1] BY <1>6, <2>1
  <2> QED BY <2>1, <2>2, <2>3
<1>10. IsStr(t, n) BY <1>8 DEF t
<1>11. t = p BY <1>4, <1>9, <1>10, StrEqual
<1>12. Head(plain) = plain[1] OBVIOUS
<1>13. Head(plain) = <<"version", 1>> BY <1>7, <1>12
<1>14. unpack(Tail(plain), 3) = <<a, b, c>> BY <1>2, <1>11 DEF t
<1> QED BY <1>13, <1>14 DEF SealedPlain, plain, v, p, a, b, c

\* The recipient of a sealed envelope reads the content and the signature.
LEMMA SealedOpens ==
  ASSUME NEW r, NEW content, NEW sig, NEW e
  PROVE  openEnvelope(r, Sealed(kemPublicBundle(r), content, sig, e))
         = [content |-> content, sig |-> [ed |-> sig.ed, dsa |-> sig.dsa],
            message |-> signedTranscript(kemPublicBundle(r), content)]
<1> DEFINE bundle == kemPublicBundle(r)
           kem == encapsulate(bundle, e)
           plain == SealedPlain(content, sig)
           sealed == [key |-> kem.sharedSecret, plain |-> plain]
           x == kem.header.epk
           y == kem.header.kct
           field == <<Block(x), Block(y), Block(sealed)>>
           header == [epk |-> x, kct |-> y]
           inside == <<Block(content), Block(sig.ed), Block(sig.dsa)>>
           bytes == Sealed(bundle, content, sig, e)
<1>1. unpack(pack(field), 3) = field BY UnpackedThree
<1>2. bytes = pack(field) BY DEF Sealed, SealedPlain, Cat
<1>3. Head(plain) = <<"version", 1>> /\ unpack(Tail(plain), 3) = inside BY PlainOpens
<1>4. kem.sharedSecret = decapsulate(r, header)
  BY DEF encapsulate, decapsulate, kemPublicBundle, kemSecret, dh, transcript
<1>5. field[1][1][2] = x /\ field[2][1][2] = y /\ field[3][1][2] = sealed /\ field # Torn
  BY BlockStr DEF Torn
<1>6. inside[1][1][2] = content /\ inside[2][1][2] = sig.ed /\ inside[3][1][2] = sig.dsa /\ inside # Torn
  BY BlockStr DEF Torn
<1>7. sealed.key = kem.sharedSecret /\ sealed.plain = plain OBVIOUS
<1> HIDE DEF kem, plain, x, y, field, inside, bytes, sealed
<1>8. unpack(bytes, 3) = field BY <1>1, <1>2
<1> QED BY <1>3, <1>4, <1>5, <1>6, <1>7, <1>8 DEF openEnvelope, bytes, header, bundle

-----------------------------------------------------------------------------
(* Letters on their way and taken                                          *)

Sent(R) == {ContentOf(l) : l \in R} \cup {Cover}
SignatureOf(d, q, b) == sign(d, signedTranscript(kemPublicBundle(q), b))
Genuine(sig, R, S) ==
  \E d, q \in Devices, b \in Sent(R) : <<b, HandleOf[d], q>> \in S /\ sig = SignatureOf(d, q, b)
Enveloped(r, c, sig, e) ==
  <<mailboxId(kemPublicBundle(r)), Sealed(kemPublicBundle(r), c, sig, e)>>

IsMessage(m) ==
  m = [provider |-> m.provider, payload |-> m.payload, of |-> m.of, whole |-> m.whole]
Reads(m, S, r, d, q, c, b, e) ==
  /\ <<b, HandleOf[d], q>> \in S
  /\ unpack(m.payload, 2) = Enveloped(r, c, SignatureOf(d, q, b), e)
  /\ m.whole => d = Page /\ q = r /\ b = c /\ m.of = c /\ m.provider = ProviderOf[r]
Letter(m, R, S, n) ==
  /\ IsMessage(m) /\ Len(m.payload) \in Nat \ {0}
  /\ \E r, d, q \in Devices, c, b \in Sent(R), e \in 1..n : Reads(m, S, r, d, q, c, b, e)
Spoilt(m) == IsMessage(m) /\ ~m.whole /\ unpack(m.payload, 2) = Torn
NetOK(s, R, S, n) ==
  IsStr(s, Len(s)) /\ \A i \in 1..Len(s) : Letter(s[i], R, S, n) \/ Spoilt(s[i])

TakenOK(d, x, R, S) ==
  x.content \in Sent(R) \ {Cover} /\ <<x.content, x.content.from, d>> \in S /\ Genuine(x.sig, R, S)

LettersInv ==
  /\ seals \in Nat
  /\ \A s \in sends : s.content \in Sent(reported) /\ s.to \in Devices
  /\ NetOK(net, reported, sealedFor, seals)
  /\ taken = [d \in Devices |-> taken[d]]
  /\ \A d \in Devices : \A x \in taken[d] : TakenOK(d, x, reported, sealedFor)
  /\ refused = {}

LEMMA AppendStr ==
  ASSUME NEW a, IsStr(a, Len(a)), NEW x
  PROVE  LET b == Append(a, x)
         IN /\ IsStr(b, Len(b)) /\ Len(b) = Len(a) + 1
            /\ b[Len(a) + 1] = x /\ \A j \in 1..Len(a) : b[j] = a[j]
<1> DEFINE n == Len(a)
           b == Append(a, x)
           S == {a[j] : j \in 1..n} \cup {x}
<1>1. x \in S /\ \A j \in 1..n : a[j] \in S OBVIOUS
<1> HIDE DEF S
<1>2. a \in Seq(S) BY <1>1, StrSeq
<1>3. b \in Seq(S) /\ Len(b) = n + 1 /\ (\A j \in 1..n : b[j] = a[j]) /\ b[n + 1] = x
  BY <1>1, <1>2, AppendProperties
<1>4. IsStr(b, Len(b)) BY <1>3, SeqStr
<1> QED BY <1>3, <1>4

\* What is left after a removal was there before.
LEMMA RemoveStr ==
  ASSUME NEW a, IsStr(a, Len(a)), NEW i \in 1..Len(a)
  PROVE  LET b == RemoveAt(a, i)
         IN IsStr(b, Len(b)) /\ \A j \in 1..Len(b) : \E k \in 1..Len(a) : b[j] = a[k]
<1> DEFINE n == Len(a)
           h == i - 1
           p == i + 1
           x == Cut(a, 1, h)
           y == Cut(a, p, n)
           b == Cat(x, y)
<1>1. n \in Nat /\ i \in Nat BY DEF IsStr
<1>2. 1 \in Nat /\ h \in Nat /\ 1 <= h + 1 /\ h - 1 + 1 = h /\ p \in Nat /\ p <= n + 1 BY <1>1
<1>3. n - p + 1 = n - i /\ n - i \in Nat BY <1>1
<1> HIDE DEF n, h, p
<1>4. IsStr(x, h - 1 + 1) /\ \A j \in 1..h - 1 + 1 : x[j] = a[1 + j - 1] BY <1>1, <1>2, CutStr
<1>5. IsStr(x, h) /\ \A j \in 1..h : x[j] = a[1 + j - 1] BY <1>2, <1>4
<1>6. IsStr(y, n - p + 1) /\ \A j \in 1..n - p + 1 : y[j] = a[p + j - 1] BY <1>1, <1>2, CutStr
<1>7. IsStr(y, n - i) /\ \A j \in 1..n - i : y[j] = a[p + j - 1] BY <1>3, <1>6
<1> HIDE DEF x, y
<1>8. /\ IsStr(b, h + (n - i)) /\ (\A j \in 1..h : b[j] = x[j])
      /\ \A j \in h + 1..h + (n - i) : b[j] = y[j - h]
  BY <1>5, <1>7, ConcatStr
<1> HIDE DEF b
<1>9. Len(b) = h + (n - i) BY <1>8, StrLen
<1>10. ASSUME NEW j \in 1..h PROVE \E k \in 1..n : b[j] = a[k]
  <2> DEFINE k == 1 + j - 1
  <2>1. k \in 1..n BY <1>1 DEF h, n
  <2>2. x[j] = a[k] BY <1>5
  <2> HIDE DEF k
  <2> QED BY <1>8, <2>1, <2>2
<1>11. ASSUME NEW j \in h + 1..h + (n - i) PROVE \E k \in 1..n : b[j] = a[k]
  <2> DEFINE q == j - h
             k == p + q - 1
  <2>1. q \in 1..n - i BY <1>1, <1>2, <1>3
  <2>2. k \in 1..n BY <1>1, <1>3, <2>1 DEF p
  <2>3. b[j] = y[q] BY <1>8
  <2> HIDE DEF q
  <2>4. y[q] = a[k] BY <1>7, <2>1
  <2> HIDE DEF k
  <2> QED BY <2>2, <2>3, <2>4
<1>12. \A j \in 1..h + (n - i) : j \in 1..h \/ j \in h + 1..h + (n - i) BY <1>2, <1>3
<1>13. \A j \in 1..Len(b) : \E k \in 1..n : b[j] = a[k] BY <1>9, <1>10, <1>11, <1>12
<1>14. IsStr(b, Len(b)) BY <1>8, <1>9
<1>15. b = RemoveAt(a, i) BY DEF b, x, y, h, p, n, Cat, Cut, RemoveAt
<1> QED BY <1>13, <1>14, <1>15 DEF n

LEMMA LetterKept ==
  ASSUME NEW m, NEW R, NEW S, NEW n \in Nat, NEW R2, NEW S2, NEW n2 \in Nat,
         R \subseteq R2, S \subseteq S2, n <= n2, Letter(m, R, S, n)
  PROVE  Letter(m, R2, S2, n2)
<1>1. Sent(R) \subseteq Sent(R2) BY DEF Sent
<1>2. 1..n \subseteq 1..n2 OBVIOUS
<1>3. PICK r \in Devices, d \in Devices, q \in Devices, c \in Sent(R), b \in Sent(R), e \in 1..n :
        Reads(m, S, r, d, q, c, b, e)
  BY DEF Letter
<1>4. c \in Sent(R2) /\ b \in Sent(R2) /\ e \in 1..n2 BY <1>1, <1>2
<1>5. Reads(m, S2, r, d, q, c, b, e) BY <1>3 DEF Reads
<1> QED BY <1>4, <1>5 DEF Letter

LEMMA NetKept ==
  ASSUME NEW s, NEW R, NEW S, NEW n \in Nat, NEW R2, NEW S2, NEW n2 \in Nat,
         R \subseteq R2, S \subseteq S2, n <= n2, NetOK(s, R, S, n)
  PROVE  NetOK(s, R2, S2, n2)
BY LetterKept DEF NetOK

LEMMA NetGrows ==
  ASSUME NEW s, NEW R, NEW S, NEW n, NetOK(s, R, S, n), NEW m, Letter(m, R, S, n)
  PROVE  NetOK(Append(s, m), R, S, n)
<1> DEFINE b == Append(s, m)
           k == Len(s)
<1>1. IsStr(s, Len(s)) /\ \A i \in 1..k : Letter(s[i], R, S, n) \/ Spoilt(s[i]) BY DEF NetOK
<1>2. IsStr(b, Len(b)) /\ Len(b) = k + 1 /\ b[k + 1] = m /\ \A j \in 1..k : b[j] = s[j] BY <1>1, AppendStr
<1>3. k \in Nat BY <1>1 DEF IsStr
<1> HIDE DEF b, k
<1>4. \A i \in 1..k + 1 : i \in 1..k \/ i = k + 1 BY <1>3
<1>5. \A i \in 1..k + 1 : Letter(b[i], R, S, n) \/ Spoilt(b[i]) BY <1>1, <1>2, <1>4
<1>6. NetOK(b, R, S, n) BY <1>2, <1>5 DEF NetOK
<1> QED BY <1>6 DEF b

LEMMA NetShrinks ==
  ASSUME NEW s, NEW R, NEW S, NEW n, NetOK(s, R, S, n), NEW i \in DOMAIN s
  PROVE  NetOK(RemoveAt(s, i), R, S, n)
<1> DEFINE b == RemoveAt(s, i)
<1>1. IsStr(s, Len(s)) /\ i \in 1..Len(s) /\ \A j \in 1..Len(s) : Letter(s[j], R, S, n) \/ Spoilt(s[j])
  BY DEF NetOK, IsStr
<1>2. IsStr(b, Len(b)) /\ \A j \in 1..Len(b) : \E k \in 1..Len(s) : b[j] = s[k] BY <1>1, RemoveStr
<1> HIDE DEF b
<1>3. \A j \in 1..Len(b) : Letter(b[j], R, S, n) \/ Spoilt(b[j]) BY <1>1, <1>2
<1>4. NetOK(b, R, S, n) BY <1>2, <1>3 DEF NetOK
<1> QED BY <1>4 DEF b

LEMMA NetSpoils ==
  ASSUME NEW s, NEW R, NEW S, NEW n, NetOK(s, R, S, n), NEW i \in DOMAIN s, s[i].whole,
         NEW t, t = [s EXCEPT ![i].payload = <<<<"length", Len(@)>>>>, ![i].whole = FALSE]
  PROVE  NetOK(t, R, S, n)
<1> DEFINE m == s[i]
           len == Len(m.payload)
           x == [provider |-> m.provider, payload |-> <<<<"length", len>>>>, of |-> m.of, whole |-> FALSE]
<1>1. IsStr(s, Len(s)) /\ i \in 1..Len(s) /\ \A j \in 1..Len(s) : Letter(s[j], R, S, n) \/ Spoilt(s[j])
  BY DEF NetOK, IsStr
<1>2. Letter(m, R, S, n) BY <1>1 DEF Spoilt
<1>3. IsMessage(m) /\ len \in Nat \ {0} BY <1>2 DEF Letter
<1>4. t = [s EXCEPT ![i] = x]
  <2> DEFINE y == <<<<"length", len>>>>
             z == [m EXCEPT !.payload = y, !.whole = FALSE]
  <2> DEFINE p == m.provider
             q == m.payload
             o == m.of
             w == m.whole
  <2>1. m = [provider |-> p, payload |-> q, of |-> o, whole |-> w] BY <1>3 DEF IsMessage
  <2>2. t = [s EXCEPT ![i] = z] OBVIOUS
  <2>3. x = [provider |-> p, payload |-> y, of |-> o, whole |-> FALSE] OBVIOUS
  <2> HIDE DEF m, y, len, p, q, o, w, x
  <2> DEFINE M == [provider : {p}, payload : {q, y}, of : {o}, whole : {w, FALSE}]
  <2>4. m \in M BY <2>1
  <2>5. z \in M /\ z.payload = y /\ z.whole = FALSE BY <2>4
  <2> HIDE DEF z
  <2>6. z = [provider |-> p, payload |-> y, of |-> o, whole |-> FALSE] BY <2>5
  <2> QED BY <2>2, <2>3, <2>6
<1>5. unpack(x.payload, 2) = Torn BY <1>3, UnpackTorn
<1>6. Spoilt(x) BY <1>5 DEF Spoilt, IsMessage
<1> HIDE DEF x, m, len
<1>7. DOMAIN t = 1..Len(s) /\ t = [j \in 1..Len(s) |-> t[j]] /\ \A j \in 1..Len(s) : t[j] = IF j = i THEN x ELSE s[j]
  BY <1>1, <1>4 DEF IsStr
<1>8. IsStr(t, Len(s)) BY <1>1, <1>7 DEF IsStr
<1>9. Len(t) = Len(s) BY <1>8, StrLen
<1>10. \A j \in 1..Len(s) : Letter(t[j], R, S, n) \/ Spoilt(t[j]) BY <1>1, <1>6, <1>7
<1> QED BY <1>8, <1>9, <1>10 DEF NetOK

\* What the sealed envelope of a recipient is to it, and to nobody else.
LEMMA MailboxesDiffer ==
  ASSUME NEW r, NEW d, mailboxId(kemPublicBundle(r)) = mailboxId(kemPublicBundle(d))
  PROVE  r = d
<1>1. Block(<<"hash", kemPublicBundle(r)>>)[1][2] = Block(<<"hash", kemPublicBundle(d)>>)[1][2] BY DEF mailboxId
<1>2. <<"hash", kemPublicBundle(r)>> = <<"hash", kemPublicBundle(d)>> BY <1>1, BlockStr
<1>3. kemPublicBundle(r) = kemPublicBundle(d) BY <1>2
<1>4. kemPublicBundle(r).x = kemPublicBundle(d).x BY <1>3
<1> QED BY <1>4 DEF kemPublicBundle

LEMMA TranscriptsDiffer ==
  ASSUME NEW r, NEW c, NEW q, NEW b,
         signedTranscript(kemPublicBundle(r), c) = signedTranscript(kemPublicBundle(q), b)
  PROVE  r = q /\ c = b
<1>1. kemPublicBundle(r) = kemPublicBundle(q) /\ c = b BY DEF signedTranscript
<1>2. kemPublicBundle(r).x = kemPublicBundle(q).x BY <1>1
<1> QED BY <1>1, <1>2 DEF kemPublicBundle

LEMMA Verifies ==
  ASSUME NEW d, NEW w, NEW y, NEW z
  PROVE  verify(signPublicBundle(d), y, sign(w, z)) <=> d = w /\ y = z
<1>1. verify(signPublicBundle(d), y, sign(w, z)) <=> <<<<"ed", w>>, z>> = <<<<"ed", d>>, y>> /\ <<<<"dsa", w>>, z>> = <<<<"dsa", d>>, y>>
  BY DEF verify, sign, signPublicBundle
<1> QED BY <1>1

\* The signature is of a device of the named sender whose card r knows, for this
\* content and recipient.
Vouches(r, known, c, d, q, b) == d \in known \cup {r} /\ HandleOf[d] = c.from /\ q = r /\ b = c

LEMMA UnsealedIs ==
  ASSUME NEW r, NEW known, NEW c, NEW d \in Devices, NEW q, NEW b, NEW e
  PROVE  LET sig == SignatureOf(d, q, b)
             got == Unseals(r, known, Sealed(kemPublicBundle(r), c, sig, e))
             x == [content |-> c, sig |-> sig]
         IN got = {y \in {x} : Vouches(r, known, c, d, q, b)}
<1> DEFINE sig == SignatureOf(d, q, b)
           envelope == Sealed(kemPublicBundle(r), c, sig, e)
           opened == openEnvelope(r, envelope)
           message == signedTranscript(kemPublicBundle(r), c)
           whole == [content |-> c, sig |-> [ed |-> sig.ed, dsa |-> sig.dsa], message |-> message]
           x == [content |-> c, sig |-> sig]
           got == Unseals(r, known, envelope)
<1>1. opened = whole BY SealedOpens
<1>2. sig = [ed |-> sig.ed, dsa |-> sig.dsa] BY DEF SignatureOf, sign
<1>3. whole # Refuses
  <2>1. "message" \in DOMAIN whole /\ "message" \notin DOMAIN Refuses BY DEF Refuses
  <2> QED BY <2>1
<1>4. whole.content = c /\ whole.sig = sig /\ whole.message = message BY <1>2
<1>5. SignedBy(r, known, c.from, whole) <=> Vouches(r, known, c, d, q, b)
  <2>1. \A w \in known \cup {r} : verify(signPublicBundle(w), message, sig) <=> w = d /\ q = r /\ b = c
    <3>1. ASSUME NEW w \in known \cup {r}
          PROVE  verify(signPublicBundle(w), message, sig) <=> w = d /\ message = signedTranscript(kemPublicBundle(q), b)
      BY Verifies DEF SignatureOf
    <3>2. message = signedTranscript(kemPublicBundle(q), b) <=> q = r /\ b = c BY TranscriptsDiffer
    <3> QED BY <3>1, <3>2
  <2> QED BY <1>4, <2>1 DEF SignedBy, Vouches
<1> HIDE DEF sig, opened, whole, message
<1>6. got = {y \in {x} : SignedBy(r, known, c.from, whole)} BY <1>1, <1>3, <1>4 DEF Unseals, opened
<1> QED BY <1>5, <1>6 DEF sig

LEMMA UnsealedOnly ==
  ASSUME NEW r, NEW known, NEW c, NEW d \in Devices, NEW q, NEW b, NEW e,
         NEW y \in Unseals(r, known, Sealed(kemPublicBundle(r), c, SignatureOf(d, q, b), e))
  PROVE  y.content = c /\ y.sig = SignatureOf(d, q, b) /\ HandleOf[d] = c.from /\ q = r /\ b = c
<1> DEFINE sig == SignatureOf(d, q, b)
           got == Unseals(r, known, Sealed(kemPublicBundle(r), c, sig, e))
           x == [content |-> c, sig |-> sig]
<1>1. got = {z \in {x} : Vouches(r, known, c, d, q, b)} BY UnsealedIs
<1>2. x.content = c /\ x.sig = sig OBVIOUS
<1> HIDE DEF got, x, sig
<1>3. y \in got BY DEF got, sig
<1> QED BY <1>1, <1>2, <1>3 DEF sig, Vouches

LEMMA UnsealedBy ==
  ASSUME NEW r, NEW known, NEW c, NEW d \in Devices, NEW e, HandleOf[d] = c.from, d \in known
  PROVE  \E y \in Unseals(r, known, Sealed(kemPublicBundle(r), c, SignatureOf(d, r, c), e)) : y.content = c
<1> DEFINE sig == SignatureOf(d, r, c)
           got == Unseals(r, known, Sealed(kemPublicBundle(r), c, sig, e))
           x == [content |-> c, sig |-> sig]
<1>1. got = {z \in {x} : Vouches(r, known, c, d, r, c)} BY UnsealedIs
<1>2. x.content = c OBVIOUS
<1> HIDE DEF got, x
<1>3. x \in got BY <1>1 DEF Vouches
<1>4. \E y \in got : y.content = c BY <1>2, <1>3
<1> QED BY <1>4 DEF got, sig

LEMMA EnvelopedStr ==
  ASSUME NEW r, NEW c, NEW sig, NEW e
  PROVE  IsStr(mailboxId(kemPublicBundle(r)), 1) /\ IsStr(Sealed(kemPublicBundle(r), c, sig, e), 6)
<1> DEFINE bundle == kemPublicBundle(r)
           kem == encapsulate(bundle, e)
           plain == <<<<"version", 1>>>> \o pack(<<Block(c), Block(sig.ed), Block(sig.dsa)>>)
           x == Block(kem.header.epk)
           y == Block(kem.header.kct)
           z == Block([key |-> kem.sharedSecret, plain |-> plain])
           p == pack(<<x, y, z>>)
<1>1. IsStr(mailboxId(bundle), 1) BY BlockStr DEF mailboxId
<1>2. IsStr(x, 1) /\ IsStr(y, 1) /\ IsStr(z, 1) BY BlockStr
<1>3. p = Sealed(bundle, c, sig, e) BY DEF Sealed
<1> HIDE DEF x, y, z
<1>4. IsStr(p, 1 + 1 + 1 + 3) BY <1>2, PackThree
<1>5. 1 + 1 + 1 + 3 = 6 OBVIOUS
<1> HIDE DEF p
<1>6. IsStr(p, 6) BY <1>4, <1>5
<1> QED BY <1>1, <1>3, <1>6

\* Both networks carry what the recipient unpacks.
LEMMA Carried ==
  ASSUME NEW r, NEW c, NEW sig, NEW e, NEW z, NEW k, IsStr(z, k)
  PROVE  LET both == Enveloped(r, c, sig, e)
             plain == pack(both)
             padded == Cat(plain, z)
         IN /\ unpack(plain, 2) = both /\ Len(plain) \in Nat \ {0}
            /\ unpack(padded, 2) = both /\ Len(padded) \in Nat \ {0}
<1> DEFINE a == mailboxId(kemPublicBundle(r))
           b == Sealed(kemPublicBundle(r), c, sig, e)
           p == pack(<<a, b>>)
<1>1. IsStr(a, 1) /\ IsStr(b, 6) BY EnvelopedStr
<1>2. Enveloped(r, c, sig, e) = <<a, b>> BY DEF Enveloped
<1> HIDE DEF a, b
<1>3. unpack(p, 2) = <<a, b>> BY <1>1, Unpacked
<1>4. unpack(Cat(p, z), 2) = <<a, b>> BY <1>1, UnpackedPadded
<1>5. IsStr(p, 1 + 6 + 2) BY <1>1, PackTwo
<1>6. 1 + 6 + 2 = 9 /\ k \in Nat BY DEF IsStr
<1> HIDE DEF p
<1>7. IsStr(p, 9) BY <1>5, <1>6
<1>8. IsStr(Cat(p, z), 9 + k) BY <1>7, ConcatStr
<1>9. Len(p) = 9 /\ Len(Cat(p, z)) = 9 + k BY <1>7, <1>8, StrLen
<1>10. Len(p) \in Nat \ {0} /\ Len(Cat(p, z)) \in Nat \ {0} BY <1>6, <1>9
<1>11. p = pack(Enveloped(r, c, sig, e)) BY <1>2 DEF p
<1> QED BY <1>2, <1>3, <1>4, <1>10, <1>11

LEMMA LetterIs ==
  ASSUME NEW R, NEW S, NEW n \in Nat, NEW r \in Devices, NEW d \in Devices, NEW q \in Devices,
         NEW c \in Sent(R), NEW b \in Sent(R), <<b, HandleOf[d], q>> \in S, NEW e \in 1..n,
         NEW payload, Len(payload) \in Nat \ {0},
         unpack(payload, 2) = Enveloped(r, c, SignatureOf(d, q, b), e),
         NEW whole \in BOOLEAN, whole => d = Page /\ q = r /\ b = c
  PROVE  Letter([provider |-> ProviderOf[r], payload |-> payload, of |-> c, whole |-> whole], R, S, n)
<1> DEFINE m == [provider |-> ProviderOf[r], payload |-> payload, of |-> c, whole |-> whole]
<1>1. m.payload = payload /\ m.whole = whole /\ m.of = c /\ m.provider = ProviderOf[r] OBVIOUS
<1>2. IsMessage(m) BY DEF IsMessage
<1> HIDE DEF m
<1>3. Reads(m, S, r, d, q, c, b, e) BY <1>1 DEF Reads
<1>4. Letter(m, R, S, n) BY <1>1, <1>2, <1>3 DEF Letter
<1> QED BY <1>4 DEF m

LEMMA PageLetter ==
  ASSUME NEW R, NEW S, NEW e \in Nat \ {0}, NEW r \in Devices, NEW c \in Sent(R),
         <<c, HandleOf[Page], r>> \in S, NEW payload,
         payload = buildInner(card(r), c, Page, e) \/ payload = paddedInner(card(r), c, Page, e)
  PROVE  Letter([provider |-> ProviderOf[r], payload |-> payload, of |-> c, whole |-> TRUE], R, S, e)
<1> DEFINE sig == SignatureOf(Page, r, c)
           both == Enveloped(r, c, sig, e)
           plain == pack(both)
           z == [i \in 1..Padding |-> <<"zero", 0>>]
           padded == Cat(plain, z)
<1>1. Page \in Devices /\ Padding \in Nat BY EnvelopeAssumption
<1>2. IsStr(z, Padding) BY <1>1 DEF IsStr
<1>3. buildInner(card(r), c, Page, e) = plain
  BY DEF buildInner, card, sealEnvelope, Enveloped, SignatureOf
<1>4. paddedInner(card(r), c, Page, e) = padded BY <1>3 DEF paddedInner, Cat
<1> HIDE DEF z, sig
<1>5. /\ unpack(plain, 2) = both /\ Len(plain) \in Nat \ {0}
      /\ unpack(padded, 2) = both /\ Len(padded) \in Nat \ {0}
  BY <1>2, Carried
<1> HIDE DEF plain, padded, both
<1>6. unpack(payload, 2) = both /\ Len(payload) \in Nat \ {0} BY <1>3, <1>4, <1>5
<1>7. e \in 1..e /\ TRUE \in BOOLEAN OBVIOUS
<1>8. unpack(payload, 2) = Enveloped(r, c, SignatureOf(Page, r, c), e) BY <1>6 DEF both, sig
<1> QED BY <1>1, <1>6, <1>7, <1>8, LetterIs

-----------------------------------------------------------------------------
(* The steps of the page, the networks and the devices                     *)

\* More is reported, more is sealed.
Grows ==
  /\ seals' \in Nat /\ seals <= seals' /\ sealedFor \subseteq sealedFor' /\ reported \subseteq reported'

LEMMA SentGrows == ASSUME Grows PROVE Sent(reported) \subseteq Sent(reported')
BY DEF Grows, Sent

LEMMA NetStays ==
  ASSUME LettersInv, Grows
  PROVE  NetOK(net, reported', sealedFor', seals')
<1>1. /\ seals \in Nat /\ seals' \in Nat /\ seals <= seals' /\ sealedFor \subseteq sealedFor'
      /\ reported \subseteq reported' /\ NetOK(net, reported, sealedFor, seals)
  BY DEF LettersInv, Grows
<1> QED BY <1>1, NetKept

LEMMA TakenStays ==
  ASSUME LettersInv, Grows, NEW d \in Devices, NEW x \in taken[d]
  PROVE  TakenOK(d, x, reported', sealedFor')
<1>1. TakenOK(d, x, reported, sealedFor) BY DEF LettersInv
<1>2. Sent(reported) \subseteq Sent(reported') BY SentGrows
<1>3. sealedFor \subseteq sealedFor' BY DEF Grows
<1>4. PICK w \in Devices, q \in Devices, b \in Sent(reported) :
        <<b, HandleOf[w], q>> \in sealedFor /\ x.sig = SignatureOf(w, q, b)
  BY <1>1 DEF TakenOK, Genuine
<1>5. Genuine(x.sig, reported', sealedFor') BY <1>2, <1>3, <1>4 DEF Genuine
<1> QED BY <1>1, <1>2, <1>3, <1>5 DEF TakenOK

LEMMA PostedOK ==
  ASSUME LettersInv, Grows, NEW r \in Devices, NEW c \in Sent(reported'), NEW payload,
         Seals(c, Page, r), Posts(r, payload, c),
         payload = buildInner(card(r), c, Page, seals + 1) \/ payload = paddedInner(card(r), c, Page, seals + 1)
  PROVE  NetOK(net', reported', sealedFor', seals')
<1> DEFINE m == [provider |-> ProviderOf[r], payload |-> payload, of |-> c, whole |-> TRUE]
           e == seals + 1
<1>1. seals \in Nat BY DEF LettersInv
<1>2. e \in Nat \ {0} /\ seals' = e /\ <<c, HandleOf[Page], r>> \in sealedFor' BY <1>1 DEF Seals
<1>3. Letter(m, reported', sealedFor', e)
  <2> HIDE DEF m
  <2>1. payload = buildInner(card(r), c, Page, e) \/ payload = paddedInner(card(r), c, Page, e) OBVIOUS
  <2> HIDE DEF e
  <2> QED BY <1>2, <2>1, PageLetter DEF m
<1>4. NetOK(net, reported', sealedFor', e) BY <1>2, NetStays
<1>5. net' = Append(net, m) BY DEF Posts
<1> HIDE DEF m, e
<1>6. NetOK(Append(net, m), reported', sealedFor', e) BY <1>3, <1>4, NetGrows
<1> QED BY <1>2, <1>5, <1>6

LEMMA InternalOK ==
  ASSUME LettersInv, reported \subseteq reported', NEW r \in Devices, NEW c \in Sent(reported'), internalSubmit(c, r)
  PROVE  Grows /\ NetOK(net', reported', sealedFor', seals')
<1>1. seals \in Nat BY DEF LettersInv
<1>2. CASE ~uplink.ws
  <2>1. net' = net /\ seals' = seals /\ sealedFor' = sealedFor BY <1>2 DEF internalSubmit
  <2>2. Grows BY <1>1, <2>1 DEF Grows
  <2> QED BY <2>1, <2>2, NetStays
<1>3. CASE uplink.ws
  <2> DEFINE payload == paddedInner(card(r), c, Page, seals + 1)
  <2>1. Seals(c, Page, r) /\ Posts(r, payload, c) BY <1>3 DEF internalSubmit
  <2>2. Grows BY <1>1, <2>1 DEF Grows, Seals
  <2> HIDE DEF payload
  <2>3. payload = paddedInner(card(r), c, Page, seals + 1) BY DEF payload
  <2>4. NetOK(net', reported', sealedFor', seals') BY <2>1, <2>2, <2>3, PostedOK
  <2> QED BY <2>2, <2>4
<1> QED BY <1>2, <1>3

LEMMA NymOK ==
  ASSUME LettersInv, reported \subseteq reported', NEW r \in Devices, NEW c \in Sent(reported'), nymSubmit(c, r)
  PROVE  Grows /\ NetOK(net', reported', sealedFor', seals')
<1> DEFINE payload == buildInner(card(r), c, Page, seals + 1)
<1>1. seals \in Nat BY DEF LettersInv
<1>2. Seals(c, Page, r) /\ (Posts(r, payload, c) \/ UNCHANGED net) BY DEF nymSubmit
<1>3. Grows BY <1>1, <1>2 DEF Grows, Seals
<1>4. CASE Posts(r, payload, c)
  <2> HIDE DEF payload
  <2>1. payload = buildInner(card(r), c, Page, seals + 1) BY DEF payload
  <2>2. NetOK(net', reported', sealedFor', seals') BY <1>2, <1>3, <1>4, <2>1, PostedOK
  <2> QED BY <1>3, <2>2
<1>5. CASE UNCHANGED net BY <1>3, <1>5, NetStays
<1> QED BY <1>2, <1>4, <1>5

\* What a step does to the rest.
LEMMA SubmitOK ==
  ASSUME LettersInv, reported \subseteq reported', NEW r \in Devices, NEW c \in Sent(reported'), submit(c, r)
  PROVE  /\ Grows /\ NetOK(net', reported', sealedFor', seals')
         /\ \A s \in sends' : s.content \in Sent(reported') /\ s.to \in Devices
<1>1. CASE OverNym
  <2>1. nymSubmit(c, r) BY <1>1 DEF submit
  <2>2. Grows /\ NetOK(net', reported', sealedFor', seals') BY <2>1, NymOK
  <2>3. sends' = sends \cup {[content |-> c, to |-> r]} BY <2>1 DEF nymSubmit
  <2>4. \A s \in sends : s.content \in Sent(reported') /\ s.to \in Devices BY <2>2, SentGrows DEF LettersInv
  <2> QED BY <2>2, <2>3, <2>4
<1>2. CASE ~OverNym
  <2>1. internalSubmit(c, r) /\ sends' = sends BY <1>2 DEF submit
  <2>2. Grows /\ NetOK(net', reported', sealedFor', seals') BY <2>1, InternalOK
  <2>3. \A s \in sends : s.content \in Sent(reported') /\ s.to \in Devices BY <2>2, SentGrows DEF LettersInv
  <2> QED BY <2>1, <2>2, <2>3
<1> QED BY <1>1, <1>2

LEMMA RestStays ==
  ASSUME LettersInv, Grows, NetOK(net', reported', sealedFor', seals'), UNCHANGED <<taken, refused>>,
         \A s \in sends' : s.content \in Sent(reported') /\ s.to \in Devices
  PROVE  LettersInv'
<1>1. \A d \in Devices : \A x \in taken[d] : TakenOK(d, x, reported', sealedFor') BY TakenStays
<1>2. taken = [d \in Devices |-> taken[d]] /\ refused = {} BY DEF LettersInv
<1> QED BY <1>1, <1>2 DEF LettersInv, Grows

LEMMA ArrivesOK ==
  ASSUME LettersInv, NEW i \in DOMAIN net, NEW again \in BOOLEAN, NEW known \in SUBSET Devices,
         arrives(i, again, known)
  PROVE  LettersInv'
<1> DEFINE m == net[i]
           inner == unpack(m.payload, 2)
           at == {d \in Devices : inner # Torn /\ ProviderOf[d] = m.provider /\ card(d).mailbox = inner[1]}
           got == [d \in Devices |-> IF d \in at THEN Unseals(d, known, inner[2]) ELSE {}]
<1>1. Grows BY DEF LettersInv, Grows, arrives
<1>2. NetOK(net', reported', sealedFor', seals')
  <2>1. NetOK(net, reported', sealedFor', seals') BY <1>1, NetStays
  <2>2. NetOK(RemoveAt(net, i), reported', sealedFor', seals') BY <2>1, NetShrinks
  <2>3. net' = net \/ net' = RemoveAt(net, i) BY DEF arrives
  <2> QED BY <2>1, <2>2, <2>3
<1>3. taken' = [d \in Devices |-> taken[d] \cup {x \in got[d] : x.content # Cover}]
  BY DEF arrives
<1>4. refused' = IF m.whole /\ Page \in known /\ ~\E d \in Devices : \E x \in got[d] : x.content = m.of
                 THEN refused \cup {m.of} ELSE refused
  BY DEF arrives
<1>5. sends' = sends /\ reported' = reported /\ sealedFor' = sealedFor /\ seals' = seals BY DEF arrives
<1>6. Letter(m, reported, sealedFor, seals) \/ Spoilt(m) BY DEF LettersInv, NetOK, IsStr
<1>7. /\ \A d \in Devices : \A x \in got[d] : x.content # Cover => TakenOK(d, x, reported, sealedFor)
      /\ m.whole /\ Page \in known => \E d \in Devices : \E x \in got[d] : x.content = m.of
  <2>1. CASE Spoilt(m)
    <3>1. inner = Torn /\ ~m.whole BY <2>1 DEF Spoilt
    <3>2. \A d \in Devices : got[d] = {} BY <3>1
    <3> QED BY <3>1, <3>2
  <2>2. CASE Letter(m, reported, sealedFor, seals)
    <3>1. PICK r \in Devices, d \in Devices, q \in Devices, c \in Sent(reported), b \in Sent(reported), e \in 1..seals :
            Reads(m, sealedFor, r, d, q, c, b, e)
      BY <2>2 DEF Letter
    <3> DEFINE sig == SignatureOf(d, q, b)
               box == mailboxId(kemPublicBundle(r))
               envelope == Sealed(kemPublicBundle(r), c, sig, e)
    <3>2. /\ <<b, HandleOf[d], q>> \in sealedFor /\ inner = <<box, envelope>>
          /\ m.whole => d = Page /\ q = r /\ b = c /\ m.of = c /\ m.provider = ProviderOf[r]
      BY <3>1 DEF Reads, Enveloped
    <3>3. inner # Torn /\ inner[1] = box /\ inner[2] = envelope BY <3>2 DEF Torn
    <3>4. \A w \in Devices : card(w).mailbox = mailboxId(kemPublicBundle(w)) BY DEF card
    <3>5. at \subseteq {r} BY <3>3, <3>4, MailboxesDiffer
    <3>6. m.provider = ProviderOf[r] => r \in at BY <3>3, <3>4
    <3>7. d \in Devices BY <3>1
    <3>9. Genuine(sig, reported, sealedFor) BY <3>2 DEF Genuine
    <3>10. \A w \in Devices : got[w] = IF w \in at THEN Unseals(w, known, inner[2]) ELSE {} OBVIOUS
    <3> HIDE DEF sig, envelope, inner, at, got, box, m
    <3>11. ASSUME NEW w \in Devices, NEW y \in got[w], y.content # Cover
           PROVE  TakenOK(w, y, reported, sealedFor)
      <4>1. w = r /\ y \in Unseals(r, known, envelope) BY <3>3, <3>5, <3>10, <3>11
      <4>2. y.content = c /\ y.sig = sig /\ HandleOf[d] = c.from /\ q = r /\ b = c
        <5>1. y \in Unseals(r, known, Sealed(kemPublicBundle(r), c, SignatureOf(d, q, b), e)) BY <4>1 DEF envelope, sig
        <5> QED BY <3>7, <5>1, UnsealedOnly DEF sig
      <4>3. <<c, c.from, w>> \in sealedFor BY <3>2, <4>1, <4>2
      <4> QED BY <3>9, <3>11, <4>2, <4>3 DEF TakenOK
    <3>12. ASSUME m.whole, Page \in known
           PROVE  \E w \in Devices : \E y \in got[w] : y.content = m.of
      <4>1. d = Page /\ q = r /\ b = c /\ m.of = c /\ r \in at BY <3>2, <3>6, <3>12
      <4>2. c.from = HandleOf[Page] BY DEF Sent, ContentOf, Cover
      <4>3. \E y \in Unseals(r, known, envelope) : y.content = c
        <5>1. HandleOf[d] = c.from BY <4>1, <4>2
        <5>2. envelope = Sealed(kemPublicBundle(r), c, SignatureOf(d, r, c), e) BY <4>1 DEF envelope, sig
        <5> HIDE DEF envelope
        <5> QED BY <3>7, <3>12, <4>1, <5>1, <5>2, UnsealedBy
      <4>4. got[r] = Unseals(r, known, envelope) BY <3>3, <3>10, <4>1
      <4> QED BY <4>1, <4>3, <4>4
    <3> QED BY <3>11, <3>12 DEF got, inner, at, m
  <2> QED BY <1>6, <2>1, <2>2
<1> HIDE DEF got, m
<1>8. refused' = {} BY <1>4, <1>7 DEF LettersInv
<1>9. /\ taken' = [d \in Devices |-> taken'[d]]
      /\ \A d \in Devices : taken'[d] = taken[d] \cup {x \in got[d] : x.content # Cover}
  BY <1>3
<1>10. \A d \in Devices : \A x \in taken'[d] : TakenOK(d, x, reported, sealedFor) BY <1>7, <1>9 DEF LettersInv
<1> QED BY <1>1, <1>2, <1>5, <1>8, <1>9, <1>10 DEF LettersInv, Grows

LEMMA PassesOnOK ==
  ASSUME LettersInv, NEW d \in Devices, NEW r \in Devices, NEW signs \in BOOLEAN, NEW x \in taken[d],
         passesOn(d, x, r, signs)
  PROVE  LettersInv'
<1> DEFINE c == x.content
           e == seals + 1
           sig == IF signs THEN SignatureOf(d, r, c) ELSE x.sig
           payload == pack(Enveloped(r, c, sig, e))
           m == [provider |-> ProviderOf[r], payload |-> payload, of |-> c, whole |-> FALSE]
<1>1. TakenOK(d, x, reported, sealedFor) /\ seals \in Nat BY DEF LettersInv
<1>2. c \in Sent(reported) BY <1>1 DEF TakenOK
<1>3. /\ seals' = e /\ sealedFor' = IF signs THEN sealedFor \cup {<<c, HandleOf[d], r>>} ELSE sealedFor
      /\ UNCHANGED <<uplink, letters, reported, sends, taken, refused>>
  BY DEF passesOn, Seals
<1>4. net' = Append(net, m)
  BY DEF passesOn, card, Enveloped, SignatureOf
<1>5. Grows BY <1>1, <1>3 DEF Grows
<1>6. PICK w \in Devices, q \in Devices, b \in Sent(reported) :
        <<b, HandleOf[w], q>> \in sealedFor' /\ sig = SignatureOf(w, q, b)
  <2>1. CASE signs BY <1>2, <1>3, <2>1
  <2>2. CASE ~signs BY <1>1, <1>3, <2>2 DEF TakenOK, Genuine
  <2> QED BY <2>1, <2>2
<1>7. unpack(payload, 2) = Enveloped(r, c, sig, e) /\ Len(payload) \in Nat \ {0}
  <2>1. IsStr(<<>>, 0) BY EmptyStr
  <2> QED BY <2>1, Carried
<1> HIDE DEF payload, sig, c
<1>8. Letter(m, reported, sealedFor', e)
  <2>1. e \in Nat /\ e \in 1..e /\ FALSE \in BOOLEAN BY <1>1
  <2>2. unpack(payload, 2) = Enveloped(r, c, SignatureOf(w, q, b), e) BY <1>6, <1>7
  <2> HIDE DEF e
  <2> QED BY <1>2, <1>6, <1>7, <2>1, <2>2, LetterIs
<1>9. NetOK(net, reported, sealedFor', e) BY <1>3, <1>5, NetStays
<1> HIDE DEF m, e
<1>10. NetOK(Append(net, m), reported, sealedFor', e) BY <1>8, <1>9, NetGrows
<1>11. NetOK(net', reported', sealedFor', seals') BY <1>3, <1>4, <1>10
<1>12. \A s \in sends' : s.content \in Sent(reported') /\ s.to \in Devices BY <1>3 DEF LettersInv
<1> QED BY <1>3, <1>5, <1>11, <1>12, RestStays

LEMMA LettersStart == LettersInit => LettersInv
<1> SUFFICES ASSUME LettersInit PROVE LettersInv OBVIOUS
<1>1. net = <<>> /\ seals = 0 /\ sends = {} /\ refused = {} /\ taken = [d \in Devices |-> {}] BY DEF LettersInit
<1>2. Len(<<>>) = 0 /\ IsStr(<<>>, 0) BY EmptyStr
<1>3. NetOK(net, reported, sealedFor, seals) BY <1>1, <1>2 DEF NetOK
<1> QED BY <1>1, <1>3 DEF LettersInv

LEMMA LettersStep == LettersInv /\ [LettersNext]_letterVars => LettersInv'
<1> SUFFICES ASSUME LettersInv, [LettersNext]_letterVars PROVE LettersInv' OBVIOUS
<1>1. ASSUME UNCHANGED Outbox PROVE LettersInv' BY <1>1 DEF LettersInv, Outbox
<1>2. CASE UNCHANGED letterVars BY <1>1, <1>2 DEF letterVars, Outbox
<1>3. CASE socketChanges BY <1>1, <1>3 DEF socketChanges
<1>4. CASE nymConnected BY <1>1, <1>4 DEF nymConnected
<1>5. ASSUME NEW ok \in BOOLEAN, nymCreated(ok) PROVE LettersInv' BY <1>1, <1>5 DEF nymCreated
<1>6. ASSUME NEW via \in {"internal", "nym"}, NEW address \in BOOLEAN, applyStatus(via, address) PROVE LettersInv'
  BY <1>1, <1>6 DEF applyStatus
<1>7. CASE sendCover
  <2>1. submit(Cover, Page) /\ UNCHANGED <<letters, reported, taken, refused>> BY <1>7 DEF sendCover
  <2>2. Page \in Devices /\ Cover \in Sent(reported') BY EnvelopeAssumption DEF Sent
  <2>3. /\ Grows /\ NetOK(net', reported', sealedFor', seals')
        /\ \A s \in sends' : s.content \in Sent(reported') /\ s.to \in Devices
    BY <2>1, <2>2, SubmitOK
  <2> QED BY <2>1, <2>3, RestStays
<1>8. ASSUME NEW l \in Letters, NEW r \in Devices \ {Page}, sendToCard(l, r) PROVE LettersInv'
  <2>1. /\ submit(ContentOf(l), r) /\ UNCHANGED <<taken, refused>>
        /\ reported' = IF OverNym \/ uplink.ws THEN reported \cup {l} ELSE reported
    BY <1>8 DEF sendToCard
  <2>2. CASE OverNym \/ uplink.ws
    <3>1. ContentOf(l) \in Sent(reported') /\ reported \subseteq reported' BY <2>1, <2>2 DEF Sent
    <3>2. /\ Grows /\ NetOK(net', reported', sealedFor', seals')
          /\ \A s \in sends' : s.content \in Sent(reported') /\ s.to \in Devices
      BY <2>1, <3>1, SubmitOK
    <3> QED BY <2>1, <3>2, RestStays
  <2>3. CASE ~OverNym /\ ~uplink.ws
    <3>1. UNCHANGED <<net, seals, sealedFor, sends, reported>> BY <2>1, <2>3 DEF submit, internalSubmit
    <3> QED BY <2>1, <3>1 DEF LettersInv
  <2> QED BY <2>2, <2>3
<1>9. ASSUME NEW s \in sends, NEW failed \in BOOLEAN, nymSettles(s, failed) PROVE LettersInv'
  <2>1. sends' = sends \ {s} /\ UNCHANGED <<uplink, letters, reported, taken, refused>> BY <1>9 DEF nymSettles
  <2>2. \A t \in sends' : t.content \in Sent(reported') /\ t.to \in Devices BY <2>1 DEF LettersInv
  <2>3. CASE failed
    <3>1. internalSubmit(s.content, s.to) BY <1>9, <2>3 DEF nymSettles
    <3>2. s.content \in Sent(reported') /\ s.to \in Devices /\ reported \subseteq reported' BY <2>1 DEF LettersInv
    <3>3. Grows /\ NetOK(net', reported', sealedFor', seals') BY <3>1, <3>2, InternalOK
    <3> QED BY <2>1, <2>2, <3>3, RestStays
  <2>4. CASE ~failed
    <3>1. UNCHANGED <<net, seals, sealedFor>> BY <1>9, <2>4 DEF nymSettles
    <3> QED BY <2>1, <2>2, <3>1 DEF LettersInv
  <2> QED BY <2>3, <2>4
<1>10. ASSUME NEW i \in DOMAIN net, loses(i) PROVE LettersInv'
  <2>1. NetOK(RemoveAt(net, i), reported, sealedFor, seals) BY NetShrinks DEF LettersInv
  <2> QED BY <1>10, <2>1 DEF loses, LettersInv
<1>11. ASSUME NEW i \in DOMAIN net, spoils(i) PROVE LettersInv'
  <2>1. /\ net[i].whole /\ UNCHANGED <<uplink, letters, reported, sends, taken, seals, sealedFor, refused>>
        /\ net' = [net EXCEPT ![i].payload = <<<<"length", Len(@)>>>>, ![i].whole = FALSE]
    BY <1>11 DEF spoils
  <2>2. NetOK(net', reported, sealedFor, seals) BY <2>1, NetSpoils DEF LettersInv
  <2> QED BY <2>1, <2>2 DEF LettersInv
<1>12. ASSUME NEW i \in DOMAIN net, NEW again \in BOOLEAN, NEW known \in SUBSET Devices, arrives(i, again, known)
       PROVE  LettersInv'
  BY <1>12, ArrivesOK
<1>13. ASSUME NEW d \in Devices, NEW r \in Devices, NEW signs \in BOOLEAN, NEW x \in taken[d], passesOn(d, x, r, signs)
       PROVE  LettersInv'
  BY <1>13, PassesOnOK
<1> QED BY <1>2, <1>3, <1>4, <1>5, <1>6, <1>7, <1>8, <1>9, <1>10, <1>11, <1>12, <1>13 DEF LettersNext

LEMMA LettersInvTrue == LettersInv => LettersTrue
<1> SUFFICES ASSUME LettersInv PROVE LettersTrue OBVIOUS
<1>1. ASSUME NEW d \in Devices, NEW x \in taken[d]
      PROVE  <<x.content, x.content.from, d>> \in sealedFor /\ x.content.id \in reported
  <2>1. TakenOK(d, x, reported, sealedFor) BY DEF LettersInv
  <2>2. PICK l \in reported : x.content = ContentOf(l) BY <2>1 DEF TakenOK, Sent
  <2>3. x.content.id = l BY <2>2 DEF ContentOf
  <2> QED BY <2>1, <2>3 DEF TakenOK
<1> QED BY <1>1 DEF LettersTrue, LettersInv

\* For any devices, providers, letters and padding, with both networks losing,
\* repeating, reordering and spoiling messages: a content is taken under a handle
\* only if a device of it signed and sealed it for this device, nothing that was
\* reported as not sent arrives, and every envelope that comes whole is taken by a
\* device that has the card of the sender's device or looks it up.
THEOREM LettersAreTrue == LettersSpec => []LettersTrue
<1>1. LettersSpec => []LettersInv BY LettersStart, LettersStep, PTL DEF LettersSpec
<1> QED BY <1>1, LettersInvTrue, PTL
===============================================================================
