--------------------------- MODULE FileStoreProofs ---------------------------
(***************************************************************************)
(* Theorems about FileStore, for any ids, owners, sizes and quota, and any *)
(* upload limit within the sweep's age guard.                              *)
(***************************************************************************)
EXTENDS FileStore, WellFoundedInduction, FiniteSetTheorems, TLAPS

USE FileStoreAssumption

-----------------------------------------------------------------------------
(* What an owner has is a sum over a set: the facts needed of such a sum are  *)
(* proved by induction on the size of the set, from the library's theorem    *)
(* that a set of naturals has a least element.                               *)

LEMMA NaturalsFrom0 ==
  ASSUME NEW S, 0 \in S, \A n \in Nat : n \in S => n + 1 \in S
  PROVE  Nat \subseteq S
<1> DEFINE T == Nat \ S
           R == OpToRel(<, Nat)
<1> SUFFICES ASSUME T # {} PROVE FALSE OBVIOUS
<1>1. IsWellFoundedOn(R, Nat) BY NatLessThanWellFounded, Zenon
<1>2. \A y \in Nat, x \in Nat : y < x => <<y, x>> \in R BY DEF OpToRel
<1> HIDE DEF R
<1>3. PICK x \in T : \A y \in T : <<y, x>> \notin R BY <1>1, WFMin
<1>4. x # 0 /\ x - 1 \in Nat /\ x - 1 < x BY <1>3
<1>5. x - 1 \notin T BY <1>2, <1>3, <1>4
<1> QED BY <1>3, <1>4, <1>5

\* The sum of the sizes of S is what this function says of S, if there is one.
Chosen(s) == CHOOSE i \in s : TRUE
Sums(g, D) == g = [s \in D |-> IF s = {} THEN 0 ELSE Size[Chosen(s)] + g[s \ {Chosen(s)}]]
Bytes(S) == MapThenSumSet(LAMBDA i : Size[i], S)

LEMMA BytesByDef ==
  ASSUME NEW S
  PROVE  Bytes(S) = (CHOOSE g : Sums(g, SUBSET S))[S]
BY DEF Bytes, MapThenSumSet, MapThenFoldSet, Sums, Chosen

LEMMA SumsValue ==
  ASSUME NEW g, NEW D, Sums(g, D), NEW s \in D
  PROVE  g[s] = IF s = {} THEN 0 ELSE Size[Chosen(s)] + g[s \ {Chosen(s)}]
BY DEF Sums

LEMMA ChosenIn == ASSUME NEW s, s # {} PROVE Chosen(s) \in s
BY DEF Chosen

Upto(S, n) == {s \in SUBSET S : Cardinality(s) <= n}

LEMMA UptoSmaller ==
  ASSUME NEW S, IsFiniteSet(S), NEW n \in Nat, NEW s \in Upto(S, n + 1), NEW i \in s
  PROVE  s \ {i} \in Upto(S, n) /\ Cardinality(s \ {i}) < Cardinality(s)
<1>1. IsFiniteSet(s) BY FS_Subset DEF Upto
<1>2. Cardinality(s) \in Nat /\ Cardinality(s \ {i}) = Cardinality(s) - 1
  BY <1>1, FS_CardinalityType, FS_RemoveElement
<1> QED BY <1>2 DEF Upto

LEMMA SumsExist ==
  ASSUME NEW S, IsFiniteSet(S)
  PROVE  \E g : Sums(g, SUBSET S)
<1> DEFINE N == {n \in Nat : \E g : Sums(g, Upto(S, n))}
<1>1. \A s \in SUBSET S : IsFiniteSet(s) /\ Cardinality(s) \in Nat
  BY FS_Subset, FS_CardinalityType
<1>2. 0 \in N
  <2> DEFINE g == [s \in Upto(S, 0) |-> 0]
  <2>1. \A s \in Upto(S, 0) : s = {} BY <1>1, FS_EmptySet DEF Upto
  <2>2. Sums(g, Upto(S, 0)) BY <2>1 DEF Sums
  <2> QED BY <2>2
<1>3. ASSUME NEW n \in Nat, n \in N PROVE n + 1 \in N
  <2>1. PICK g : Sums(g, Upto(S, n)) BY <1>3
  <2> DEFINE h == [s \in Upto(S, n + 1) |-> IF s = {} THEN 0 ELSE Size[Chosen(s)] + g[s \ {Chosen(s)}]]
  <2>2. ASSUME NEW s \in Upto(S, n) PROVE s \in Upto(S, n + 1) /\ h[s] = g[s]
    <3>1. s \in Upto(S, n + 1) BY <1>1 DEF Upto
    <3>2. g[s] = IF s = {} THEN 0 ELSE Size[Chosen(s)] + g[s \ {Chosen(s)}] BY <2>1, SumsValue
    <3> QED BY <3>1, <3>2
  <2>3. ASSUME NEW s \in Upto(S, n + 1), s # {} PROVE h[s] = Size[Chosen(s)] + h[s \ {Chosen(s)}]
    <3>1. s \ {Chosen(s)} \in Upto(S, n) BY <2>3, ChosenIn, UptoSmaller
    <3>2. h[s \ {Chosen(s)}] = g[s \ {Chosen(s)}] BY <2>2, <3>1
    <3>3. h[s] = Size[Chosen(s)] + g[s \ {Chosen(s)}] BY <2>3
    <3> QED BY <3>2, <3>3
  <2>4. \A s \in Upto(S, n + 1) : s = {} => h[s] = 0 OBVIOUS
  <2>5. DOMAIN h = Upto(S, n + 1) /\ h = [s \in DOMAIN h |-> h[s]] OBVIOUS
  <2> HIDE DEF h
  <2>6. Sums(h, Upto(S, n + 1)) BY <2>3, <2>4, <2>5 DEF Sums
  <2> QED BY <2>6
<1>4. Nat \subseteq N
  <2> HIDE DEF N
  <2> QED BY <1>2, <1>3, NaturalsFrom0
<1>5. Cardinality(S) \in Nat /\ Upto(S, Cardinality(S)) = SUBSET S BY <1>1, FS_Subset DEF Upto
<1>6. Cardinality(S) \in N BY <1>4, <1>5
<1> QED BY <1>5, <1>6

LEMMA BytesSums ==
  ASSUME NEW S, IsFiniteSet(S)
  PROVE  LET g == CHOOSE g : Sums(g, SUBSET S) IN Sums(g, SUBSET S) /\ Bytes(S) = g[S]
BY SumsExist, BytesByDef

\* A sum is the same whatever set it was made for.
LEMMA SumsAgree ==
  ASSUME NEW S, IsFiniteSet(S), NEW T \in SUBSET S,
         NEW g, Sums(g, SUBSET S), NEW h, Sums(h, SUBSET T)
  PROVE  g[T] = h[T]
<1> DEFINE N == {n \in Nat : \A s \in Upto(T, n) : g[s] = h[s]}
<1>1. IsFiniteSet(T) /\ Cardinality(T) \in Nat BY FS_Subset, FS_CardinalityType
<1>2. \A s \in SUBSET T : IsFiniteSet(s) /\ Cardinality(s) \in Nat BY <1>1, FS_Subset, FS_CardinalityType
<1>3. 0 \in N
  <2>1. \A s \in Upto(T, 0) : s = {} BY <1>2, FS_EmptySet DEF Upto
  <2>2. {} \in SUBSET S /\ {} \in SUBSET T OBVIOUS
  <2>3. g[{}] = 0 BY <2>2, SumsValue
  <2>4. h[{}] = 0 BY <2>2, SumsValue
  <2> QED BY <2>1, <2>3, <2>4
<1>4. ASSUME NEW n \in Nat, n \in N PROVE n + 1 \in N
  <2> SUFFICES ASSUME NEW s \in Upto(T, n + 1) PROVE g[s] = h[s] OBVIOUS
  <2>1. s \in SUBSET T /\ s \in SUBSET S BY DEF Upto
  <2>2. s # {} => s \ {Chosen(s)} \in Upto(T, n) BY <1>1, ChosenIn, UptoSmaller
  <2>3. s # {} => g[s \ {Chosen(s)}] = h[s \ {Chosen(s)}] BY <1>4, <2>2
  <2>4. g[s] = IF s = {} THEN 0 ELSE Size[Chosen(s)] + g[s \ {Chosen(s)}] BY <2>1, SumsValue
  <2>5. h[s] = IF s = {} THEN 0 ELSE Size[Chosen(s)] + h[s \ {Chosen(s)}] BY <2>1, SumsValue
  <2> QED BY <2>3, <2>4, <2>5
<1>5. Nat \subseteq N
  <2> HIDE DEF N
  <2> QED BY <1>3, <1>4, NaturalsFrom0
<1>6. T \in Upto(T, Cardinality(T)) BY <1>1 DEF Upto
<1> QED BY <1>1, <1>5, <1>6

\* It is a natural number, and any member may be taken out first.
LEMMA SumsTakeAny ==
  ASSUME NEW S \in SUBSET Ids, IsFiniteSet(S), NEW g, Sums(g, SUBSET S), NEW t \in SUBSET S
  PROVE  g[t] \in Nat /\ \A i \in t : g[t] = Size[i] + g[t \ {i}]
<1> DEFINE N == {n \in Nat : \A s \in Upto(S, n) : g[s] \in Nat /\ \A i \in s : g[s] = Size[i] + g[s \ {i}]}
<1>1. \A s \in SUBSET S : IsFiniteSet(s) /\ Cardinality(s) \in Nat BY FS_Subset, FS_CardinalityType
<1>2. 0 \in N
  <2> SUFFICES ASSUME NEW s \in Upto(S, 0) PROVE g[s] \in Nat /\ \A i \in s : g[s] = Size[i] + g[s \ {i}]
    OBVIOUS
  <2>1. s = {} BY <1>1, FS_EmptySet DEF Upto
  <2>2. g[s] = 0 BY <2>1, SumsValue
  <2> QED BY <2>1, <2>2
<1>3. ASSUME NEW n \in Nat, n \in N PROVE n + 1 \in N
  <2> SUFFICES ASSUME NEW s \in Upto(S, n + 1) PROVE g[s] \in Nat /\ \A i \in s : g[s] = Size[i] + g[s \ {i}]
    OBVIOUS
  <2>1. s \in SUBSET S BY DEF Upto
  <2>2. CASE s = {}
    <3>1. g[s] = 0 BY <2>1, <2>2, SumsValue
    <3> QED BY <2>2, <3>1
  <2>3. CASE s # {}
    <3> DEFINE c == Chosen(s)
    <3>1. c \in s /\ c \in Ids BY <2>1, <2>3, ChosenIn
    <3> HIDE DEF c
    <3>2. g[s] = Size[c] + g[s \ {c}] BY <2>1, <2>3, SumsValue DEF c
    <3>3. s \ {c} \in Upto(S, n) BY <3>1, UptoSmaller
    <3>4. g[s \ {c}] \in Nat /\ \A i \in s \ {c} : g[s \ {c}] = Size[i] + g[(s \ {c}) \ {i}] BY <1>3, <3>3
    <3>5. ASSUME NEW i \in s PROVE g[s] = Size[i] + g[s \ {i}]
      <4>1. CASE i = c BY <3>2, <4>1
      <4>2. CASE i # c
        <5>1. s \ {i} \in Upto(S, n) /\ c \in s \ {i} /\ i \in s \ {c} BY <3>1, <4>2, UptoSmaller
        <5>2. g[s \ {i}] = Size[c] + g[(s \ {i}) \ {c}] BY <1>3, <5>1
        <5>3. (s \ {i}) \ {c} = (s \ {c}) \ {i} OBVIOUS
        <5>4. g[s \ {c}] = Size[i] + g[(s \ {c}) \ {i}] BY <3>4, <5>1
        <5>5. (s \ {c}) \ {i} \in Upto(S, n)
          <6>1. IsFiniteSet(s \ {c}) /\ Cardinality(s \ {c}) \in Nat BY <1>1, <2>1
          <6>2. Cardinality((s \ {c}) \ {i}) = Cardinality(s \ {c}) - 1 BY <5>1, <6>1, FS_RemoveElement
          <6> QED BY <2>1, <3>3, <6>1, <6>2 DEF Upto
        <5>6. g[(s \ {c}) \ {i}] \in Nat /\ Size[i] \in Nat /\ Size[c] \in Nat
          BY <1>3, <2>1, <3>1, <5>5, FileStoreAssumption
        <5> DEFINE x == g[(s \ {c}) \ {i}]
        <5>7. g[s] = Size[c] + (Size[i] + x) /\ g[s \ {i}] = Size[c] + x BY <3>2, <5>2, <5>3, <5>4
        <5>8. x \in Nat /\ Size[i] \in Nat /\ Size[c] \in Nat BY <5>6
        <5> HIDE DEF x
        <5> QED BY <5>7, <5>8
      <4> QED BY <4>1, <4>2
    <3>6. Size[c] \in Nat BY <3>1, FileStoreAssumption
    <3>7. g[s] \in Nat BY <3>2, <3>4, <3>6
    <3> QED BY <3>5, <3>7
  <2> QED BY <2>2, <2>3
<1>4. Nat \subseteq N
  <2> HIDE DEF N
  <2> QED BY <1>2, <1>3, NaturalsFrom0
<1>5. Cardinality(t) \in Nat /\ t \in Upto(S, Cardinality(t)) BY <1>1 DEF Upto
<1> QED BY <1>4, <1>5

\* A row more is its size more.
LEMMA BytesAdd ==
  ASSUME NEW S \in SUBSET Ids, IsFiniteSet(S), NEW i \in Ids \ S
  PROVE  Bytes(S \cup {i}) = Bytes(S) + Size[i] /\ Bytes(S) \in Nat
<1> DEFINE T == S \cup {i}
           g == CHOOSE g : Sums(g, SUBSET T)
           h == CHOOSE h : Sums(h, SUBSET S)
<1>1. IsFiniteSet(T) /\ T \in SUBSET Ids /\ S \in SUBSET T /\ T \ {i} = S /\ T \in SUBSET T BY FS_AddElement
<1>2. Sums(g, SUBSET T) /\ Bytes(T) = g[T] BY <1>1, BytesSums
<1>3. Sums(h, SUBSET S) /\ Bytes(S) = h[S] BY BytesSums
<1> HIDE DEF g, h
<1>4. g[S] = h[S] BY <1>1, <1>2, <1>3, SumsAgree
<1> HIDE DEF T
<1>5. i \in T BY DEF T
<1>7. \A j \in T : g[T] = Size[j] + g[T \ {j}]
  <2>1. T \in SUBSET Ids /\ IsFiniteSet(T) /\ Sums(g, SUBSET T) /\ T \in SUBSET T BY <1>1, <1>2
  <2> QED BY <2>1, SumsTakeAny
<1>8. g[S] \in Nat BY <1>1, <1>2, SumsTakeAny
<1>6. Size[i] \in Nat BY FileStoreAssumption
<1>9. T \ {i} = S BY <1>1
<1>10. g[T] = Size[i] + h[S] /\ h[S] \in Nat BY <1>4, <1>5, <1>7, <1>8, <1>9
<1>11. Bytes(T) = Size[i] + h[S] /\ Bytes(S) = h[S] BY <1>2, <1>3, <1>10
<1>12. Bytes(T) = Bytes(S) + Size[i] BY <1>6, <1>10, <1>11
<1> QED BY <1>10, <1>11, <1>12 DEF T

\* Rows that go never make it more.
LEMMA BytesLess ==
  ASSUME NEW S \in SUBSET Ids, IsFiniteSet(S), NEW T \in SUBSET S
  PROVE  Bytes(T) <= Bytes(S) /\ Bytes(T) \in Nat /\ Bytes(S) \in Nat
<1> DEFINE g == CHOOSE g : Sums(g, SUBSET S)
           h == CHOOSE h : Sums(h, SUBSET T)
           N == {n \in Nat : \A s \in Upto(S, n) : \A t \in SUBSET s : g[t] <= g[s]}
<1>1. \A s \in SUBSET S : IsFiniteSet(s) /\ Cardinality(s) \in Nat BY FS_Subset, FS_CardinalityType
<1>2. Sums(g, SUBSET S) /\ Bytes(S) = g[S] BY BytesSums
<1>3. Sums(h, SUBSET T) /\ Bytes(T) = h[T] BY <1>1, BytesSums
<1> HIDE DEF g, h
<1>4. g[T] = h[T]
  <2>1. IsFiniteSet(S) /\ T \in SUBSET S /\ Sums(g, SUBSET S) /\ Sums(h, SUBSET T) BY <1>2, <1>3
  <2> QED BY <2>1, SumsAgree
<1>5. ASSUME NEW s \in SUBSET S PROVE g[s] \in Nat /\ \A i \in s : g[s] = Size[i] + g[s \ {i}]
  BY <1>2, SumsTakeAny
<1>6. 0 \in N
  <2>1. \A s \in Upto(S, 0) : s = {} BY <1>1, FS_EmptySet DEF Upto
  <2>2. g[{}] \in Nat BY <1>5
  <2>3. ASSUME NEW s \in Upto(S, 0), NEW t \in SUBSET s PROVE g[t] <= g[s]
    <3>1. s = {} /\ t = {} BY <2>1
    <3> QED BY <2>2, <3>1
  <2> QED BY <2>3
<1>7. ASSUME NEW n \in Nat, n \in N PROVE n + 1 \in N
  <2> SUFFICES ASSUME NEW s \in Upto(S, n + 1), NEW t \in SUBSET s PROVE g[t] <= g[s] OBVIOUS
  <2>1. s \in SUBSET S /\ t \in SUBSET S /\ g[s] \in Nat /\ g[t] \in Nat BY <1>5 DEF Upto
  <2>2. CASE t = s BY <2>1, <2>2
  <2>3. CASE t # s
    <3>1. PICK i \in s : i \notin t BY <2>3
    <3>2. s \ {i} \in Upto(S, n) /\ t \in SUBSET (s \ {i}) BY <3>1, UptoSmaller
    <3>3. g[t] <= g[s \ {i}] BY <1>7, <3>2
    <3>4. g[s] = Size[i] + g[s \ {i}] /\ g[s \ {i}] \in Nat /\ Size[i] \in Nat
      BY <1>5, <2>1, FileStoreAssumption
    <3> QED BY <2>1, <3>3, <3>4
  <2> QED BY <2>2, <2>3
<1>8. Nat \subseteq N
  <2> HIDE DEF N
  <2> QED BY <1>6, <1>7, NaturalsFrom0
<1>9. Cardinality(S) \in Nat /\ S \in Upto(S, Cardinality(S)) BY <1>1 DEF Upto
<1>10. g[T] <= g[S] BY <1>8, <1>9
<1> QED BY <1>2, <1>3, <1>4, <1>5, <1>10

RowsOf(u) == {i \in rows : owner[i] = u}

LEMMA OwnedBytesOf == ASSUME NEW u PROVE OwnedBytes(u) = Bytes(RowsOf(u))
BY DEF OwnedBytes, Bytes, RowsOf

LEMMA OwnedBytesOfNext == ASSUME NEW u PROVE OwnedBytes(u)' = Bytes(RowsOf(u)')
<1>1. (OwnedBytes(u) = Bytes(RowsOf(u)))' BY OwnedBytesOf, PTL
<1> QED BY <1>1

LEMMA OwnedBytesNat ==
  ASSUME IsFiniteSet(rows), rows \subseteq Ids, NEW u
  PROVE  OwnedBytes(u) \in Nat
<1>1. RowsOf(u) \in SUBSET Ids /\ IsFiniteSet(RowsOf(u)) BY FS_Subset DEF RowsOf
<1> QED BY <1>1, BytesLess, OwnedBytesOf

\* No step adds more than one row.
LEMMA RowsStep ==
  ASSUME [Next]_vars
  PROVE  rows' \subseteq rows \/ \E i \in Ids : rows' = rows \cup {i}
<1>1. ASSUME NEW i \in Ids, UploadNext(i) PROVE rows' = rows \/ rows' = rows \cup {i}
  BY <1>1 DEF UploadNext, SaveNext, UploadStarts, StreamEnds, StreamFails, TakeQuotaLock, SumOwned,
     SaveRefused, InsertRow, SaveCommits, SaveFails, AbandonedTxEnds, CleanUp
<1>2. ASSUME NEW R, DeleteRows(R) PROVE rows' \subseteq rows BY <1>2 DEF DeleteRows, RowsAfterDelete
<1>3. ASSUME NEW i \in Ids, UnlinkQuiet(i) \/ Ripens(i) PROVE rows' \subseteq rows
  BY <1>3 DEF UnlinkQuiet, Ripens
<1>4. ASSUME NEW d \in Readers, OpenFile(d) \/ \E i \in Ids : LookUp(d, i) PROVE rows' \subseteq rows
  BY <1>2, <1>4 DEF OpenFile, LookUp
<1>5. ASSUME NEW u \in Owners, WipeFiles(u) \/ WipeAccount(u) PROVE rows' \subseteq rows
  BY <1>2, <1>5 DEF WipeFiles, WipeAccount
<1>6. CASE PruneFiles \/ SweepNext \/ Tick \/ Crash \/ UNCHANGED vars
  BY <1>2, <1>6 DEF PruneFiles, SweepNext, SweepLists, SweepQueries, SweepEnds, SweepUnlinks, Tick, Crash, vars
<1> QED BY <1>1, <1>3, <1>4, <1>5, <1>6 DEF Next

LEMMA FiniteRows == Spec => []IsFiniteSet(rows)
<1>1. Init => IsFiniteSet(rows) BY FS_EmptySet DEF Init
<1>2. IsFiniteSet(rows) /\ [Next]_vars => IsFiniteSet(rows)' BY RowsStep, FS_Subset, FS_AddElement
<1> QED BY <1>1, <1>2, PTL DEF Spec

-----------------------------------------------------------------------------
(* Types *)

LEMMA TypeInit == Init => TypeOK
  BY DEF Init, TypeOK, Saved, SweepStates, InHandler

LEMMA TypeUploadStep ==
  ASSUME TypeOK, IsFiniteSet(rows), NEW i \in Ids, UploadNext(i)
  PROVE  TypeOK'
<1> USE DEF TypeOK, Saved, InHandler
<1>1. CASE UploadStarts(i) BY <1>1 DEF UploadStarts
<1>2. CASE StreamEnds(i) BY <1>2 DEF StreamEnds
<1>3. CASE StreamFails(i) BY <1>3 DEF StreamFails
<1>4. CASE TakeQuotaLock(i) BY <1>4 DEF TakeQuotaLock
<1>5. CASE SumOwned(i)
  <2>1. OwnedBytes(owner[i]) \in Nat BY OwnedBytesNat
  <2> QED BY <1>5, <2>1 DEF SumOwned
<1>6. CASE SaveRefused(i) BY <1>6 DEF SaveRefused, TxOver
<1>7. CASE InsertRow(i) BY <1>7 DEF InsertRow
<1>8. CASE SaveCommits(i) BY <1>8 DEF SaveCommits, TxOver
<1>9. CASE SaveFails(i) BY <1>9 DEF SaveFails
<1>10. CASE AbandonedTxEnds(i) BY <1>10 DEF AbandonedTxEnds, TxOver
<1>11. CASE CleanUp(i) BY <1>11 DEF CleanUp
<1> QED
  BY <1>1, <1>2, <1>3, <1>4, <1>5, <1>6, <1>7, <1>8, <1>9, <1>10, <1>11 DEF UploadNext, SaveNext

LEMMA TypeSweepStep ==
  ASSUME TypeOK, SweepNext
  PROVE  TypeOK'
<1> USE DEF TypeOK, Saved, SweepStates
<1>1. CASE SweepLists BY <1>1 DEF SweepLists
<1>2. CASE SweepQueries
  <2>1. sweep.names \subseteq Ids BY <1>2 DEF SweepQueries, Idle
  <2> QED BY <1>2, <2>1 DEF SweepQueries
<1>3. CASE SweepEnds BY <1>3 DEF SweepEnds
<1>4. ASSUME NEW i \in Ids, SweepUnlinks(i) PROVE TypeOK'
  <2>1. /\ sweep \in [state : {"listed", "sweeping"}, names : SUBSET Ids]
        /\ sweep' = [sweep EXCEPT !.names = @ \ {i}]
    BY <1>4 DEF SweepUnlinks, Idle
  <2>2. sweep' \in SweepStates BY <2>1
  <2> QED BY <1>4, <2>2 DEF SweepUnlinks
<1> QED BY <1>1, <1>2, <1>3, <1>4 DEF SweepNext

LEMMA TypeStep == TypeOK /\ IsFiniteSet(rows) /\ [Next]_vars => TypeOK'
<1> SUFFICES ASSUME TypeOK, IsFiniteSet(rows), [Next]_vars PROVE TypeOK' OBVIOUS
<1> USE DEF TypeOK, Saved, DeleteRows, RowsAfterDelete
<1>1. ASSUME NEW i \in Ids, UploadNext(i) PROVE TypeOK' BY <1>1, TypeUploadStep
<1>2. CASE SweepNext BY <1>2, TypeSweepStep
<1>3. ASSUME NEW i \in Ids, UnlinkQuiet(i) PROVE TypeOK' BY <1>3 DEF UnlinkQuiet
<1>4. ASSUME NEW i \in Ids, Ripens(i) PROVE TypeOK' BY <1>4 DEF Ripens
<1>5. ASSUME NEW d \in Readers, OpenFile(d) PROVE TypeOK' BY <1>5 DEF OpenFile
<1>6. ASSUME NEW d \in Readers, NEW i \in Ids, LookUp(d, i) PROVE TypeOK'
  BY <1>6 DEF LookUp
<1>7. ASSUME NEW u \in Owners, WipeFiles(u) PROVE TypeOK' BY <1>7 DEF WipeFiles
<1>8. ASSUME NEW u \in Owners, WipeAccount(u) PROVE TypeOK' BY <1>8 DEF WipeAccount
<1>9. CASE PruneFiles BY <1>9 DEF PruneFiles
<1>10. CASE Tick BY <1>10 DEF Tick
<1>11. CASE Crash BY <1>11 DEF Crash, InHandler, SweepStates
<1>12. CASE UNCHANGED vars BY <1>12 DEF vars
<1> QED
  BY <1>1, <1>2, <1>3, <1>4, <1>5, <1>6, <1>7, <1>8, <1>9, <1>10, <1>11, <1>12 DEF Next

\* Every variable keeps its type.
THEOREM TypeCorrect == Spec => []TypeOK
  BY TypeInit, TypeStep, FiniteRows, PTL DEF Spec

-----------------------------------------------------------------------------
(* A row has its file.  The three parties that unlink files must each miss   *)
(* the live rows: the upload's clean-up, deleteFilesWhere and the sweep.  The *)
(* sweep does because what it condemned was older than any upload in flight.  *)

HandlerInv ==
  \A i \in Ids \ LostCommits :
    /\ i \in rows => upload[i] = "done" /\ i \in disk
    /\ upload[i] \in {"streaming", "saving"} => i \in disk /\ age[i] <= UploadLimit
    /\ upload[i] = "new" => i \notin disk

UnlinkInv == \A i \in unlinking \ LostCommits : upload[i] = "done" /\ i \notin rows

SweepInv ==
  /\ sweep # Idle => \A i \in sweep.names \ LostCommits : upload[i] # "new"
  /\ sweep.state = "sweeping" =>
       \A i \in sweep.names \ LostCommits : upload[i] \in {"cleaning", "done"} /\ i \notin rows

FileInv == HandlerInv /\ UnlinkInv /\ SweepInv

\* A step that only moves rows into unlinking.
LEMMA FileDelete ==
  ASSUME TypeOK, FileInv, NEW R, DeleteRows(R), UNCHANGED <<upload, disk, age, sweep>>
  PROVE  FileInv'
  BY DEF TypeOK, Saved, FileInv, HandlerInv, UnlinkInv, SweepInv, DeleteRows, RowsAfterDelete

LEMMA FileUploadStep ==
  ASSUME TypeOK, FileInv, NEW i \in Ids, UploadNext(i)
  PROVE  FileInv'
<1> USE DEF TypeOK, Saved, FileInv, HandlerInv, UnlinkInv, SweepInv
<1>1. CASE UploadStarts(i) BY <1>1 DEF UploadStarts
<1>2. CASE StreamEnds(i) BY <1>2 DEF StreamEnds
<1>3. CASE StreamFails(i) BY <1>3 DEF StreamFails
<1>4. CASE TakeQuotaLock(i) \/ SumOwned(i) \/ InsertRow(i)
  BY <1>4 DEF TakeQuotaLock, SumOwned, InsertRow
<1>5. CASE SaveRefused(i) BY <1>5 DEF SaveRefused
<1>6. CASE SaveCommits(i) BY <1>6 DEF SaveCommits, TxOver
<1>7. CASE SaveFails(i) BY <1>7 DEF SaveFails
<1>8. CASE AbandonedTxEnds(i) BY <1>8 DEF AbandonedTxEnds, TxOver
<1>9. CASE CleanUp(i) BY <1>9 DEF CleanUp
<1> QED BY <1>1, <1>2, <1>3, <1>4, <1>5, <1>6, <1>7, <1>8, <1>9 DEF UploadNext, SaveNext

LEMMA FileSweepStep ==
  ASSUME TypeOK, FileInv, SweepNext
  PROVE  FileInv'
<1> USE DEF TypeOK, Saved, FileInv, HandlerInv, UnlinkInv, SweepInv
<1>1. CASE SweepLists BY <1>1 DEF SweepLists, Idle
<1>2. CASE SweepQueries
  <2>1. sweep # Idle BY <1>2 DEF SweepQueries, Idle
  <2>2. \A i \in (sweep.names \ rows) \ LostCommits :
          OldEnough(i) => i \in Ids /\ upload[i] \in {"cleaning", "done"}
    <3> SUFFICES ASSUME NEW i \in (sweep.names \ rows) \ LostCommits, OldEnough(i)
                 PROVE  i \in Ids /\ upload[i] \in {"cleaning", "done"}
      OBVIOUS
    <3>1. i \in Ids BY <2>1 DEF SweepStates
    <3>2. age[i] > UploadLimit BY <3>1 DEF OldEnough
    <3> QED BY <2>1, <3>1, <3>2 DEF InHandler
  <2> QED BY <1>2, <2>2 DEF SweepQueries
<1>3. CASE SweepEnds BY <1>3 DEF SweepEnds, Idle
<1>4. ASSUME NEW i \in Ids, SweepUnlinks(i) PROVE FileInv'
  BY <1>4 DEF SweepUnlinks, SweepStates, Idle
<1> QED BY <1>1, <1>2, <1>3, <1>4 DEF SweepNext

LEMMA FileStep == TypeOK /\ FileInv /\ [Next]_vars => FileInv'
<1> SUFFICES ASSUME TypeOK, FileInv, [Next]_vars PROVE FileInv' OBVIOUS
<1> USE DEF TypeOK, Saved, FileInv, HandlerInv, UnlinkInv, SweepInv
<1>1. ASSUME NEW i \in Ids, UploadNext(i) PROVE FileInv' BY <1>1, FileUploadStep
<1>2. CASE SweepNext BY <1>2, FileSweepStep
<1>3. ASSUME NEW i \in Ids, UnlinkQuiet(i) PROVE FileInv' BY <1>3 DEF UnlinkQuiet
<1>4. ASSUME NEW i \in Ids, Ripens(i) PROVE FileInv' BY <1>4 DEF Ripens
<1>5. ASSUME NEW d \in Readers, OpenFile(d) PROVE FileInv'
  <2>1. CASE UNCHANGED <<rows, unlinking>> BY <1>5, <2>1 DEF OpenFile
  <2>2. CASE DeleteRows(RowsDroppedOnError(reading[d].id))
    BY <1>5, <2>2, FileDelete DEF OpenFile
  <2> QED BY <1>5, <2>1, <2>2 DEF OpenFile
<1>6. ASSUME NEW d \in Readers, NEW i \in Ids, LookUp(d, i) PROVE FileInv'
  <2>1. CASE due[i] = "expired" BY <1>6, <2>1, FileDelete DEF LookUp
  <2>2. CASE due[i] # "expired" BY <1>6, <2>2 DEF LookUp
  <2> QED BY <2>1, <2>2
<1>7. ASSUME NEW u \in Owners, WipeFiles(u) PROVE FileInv'
  BY <1>7, FileDelete DEF WipeFiles
<1>8. ASSUME NEW u \in Owners, WipeAccount(u) PROVE FileInv' BY <1>8 DEF WipeAccount
<1>9. CASE PruneFiles BY <1>9, FileDelete DEF PruneFiles
<1>10. CASE Tick BY <1>10 DEF Tick, InHandler
<1>11. CASE Crash BY <1>11 DEF Crash, InHandler, Idle
<1>12. CASE UNCHANGED vars BY <1>12 DEF vars
<1> QED
  BY <1>1, <1>2, <1>3, <1>4, <1>5, <1>6, <1>7, <1>8, <1>9, <1>10, <1>11, <1>12 DEF Next

\* Every row's file is on disk, unless the answer to its COMMIT can be lost.
THEOREM RowHasFileCorrect == Spec => []RowHasFile
<1>1. Init => FileInv
  BY DEF Init, FileInv, HandlerInv, UnlinkInv, SweepInv, Idle
<1>2. TypeOK /\ FileInv => RowHasFile
  BY DEF TypeOK, Saved, FileInv, HandlerInv, RowHasFile
<1> QED BY <1>1, <1>2, FileStep, TypeCorrect, PTL DEF Spec

-----------------------------------------------------------------------------
(* The quota *)

\* The sum a transaction has read is not outrun while it holds its owner's lock:
\* rows may go meanwhile, and nobody else may add one.
LockInv ==
  /\ \A i, j \in Ids : tx[i] # "none" /\ tx[j] # "none" /\ owner[i] = owner[j] => i = j
  /\ \A i \in Ids : tx[i] \in {"summed", "inserted"} => OwnedBytes(owner[i]) <= total[i]
  /\ \A i \in Ids : tx[i] = "inserted" => Fits(i)

QuotaInv == LockInv /\ QuotaHolds

LEMMA OwnedBytesSame ==
  ASSUME UNCHANGED <<rows, owner>>, NEW u
  PROVE  OwnedBytes(u)' = OwnedBytes(u)
<1>1. RowsOf(u)' = RowsOf(u) BY DEF RowsOf
<1> QED BY <1>1, OwnedBytesOf, OwnedBytesOfNext

LEMMA OwnedBytesLess ==
  ASSUME IsFiniteSet(rows), rows \subseteq Ids, rows' \subseteq rows, UNCHANGED owner, NEW u
  PROVE  OwnedBytes(u)' <= OwnedBytes(u) /\ OwnedBytes(u)' \in Nat /\ OwnedBytes(u) \in Nat
<1> DEFINE S == RowsOf(u)
           T == RowsOf(u)'
<1>1. S \in SUBSET Ids /\ IsFiniteSet(S) /\ T \in SUBSET S BY FS_Subset DEF RowsOf
<1>2. OwnedBytes(u)' = Bytes(T) /\ OwnedBytes(u) = Bytes(S) BY OwnedBytesOf, OwnedBytesOfNext
<1> HIDE DEF S, T
<1> QED BY <1>1, <1>2, BytesLess

\* A row more adds its size to its owner's bytes, and nothing to another's.
LEMMA OwnedBytesMore ==
  ASSUME IsFiniteSet(rows), rows \subseteq Ids, NEW i \in Ids, i \notin rows,
         rows' = rows \cup {i}, UNCHANGED owner, NEW u
  PROVE  OwnedBytes(u)' = OwnedBytes(u) + (IF owner[i] = u THEN Size[i] ELSE 0)
<1> DEFINE S == RowsOf(u)
           T == RowsOf(u)'
<1>1. S \in SUBSET Ids /\ IsFiniteSet(S) /\ i \in Ids \ S BY FS_Subset DEF RowsOf
<1>2. OwnedBytes(u)' = Bytes(T) /\ OwnedBytes(u) = Bytes(S) BY OwnedBytesOf, OwnedBytesOfNext
<1>3. T = IF owner[i] = u THEN S \cup {i} ELSE S BY DEF RowsOf
<1> HIDE DEF S, T
<1>4. Bytes(S \cup {i}) = Bytes(S) + Size[i] /\ Bytes(S) \in Nat BY <1>1, BytesAdd
<1> QED BY <1>2, <1>3, <1>4

\* A step that adds no row, takes no lock, and reads and promises nothing new.
LEMMA QuotaFewerRows ==
  ASSUME TypeOK, IsFiniteSet(rows), QuotaInv, rows' \subseteq rows, UNCHANGED owner,
         \A i \in Ids : tx'[i] = "none" \/ (tx'[i] = tx[i] /\ total'[i] = total[i])
  PROVE  QuotaInv'
<1>1. ASSUME NEW u \in Owners
      PROVE  OwnedBytes(u)' <= OwnedBytes(u) /\ OwnedBytes(u)' \in Nat /\ OwnedBytes(u) \in Nat
  <2>1. rows \subseteq Ids BY DEF TypeOK, Saved
  <2> QED BY <2>1, OwnedBytesLess
<1>2. \A u \in Owners : OwnedBytes(u)' <= Quota
  BY <1>1 DEF QuotaInv, QuotaHolds
<1>3. ASSUME NEW i \in Ids, tx'[i] \in {"summed", "inserted"}
      PROVE  OwnedBytes(owner[i])' <= total'[i] /\ (tx'[i] = "inserted" => Fits(i)')
  <2>1. tx'[i] = tx[i] /\ total'[i] = total[i] /\ total[i] \in Nat /\ owner[i] \in Owners
    BY <1>3 DEF TypeOK
  <2>2. OwnedBytes(owner[i]) <= total[i] BY <1>3, <2>1 DEF QuotaInv, LockInv
  <2>3. OwnedBytes(owner[i])' <= OwnedBytes(owner[i]) /\ OwnedBytes(owner[i])' \in Nat
        /\ OwnedBytes(owner[i]) \in Nat
    <3>1. PICK u \in Owners : u = owner[i] BY <2>1
    <3>2. OwnedBytes(u)' = OwnedBytes(owner[i])' BY <3>1 DEF OwnedBytes
    <3> QED BY <1>1, <3>1, <3>2
  <2> QED BY <1>3, <2>1, <2>2, <2>3 DEF QuotaInv, LockInv, Fits
<1>4. \A i, j \in Ids : tx'[i] # "none" /\ tx'[j] # "none" /\ owner'[i] = owner'[j] => i = j
  BY DEF QuotaInv, LockInv
<1> QED BY <1>2, <1>3, <1>4 DEF QuotaInv, LockInv, QuotaHolds

LEMMA QuotaLockStep ==
  ASSUME TypeOK, IsFiniteSet(rows), QuotaInv, NEW i \in Ids, TakeQuotaLock(i)
  PROVE  QuotaInv'
<1>1. UNCHANGED <<rows, owner, total>> BY DEF TakeQuotaLock
<1>2. \A u : OwnedBytes(u)' = OwnedBytes(u) BY <1>1, OwnedBytesSame
<1>3. \A j \in Ids : tx'[j] # tx[j] => j = i /\ tx'[i] = "locked" BY DEF TakeQuotaLock, TypeOK
<1>4. \A j \in Ids : tx[j] # "none" => owner[j] # owner[i] BY DEF TakeQuotaLock, LockFree
<1> QED BY <1>1, <1>2, <1>3, <1>4 DEF QuotaInv, LockInv, QuotaHolds, Fits

LEMMA QuotaSumStep ==
  ASSUME TypeOK, IsFiniteSet(rows), QuotaInv, NEW i \in Ids, SumOwned(i)
  PROVE  QuotaInv'
<1>1. UNCHANGED <<rows, owner>> BY DEF SumOwned
<1>2. \A u : OwnedBytes(u)' = OwnedBytes(u) BY <1>1, OwnedBytesSame
<1>3. total'[i] = OwnedBytes(owner[i]) /\ tx'[i] = "summed" /\ tx[i] = "locked"
  BY DEF SumOwned, TypeOK
<1>4. \A j \in Ids \ {i} : tx'[j] = tx[j] /\ total'[j] = total[j] BY DEF SumOwned, TypeOK
<1>5. OwnedBytes(owner[i]) \in Nat
  <2>1. rows \subseteq Ids BY DEF TypeOK, Saved
  <2> QED BY <2>1, OwnedBytesNat
<1> QED BY <1>1, <1>2, <1>3, <1>4, <1>5 DEF QuotaInv, LockInv, QuotaHolds, Fits

\* The sum that was read under the owner's lock is the one that the row joins.
LEMMA QuotaCommitStep ==
  ASSUME TypeOK, IsFiniteSet(rows), QuotaInv, NEW i \in Ids, tx[i] = "inserted",
         rows' = rows \cup {i}, TxOver(i), UNCHANGED owner
  PROVE  QuotaInv'
<1>1. rows \subseteq Ids /\ i \notin rows BY DEF TypeOK, Saved
<1>2. ASSUME NEW u PROVE OwnedBytes(u)' = OwnedBytes(u) + (IF owner[i] = u THEN Size[i] ELSE 0)
  BY <1>1, OwnedBytesMore
<1>3. ASSUME NEW u PROVE OwnedBytes(u) \in Nat BY <1>1, OwnedBytesNat
<1>4. Size[i] \in Nat /\ total[i] \in Nat BY DEF TypeOK
<1>5. OwnedBytes(owner[i]) + Size[i] <= Quota
  <2>1. OwnedBytes(owner[i]) <= total[i] /\ total[i] + Size[i] <= Quota BY DEF QuotaInv, LockInv, Fits
  <2>2. OwnedBytes(owner[i]) \in Nat BY <1>3
  <2> QED BY <1>4, <2>1, <2>2
<1>6. ASSUME NEW u \in Owners PROVE OwnedBytes(u)' <= Quota
  <2>1. CASE owner[i] = u
    <3>1. OwnedBytes(u)' = OwnedBytes(u) + Size[i] BY <1>2, <2>1
    <3> QED BY <1>5, <2>1, <3>1
  <2>2. CASE owner[i] # u
    <3>1. OwnedBytes(u)' = OwnedBytes(u) + 0 BY <1>2, <2>2
    <3>2. OwnedBytes(u) \in Nat BY <1>3
    <3> QED BY <3>1, <3>2 DEF QuotaInv, QuotaHolds
  <2> QED BY <2>1, <2>2
<1>7. tx'[i] = "none" /\ \A j \in Ids \ {i} : tx'[j] = tx[j] /\ total'[j] = total[j]
  BY DEF TxOver, TypeOK
<1>8. ASSUME NEW j \in Ids, tx'[j] \in {"summed", "inserted"}
      PROVE  OwnedBytes(owner[j])' <= total'[j] /\ (tx'[j] = "inserted" => Fits(j)')
  <2>1. j # i /\ tx'[j] = tx[j] /\ total'[j] = total[j] BY <1>7, <1>8
  <2>2. owner[j] # owner[i] BY <1>8, <2>1 DEF QuotaInv, LockInv
  <2>3. OwnedBytes(owner[j])' = OwnedBytes(owner[j])
    <3>1. PICK u : u = owner[j] OBVIOUS
    <3>2. OwnedBytes(u)' = OwnedBytes(owner[j])' BY <3>1 DEF OwnedBytes
    <3>3. OwnedBytes(u)' = OwnedBytes(u) + 0 BY <1>2, <2>2, <3>1
    <3>4. OwnedBytes(u) \in Nat BY <1>3
    <3> QED BY <3>1, <3>2, <3>3, <3>4
  <2> QED BY <1>8, <2>1, <2>3 DEF QuotaInv, LockInv, Fits
<1>9. \A j, k \in Ids : tx'[j] # "none" /\ tx'[k] # "none" /\ owner'[j] = owner'[k] => j = k
  BY <1>7 DEF QuotaInv, LockInv
<1> QED BY <1>6, <1>8, <1>9 DEF QuotaInv, LockInv, QuotaHolds

LEMMA QuotaStep == TypeOK /\ IsFiniteSet(rows) /\ QuotaInv /\ [Next]_vars => QuotaInv'
<1> SUFFICES ASSUME TypeOK, IsFiniteSet(rows), QuotaInv, [Next]_vars PROVE QuotaInv' OBVIOUS
<1> DEFINE Quiet == \A i \in Ids : tx'[i] = "none" \/ (tx'[i] = tx[i] /\ total'[i] = total[i])
<1>1. ASSUME NEW i \in Ids, UploadNext(i) PROVE QuotaInv'
  <2>1. CASE TakeQuotaLock(i) BY <2>1, QuotaLockStep
  <2>2. CASE SumOwned(i) BY <2>2, QuotaSumStep
  <2>3. CASE InsertRow(i)
    <3>1. UNCHANGED <<rows, owner, total>> /\ tx[i] = "summed" /\ Fits(i) BY <2>3 DEF InsertRow
    <3>2. \A u : OwnedBytes(u)' = OwnedBytes(u) BY <3>1, OwnedBytesSame
    <3>3. \A j \in Ids : tx'[j] = IF j = i THEN "inserted" ELSE tx[j] BY <2>3 DEF InsertRow, TypeOK
    <3> QED BY <3>1, <3>2, <3>3 DEF QuotaInv, LockInv, QuotaHolds, Fits
  <2>4. CASE SaveCommits(i) BY <2>4, QuotaCommitStep DEF SaveCommits
  <2>5. CASE AbandonedTxEnds(i)
    <3>1. CASE UNCHANGED rows
      <4>1. rows' \subseteq rows /\ UNCHANGED owner /\ Quiet
        BY <2>5, <3>1 DEF AbandonedTxEnds, TxOver, TypeOK
      <4> QED BY <4>1, QuotaFewerRows
    <3>2. CASE tx[i] = "inserted" /\ rows' = rows \cup {i}
      BY <2>5, <3>2, QuotaCommitStep DEF AbandonedTxEnds
    <3> QED BY <2>5, <3>1, <3>2 DEF AbandonedTxEnds
  <2>6. CASE SaveRefused(i)
    <3>1. rows' \subseteq rows /\ UNCHANGED owner /\ Quiet BY <2>6 DEF SaveRefused, TxOver, TypeOK
    <3> QED BY <3>1, QuotaFewerRows
  <2>7. CASE UploadStarts(i) \/ StreamEnds(i) \/ StreamFails(i) \/ SaveFails(i) \/ CleanUp(i)
    <3>1. rows' \subseteq rows /\ UNCHANGED owner /\ Quiet
      BY <2>7 DEF UploadStarts, StreamEnds, StreamFails, SaveFails, CleanUp
    <3> QED BY <3>1, QuotaFewerRows
  <2> QED BY <1>1, <2>1, <2>2, <2>3, <2>4, <2>5, <2>6, <2>7 DEF UploadNext, SaveNext
<1>2. ASSUME ~(\E i \in Ids : UploadNext(i)) PROVE rows' \subseteq rows /\ UNCHANGED <<owner, tx, total>>
  <2>1. ASSUME NEW R, DeleteRows(R) PROVE rows' \subseteq rows BY <2>1 DEF DeleteRows, RowsAfterDelete
  <2>2. ASSUME NEW i \in Ids, UnlinkQuiet(i) \/ Ripens(i)
        PROVE  rows' \subseteq rows /\ UNCHANGED <<owner, tx, total>>
    BY <2>2 DEF UnlinkQuiet, Ripens
  <2>3. ASSUME NEW d \in Readers, OpenFile(d) \/ \E i \in Ids : LookUp(d, i)
        PROVE  rows' \subseteq rows /\ UNCHANGED <<owner, tx, total>>
    BY <2>1, <2>3 DEF OpenFile, LookUp
  <2>4. ASSUME NEW u \in Owners, WipeFiles(u) \/ WipeAccount(u)
        PROVE  rows' \subseteq rows /\ UNCHANGED <<owner, tx, total>>
    BY <2>1, <2>4 DEF WipeFiles, WipeAccount
  <2>5. CASE PruneFiles \/ SweepNext \/ Tick \/ Crash \/ UNCHANGED vars
    BY <2>1, <2>5 DEF PruneFiles, SweepNext, SweepLists, SweepQueries, SweepEnds, SweepUnlinks, Tick, Crash, vars
  <2> QED BY <1>2, <2>2, <2>3, <2>4, <2>5 DEF Next
<1>3. ASSUME ~(\E i \in Ids : UploadNext(i)) PROVE QuotaInv'
  <2>1. rows' \subseteq rows /\ UNCHANGED owner /\ Quiet BY <1>2, <1>3
  <2> QED BY <2>1, QuotaFewerRows
<1> QED BY <1>1, <1>3

\* The uploads of one account, their transactions interleaved statement by
\* statement, aborted, or committed after their handler gave up, do not put it
\* over its quota: what the advisory lock orders is read, inserted and committed
\* with no other row of the owner in between.
THEOREM QuotaCorrect == Spec => []QuotaHolds
<1>1. Init => QuotaInv
  <2> SUFFICES ASSUME Init PROVE QuotaInv OBVIOUS
  <2>1. rows = {} /\ IsFiniteSet(rows) BY FS_EmptySet DEF Init
  <2>2. ASSUME NEW u \in Owners PROVE OwnedBytes(u) <= Quota
    <3>1. RowsOf(u) = {} BY <2>1 DEF RowsOf
    <3>2. OwnedBytes(u) = Bytes({}) BY <3>1, OwnedBytesOf
    <3>3. PICK g : Sums(g, SUBSET {}) /\ Bytes({}) = g[{}] BY FS_EmptySet, BytesSums
    <3>4. {} \in SUBSET {} OBVIOUS
    <3>5. g[{}] = 0 BY <3>3, <3>4, SumsValue
    <3> QED BY <3>2, <3>3, <3>5, FileStoreAssumption
  <2>3. LockInv BY DEF Init, LockInv
  <2> QED BY <2>2, <2>3 DEF QuotaInv, QuotaHolds
<1>2. QuotaInv => QuotaHolds BY DEF QuotaInv
<1> QED BY <1>1, <1>2, QuotaStep, FiniteRows, TypeCorrect, PTL DEF Spec

-----------------------------------------------------------------------------
(* What may go                                                             *)

Excused == \A i \in rows \ rows' : due[i] # "no" \/ account'[owner[i]] = "wiping" \/ i \notin disk

LEMMA ExcusedStep == TypeOK /\ [Next]_vars => Excused
<1> SUFFICES ASSUME TypeOK, [Next]_vars PROVE Excused OBVIOUS
<1> USE DEF Excused
<1>1. ASSUME NEW R, DeleteRows(R) PROVE rows \ rows' \subseteq R BY <1>1 DEF DeleteRows, RowsAfterDelete
<1>2. ASSUME rows \subseteq rows' PROVE Excused BY <1>2
<1>3. ASSUME NEW i \in Ids, UploadNext(i) PROVE rows \subseteq rows'
  BY <1>3 DEF UploadNext, SaveNext, UploadStarts, StreamEnds, StreamFails, TakeQuotaLock, SumOwned,
     SaveRefused, InsertRow, SaveCommits, SaveFails, AbandonedTxEnds, CleanUp
<1>4. ASSUME NEW i \in Ids, UnlinkQuiet(i) \/ Ripens(i) PROVE rows \subseteq rows' BY <1>4 DEF UnlinkQuiet, Ripens
<1>5. ASSUME NEW d \in Readers, OpenFile(d) PROVE Excused
  BY <1>1, <1>5 DEF OpenFile, RowsDroppedOnError
<1>6. ASSUME NEW d \in Readers, NEW i \in Ids, LookUp(d, i) PROVE Excused BY <1>1, <1>6 DEF LookUp
<1>7. ASSUME NEW u \in Owners, WipeFiles(u) PROVE Excused
  BY <1>1, <1>7 DEF WipeFiles, TypeOK
<1>8. ASSUME NEW u \in Owners, WipeAccount(u) PROVE rows \subseteq rows' BY <1>8 DEF WipeAccount
<1>9. CASE PruneFiles BY <1>1, <1>9 DEF PruneFiles, Ripe
<1>10. CASE SweepNext \/ Tick \/ Crash \/ UNCHANGED vars
  BY <1>10 DEF SweepNext, SweepLists, SweepQueries, SweepEnds, SweepUnlinks, Tick, Crash, vars
<1> QED BY <1>2, <1>3, <1>4, <1>5, <1>6, <1>7, <1>8, <1>9, <1>10 DEF Next

\* A transient read error never costs an attachment.
THEOREM KeptUntilDueCorrect == Spec => KeptUntilDue
<1>1. TypeOK /\ [Next]_vars => Excused BY ExcusedStep
<1> QED BY <1>1, TypeCorrect, PTL DEF Spec, KeptUntilDue, Excused
=============================================================================
