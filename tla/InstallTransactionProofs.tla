------------------------ MODULE InstallTransactionProofs ------------------------
(***************************************************************************)
(* Proofs about InstallTransaction, for any files, directories, scripts,   *)
(* sessions, faults and crashes: types, the balance of the SharedDLLs      *)
(* counts with the records that hold references, what of the machine a     *)
(* session may touch, and what rollback and uninstallation leave behind.   *)
(*                                                                         *)
(* Counts are sums over applications and cardinalities of sets of places;  *)
(* paths of directories are a recursive function.  Induction over them     *)
(* goes by smallest sets (SmallestFinite), not by the induction theorems   *)
(* of the library.                                                         *)
(***************************************************************************)
EXTENDS InstallTransaction, FiniteSetTheorems, SequenceTheorems, TLAPS

-----------------------------------------------------------------------------
(* Induction: there is a smallest one in every set of finite sets.         *)

\* Among subsets of a finite set some subset has no other within it.
LEMMA SmallestFinite ==
  ASSUME NEW S, IsFiniteSet(S), NEW B \in SUBSET SUBSET S, B # {}
  PROVE  \E T \in B : \A U \in B : U \subseteq T => U = T
<1> DEFINE R == StrictSubsetOrdering(S)
<1>1. IsWellFoundedOn(R, FiniteSubsetsOf(S))
  BY FS_StrictSubsetOrderingWellFounded
<1>2. \A T, U \in SUBSET S : U \subseteq T /\ U # T => <<U, T>> \in R
  BY DEF StrictSubsetOrdering
<1>3. FiniteSubsetsOf(S) = SUBSET S
  BY FS_FiniteSubsetsOfFinite
<1> HIDE DEF R
<1>4. PICK T \in B : \A U \in B : <<U, T>> \notin R
  BY <1>1, <1>3, WFMin
<1> QED
  BY <1>4, <1>2

\* A set of natural numbers that is not empty has a least element.
LEMMA LeastNatural ==
  ASSUME NEW T \in SUBSET Nat, T # {}
  PROVE  \E n \in T : \A m \in T : n <= m
<1>1. PICK k \in T : TRUE
  OBVIOUS
<1> DEFINE B == {0..n : n \in {j \in T : j <= k}}
<1>2. IsFiniteSet(0..k)
  BY FS_Interval
<1>3. B \in SUBSET SUBSET (0..k) /\ B # {}
  BY <1>1
<1>4. PICK U \in B : \A V \in B : V \subseteq U => V = U
  <2> DEFINE I == 0..k
  <2>1. IsFiniteSet(I)
    BY <1>2
  <2>2. B \in SUBSET SUBSET I
    BY <1>3
  <2>3. B # {}
    BY <1>3
  <2> HIDE DEF B, I
  <2> QED
    BY <2>1, <2>2, <2>3, SmallestFinite
<1>5. PICK n \in T : n <= k /\ U = 0..n
  OBVIOUS
<1>6. \A m \in T : n <= m
  <2> SUFFICES ASSUME NEW m \in T, m < n PROVE FALSE
    OBVIOUS
  <2>1. (0..m) \in B /\ (0..m) \subseteq U /\ n \in U /\ n \notin 0..m
    BY <1>5
  <2> HIDE DEF B
  <2> QED
    BY <2>1, <1>4
<1> QED
  BY <1>6

-----------------------------------------------------------------------------
(* Folding a finite set: g takes the elements one by one, as ch says, and  *)
(* combines each by F.                                                     *)

Folds(g, S, ch, F, base) ==
  /\ g[{}] = base
  /\ \A s \in (SUBSET S) \ {{}} : g[s] = F[<<ch[s], g[s \ {ch[s]}]>>]

\* Two folds by the same order agree.
LEMMA FoldUnique ==
  ASSUME NEW S, IsFiniteSet(S), NEW T, NEW ch, NEW F, NEW base, NEW g, NEW h,
         \A s \in (SUBSET S) \ {{}} : ch[s] \in s,
         Folds(g, S, ch, F, base), Folds(h, T, ch, F, base)
  PROVE  \A s \in SUBSET S : s \subseteq T => g[s] = h[s]
<1> DEFINE B == {s \in SUBSET S : s \subseteq T /\ g[s] # h[s]}
<1> SUFFICES ASSUME B # {} PROVE FALSE
  OBVIOUS
<1>1. PICK s \in B : \A u \in B : u \subseteq s => u = s
  <2>1. B \in SUBSET SUBSET S
    OBVIOUS
  <2> HIDE DEF B
  <2> QED
    BY <2>1, SmallestFinite
<1>2. s # {}
  BY DEF Folds
<1>3. ch[s] \in s
  BY <1>2
<1>4. (s \ {ch[s]}) \notin B
  <2> HIDE DEF B
  <2> QED
    BY <1>1, <1>3
<1>5. g[s \ {ch[s]}] = h[s \ {ch[s]}]
  BY <1>4
<1> QED
  BY <1>2, <1>5 DEF Folds

\* Every finite set can be folded.
LEMMA FoldExists ==
  ASSUME NEW S, IsFiniteSet(S), NEW ch, NEW V, NEW F, NEW base \in V,
         \A s \in (SUBSET S) \ {{}} : ch[s] \in s,
         \A x \in S, v \in V : F[<<x, v>>] \in V
  PROVE  \E g \in [SUBSET S -> V] : Folds(g, S, ch, F, base)
<1> DEFINE Ok(T) == \E g \in [SUBSET T -> V] : Folds(g, T, ch, F, base)
           B == {T \in SUBSET S : ~Ok(T)}
<1> SUFFICES ASSUME B # {} PROVE FALSE
  OBVIOUS
<1>1. PICK T \in B : \A U \in B : U \subseteq T => U = T
  <2>1. B \in SUBSET SUBSET S
    OBVIOUS
  <2> HIDE DEF B
  <2> QED
    BY <2>1, SmallestFinite
<1>2. T \in SUBSET S /\ ~Ok(T)
  OBVIOUS
<1>3. \A U \in (SUBSET T) \ {T} : Ok(U)
  <2> SUFFICES ASSUME NEW U \in (SUBSET T) \ {T}, ~Ok(U) PROVE FALSE
    OBVIOUS
  <2>1. U \in B
    BY <1>2
  <2> HIDE DEF B, Ok
  <2> QED
    BY <2>1, <1>1
<1> DEFINE part == [U \in (SUBSET T) \ {T} |->
                      CHOOSE g \in [SUBSET U -> V] : Folds(g, U, ch, F, base)]
<1>4. \A U \in (SUBSET T) \ {T} :
        part[U] \in [SUBSET U -> V] /\ Folds(part[U], U, ch, F, base)
  BY <1>3
<1> DEFINE low == [U \in (SUBSET T) \ {T} |-> part[U][U]]
<1>5. \A U \in (SUBSET T) \ {T} : low[U] \in V
  <2> SUFFICES ASSUME NEW U \in (SUBSET T) \ {T} PROVE part[U][U] \in V
    BY DEF low
  <2>1. part[U] \in [SUBSET U -> V]
    BY <1>4
  <2> HIDE DEF part
  <2> QED
    BY <2>1
<1>6. \A U \in (SUBSET T) \ {T, {}} : low[U] = F[<<ch[U], low[U \ {ch[U]}]>>]
  <2> SUFFICES ASSUME NEW U \in (SUBSET T) \ {T, {}}
               PROVE  low[U] = F[<<ch[U], low[U \ {ch[U]}]>>]
    OBVIOUS
  <2>1. ch[U] \in U
    BY <1>2
  <2> DEFINE W == U \ {ch[U]}
  <2>2. W \in (SUBSET T) \ {T} /\ W \subseteq U
    BY <2>1
  <2>3. part[U][U] = F[<<ch[U], part[U][W]>>]
    <3>1. Folds(part[U], U, ch, F, base)
      BY <1>4
    <3> HIDE DEF part
    <3> QED
      BY <3>1 DEF Folds
  <2>4. IsFiniteSet(W)
    BY <1>2, FS_Subset
  <2>5. part[W][W] = part[U][W]
    <3>1. \A s \in (SUBSET W) \ {{}} : ch[s] \in s
      BY <1>2
    <3>2. Folds(part[W], W, ch, F, base) /\ Folds(part[U], U, ch, F, base)
      BY <1>4, <2>2
    <3> HIDE DEF part, W
    <3> QED
      BY <3>1, <3>2, <2>2, <2>4, FoldUnique
  <2> QED
    BY <2>2, <2>3, <2>5
<1>7. T # {} => low[{}] = base
  <2> SUFFICES ASSUME T # {} PROVE low[{}] = base
    OBVIOUS
  <2>1. Folds(part[{}], {}, ch, F, base)
    BY <1>4
  <2> QED
    BY <2>1 DEF Folds
<1> HIDE DEF part, low
<1> DEFINE g == [U \in SUBSET T |-> IF U # T THEN low[U]
                                    ELSE IF T = {} THEN base ELSE F[<<ch[T], low[T \ {ch[T]}]>>]]
<1>8. g \in [SUBSET T -> V]
  <2>1. T # {} => F[<<ch[T], low[T \ {ch[T]}]>>] \in V
    <3> SUFFICES ASSUME T # {} PROVE F[<<ch[T], low[T \ {ch[T]}]>>] \in V
      OBVIOUS
    <3>1. ch[T] \in T /\ (T \ {ch[T]}) \in (SUBSET T) \ {T}
      BY <1>2
    <3> QED
      BY <3>1, <1>2, <1>5
  <2> QED
    BY <2>1, <1>5
<1>9. Folds(g, T, ch, F, base)
  <2>1. g[{}] = base
    BY <1>7
  <2>2. ASSUME NEW s \in (SUBSET T) \ {{}}
        PROVE  g[s] = F[<<ch[s], g[s \ {ch[s]}]>>]
    <3>1. ch[s] \in s
      BY <1>2
    <3>2. (s \ {ch[s]}) \in (SUBSET T) \ {T}
      BY <3>1
    <3>3. g[s \ {ch[s]}] = low[s \ {ch[s]}]
      BY <3>2
    <3>4. g[s] = F[<<ch[s], low[s \ {ch[s]}]>>]
      <4>1. CASE s = T
        BY <4>1
      <4>2. CASE s # T
        BY <4>2, <1>6
      <4> QED
        BY <4>1, <4>2
    <3> HIDE DEF g
    <3> QED
      BY <3>3, <3>4
  <2> HIDE DEF g
  <2> QED
    BY <2>1, <2>2 DEF Folds
<1> QED
  BY <1>2, <1>8, <1>9

-----------------------------------------------------------------------------
(* Sums over the applications.                                             *)

SumOver(n) == FoldFunction(LAMBDA x, y : x + y, 0, n)
Pick == [s \in SUBSET Apps |-> CHOOSE a \in s : TRUE]
Plus(n) == [p \in Apps \X Nat |-> n[p[1]] + p[2]]

\* The sum is what folding by Plus gives.
LEMMA SumFolds ==
  ASSUME NEW n \in [Apps -> Nat]
  PROVE  \E g \in [SUBSET Apps -> Nat] :
           Folds(g, Apps, Pick, Plus(n), 0) /\ SumOver(n) = g[Apps]
<1>1. IsFiniteSet(Apps)
  BY TransactionAssumption
<1>2. \A s \in (SUBSET Apps) \ {{}} : Pick[s] \in s
  BY DEF Pick
<1>3. PICK g \in [SUBSET Apps -> Nat] : Folds(g, Apps, Pick, Plus(n), 0)
  <2>1. \A a \in Apps, v \in Nat : Plus(n)[<<a, v>>] \in Nat
    BY DEF Plus
  <2> QED
    BY <1>1, <1>2, <2>1, FoldExists
<1> DEFINE Eq(h) == h = [s \in SUBSET Apps |->
                          IF s = {} THEN 0
                          ELSE n[CHOOSE a \in s : TRUE] + h[s \ {CHOOSE a \in s : TRUE}]]
           iter == CHOOSE h : Eq(h)
<1>4. \A s \in (SUBSET Apps) \ {{}} : g[s] = n[Pick[s]] + g[s \ {Pick[s]}]
  <2> SUFFICES ASSUME NEW s \in (SUBSET Apps) \ {{}}
               PROVE  g[s] = n[Pick[s]] + g[s \ {Pick[s]}]
    OBVIOUS
  <2>1. g[s] = Plus(n)[<<Pick[s], g[s \ {Pick[s]}]>>]
    BY <1>3 DEF Folds
  <2>2. Pick[s] \in Apps /\ g[s \ {Pick[s]}] \in Nat
    BY <1>2
  <2> QED
    BY <2>1, <2>2 DEF Plus
<1>5. Eq(g)
  <2>1. g[{}] = 0
    BY <1>3 DEF Folds
  <2>2. \A s \in SUBSET Apps : Pick[s] = CHOOSE a \in s : TRUE
    BY DEF Pick
  <2>3. g = [s \in SUBSET Apps |-> g[s]]
    OBVIOUS
  <2>4. \A s \in SUBSET Apps :
          g[s] = IF s = {} THEN 0
                 ELSE n[CHOOSE a \in s : TRUE] + g[s \ {CHOOSE a \in s : TRUE}]
    BY <2>1, <2>2, <1>4
  <2> QED
    BY <2>3, <2>4, Zenon
<1>6. Eq(iter)
  <2> HIDE DEF Eq
  <2> QED
    BY <1>5, Zenon
<1>7. SumOver(n) = iter[Apps]
  <2>1. DOMAIN n = Apps
    OBVIOUS
  <2> QED
    BY <2>1, Zenon DEF SumOver, FoldFunction, FoldFunctionOnSet, MapThenFoldSet
<1>8. iter[Apps] = g[Apps]
  <2> DEFINE B == {s \in SUBSET Apps : iter[s] # g[s]}
  <2> SUFFICES ASSUME B # {} PROVE FALSE
    OBVIOUS
  <2>1. B \in SUBSET SUBSET Apps
    OBVIOUS
  <2>2. PICK s \in B : \A u \in B : u \subseteq s => u = s
    <3> HIDE DEF B
    <3> QED
      BY <1>1, <2>1, SmallestFinite
  <2> HIDE DEF iter
  <2>3. iter[{}] = 0 /\ \A t \in (SUBSET Apps) \ {{}} : iter[t] = n[Pick[t]] + iter[t \ {Pick[t]}]
    BY <1>6 DEF Pick
  <2>4. s # {} /\ s \in SUBSET Apps
    BY <2>3, <1>5
  <2>5. Pick[s] \in s
    BY <2>4, <1>2
  <2>6. (s \ {Pick[s]}) \notin B
    <3> HIDE DEF B
    <3> QED
      BY <2>2, <2>5
  <2>7. iter[s \ {Pick[s]}] = g[s \ {Pick[s]}]
    BY <2>4, <2>6
  <2>8. iter[s] = g[s]
    <3> HIDE DEF B, Eq
    <3> QED
      BY <2>3, <2>4, <2>7, <1>4
  <2> QED
    BY <2>8
<1> QED
  BY <1>3, <1>7, <1>8

\* A sum of natural numbers is one.
LEMMA SumType ==
  ASSUME NEW n \in [Apps -> Nat]
  PROVE  SumOver(n) \in Nat
BY SumFolds

\* Changing one number changes the sum by the difference.
LEMMA SumChange ==
  ASSUME NEW n \in [Apps -> Nat], NEW m \in [Apps -> Nat], NEW a \in Apps,
         \A b \in Apps \ {a} : m[b] = n[b]
  PROVE  SumOver(m) = SumOver(n) - n[a] + m[a]
<1>1. PICK g \in [SUBSET Apps -> Nat] :
        Folds(g, Apps, Pick, Plus(n), 0) /\ SumOver(n) = g[Apps]
  BY SumFolds
<1>2. PICK h \in [SUBSET Apps -> Nat] :
        Folds(h, Apps, Pick, Plus(m), 0) /\ SumOver(m) = h[Apps]
  BY SumFolds
<1>3. \A s \in (SUBSET Apps) \ {{}} :
        /\ Pick[s] \in s
        /\ g[s] = n[Pick[s]] + g[s \ {Pick[s]}]
        /\ h[s] = m[Pick[s]] + h[s \ {Pick[s]}]
  <2> SUFFICES ASSUME NEW s \in (SUBSET Apps) \ {{}}
               PROVE  /\ Pick[s] \in s
                      /\ g[s] = n[Pick[s]] + g[s \ {Pick[s]}]
                      /\ h[s] = m[Pick[s]] + h[s \ {Pick[s]}]
    OBVIOUS
  <2>1. g[s] = Plus(n)[<<Pick[s], g[s \ {Pick[s]}]>>]
    BY <1>1 DEF Folds
  <2>2. h[s] = Plus(m)[<<Pick[s], h[s \ {Pick[s]}]>>]
    BY <1>2 DEF Folds
  <2>3. Pick[s] \in s
    BY DEF Pick
  <2>4. Pick[s] \in Apps /\ g[s \ {Pick[s]}] \in Nat /\ h[s \ {Pick[s]}] \in Nat
    BY <2>3
  <2> QED
    BY <2>1, <2>2, <2>3, <2>4 DEF Plus
<1>4. g[{}] = 0 /\ h[{}] = 0
  BY <1>1, <1>2 DEF Folds
<1> DEFINE Moved(s) == IF a \in s THEN g[s] - n[a] + m[a] ELSE g[s]
           B == {s \in SUBSET Apps : h[s] # Moved(s)}
<1>5. B = {}
  <2> SUFFICES ASSUME B # {} PROVE FALSE
    OBVIOUS
  <2>1. IsFiniteSet(Apps)
    BY TransactionAssumption
  <2>2. B \in SUBSET SUBSET Apps
    OBVIOUS
  <2>3. PICK s \in B : \A u \in B : u \subseteq s => u = s
    <3> HIDE DEF B
    <3> QED
      BY <2>1, <2>2, SmallestFinite
  <2>4. s # {} /\ s \in SUBSET Apps
    BY <1>4
  <2>5. Pick[s] \in s
    BY <2>4, <1>3
  <2>6. (s \ {Pick[s]}) \notin B
    <3> HIDE DEF B
    <3> QED
      BY <2>3, <2>5
  <2> DEFINE c == Pick[s]
             r == s \ {c}
  <2>7. r \in SUBSET Apps /\ h[r] = Moved(r)
    BY <2>4, <2>6
  <2>8. g[s] = n[c] + g[r] /\ h[s] = m[c] + h[r] /\ c \in s
    BY <2>4, <1>3
  <2>9. c # a => m[c] = n[c]
    BY <2>5, <2>4
  <2>10. h[r] \in Nat /\ g[r] \in Nat /\ g[s] \in Nat /\ h[s] \in Nat
         /\ n[a] \in Nat /\ m[a] \in Nat /\ n[c] \in Nat /\ m[c] \in Nat
    BY <2>4, <2>5, <2>7
  <2>11. h[s] = Moved(s)
    <3>1. CASE c = a
      <4>1. a \in s /\ a \notin r
        BY <3>1, <2>8
      <4> HIDE DEF c, r
      <4> QED
        BY <4>1, <3>1, <2>7, <2>8, <2>10
    <3>2. CASE c # a /\ a \in s
      <4>1. a \in r
        BY <3>2
      <4> HIDE DEF c, r
      <4> QED
        BY <4>1, <3>2, <2>7, <2>8, <2>9, <2>10
    <3>3. CASE c # a /\ a \notin s
      <4>1. a \notin r
        BY <3>3
      <4> HIDE DEF c, r
      <4> QED
        BY <4>1, <3>3, <2>7, <2>8, <2>9, <2>10
    <3> QED
      BY <3>1, <3>2, <3>3, <2>8
  <2> QED
    BY <2>11
<1>6. h[Apps] = g[Apps] - n[a] + m[a]
  <2>1. Apps \notin B /\ Apps \in SUBSET Apps
    BY <1>5
  <2> QED
    BY <2>1
<1> QED
  BY <1>1, <1>2, <1>6

\* No number is larger than the sum.
LEMMA SumAtLeast ==
  ASSUME NEW n \in [Apps -> Nat], NEW a \in Apps
  PROVE  n[a] <= SumOver(n)
<1> DEFINE m == [n EXCEPT ![a] = 0]
<1>1. m \in [Apps -> Nat] /\ m[a] = 0 /\ \A b \in Apps \ {a} : m[b] = n[b]
  OBVIOUS
<1> HIDE DEF m
<1>2. SumOver(m) = SumOver(n) - n[a] + m[a]
  BY <1>1, SumChange
<1>3. SumOver(m) \in Nat /\ SumOver(n) \in Nat /\ n[a] \in Nat
  BY <1>1, SumType
<1> QED
  BY <1>1, <1>2, <1>3

\* Only zeros add up to zero.
LEMMA SumZero ==
  ASSUME NEW n \in [Apps -> Nat], \A a \in Apps : n[a] = 0
  PROVE  SumOver(n) = 0
<1>1. PICK g \in [SUBSET Apps -> Nat] :
        Folds(g, Apps, Pick, Plus(n), 0) /\ SumOver(n) = g[Apps]
  BY SumFolds
<1> DEFINE B == {s \in SUBSET Apps : g[s] # 0}
<1> SUFFICES ASSUME B # {} PROVE FALSE
  BY <1>1
<1>2. IsFiniteSet(Apps)
  BY TransactionAssumption
<1>3. B \in SUBSET SUBSET Apps
  OBVIOUS
<1>4. PICK s \in B : \A u \in B : u \subseteq s => u = s
  <2> HIDE DEF B
  <2> QED
    BY <1>2, <1>3, SmallestFinite
<1>5. s # {} /\ s \in SUBSET Apps
  BY <1>1 DEF Folds
<1>6. Pick[s] \in s
  BY <1>5 DEF Pick
<1>7. (s \ {Pick[s]}) \notin B
  <2> HIDE DEF B
  <2> QED
    BY <1>4, <1>6
<1>8. g[s \ {Pick[s]}] = 0
  BY <1>5, <1>7
<1>9. g[s] = Plus(n)[<<Pick[s], 0>>]
  BY <1>1, <1>5, <1>8 DEF Folds
<1>10. g[s] = 0
  BY <1>5, <1>6, <1>9 DEF Plus
<1> QED
  BY <1>10

-----------------------------------------------------------------------------
(* Counting the references in a log.                                       *)

\* Places of a sequence are finitely many.
LEMMA PlacesFinite ==
  ASSUME NEW S, NEW s \in Seq(S), NEW A \in SUBSET DOMAIN s
  PROVE  IsFiniteSet(A) /\ Cardinality(A) \in Nat
<1>1. DOMAIN s = 1..Len(s) /\ Len(s) \in Nat
  OBVIOUS
<1>2. IsFiniteSet(DOMAIN s)
  BY <1>1, FS_Interval
<1> QED
  BY <1>2, FS_Subset, FS_CardinalityType

\* Moving the numbers above k keeps how many there are.
LEMMA ClosingUp ==
  ASSUME NEW A \in SUBSET Nat, IsFiniteSet(A), NEW k \in Nat, k \notin A
  PROVE  LET B == {i \in Nat : (i < k /\ i \in A) \/ (i >= k /\ i + 1 \in A)}
         IN  IsFiniteSet(B) /\ Cardinality(B) = Cardinality(A)
<1> DEFINE B == {i \in Nat : (i < k /\ i \in A) \/ (i >= k /\ i + 1 \in A)}
           m == [i \in A |-> IF i < k THEN i ELSE i - 1]
<1>1. m \in [A -> B]
  OBVIOUS
<1>2. \A i, j \in A : m[i] = m[j] => i = j
  OBVIOUS
<1>3. \A b \in B : \E a \in A : m[a] = b
  <2> SUFFICES ASSUME NEW b \in B PROVE \E a \in A : m[a] = b
    OBVIOUS
  <2>1. CASE b < k
    BY <2>1
  <2>2. CASE b >= k
    <3>1. b + 1 \in A /\ m[b + 1] = b
      BY <2>2
    <3> QED
      BY <3>1
  <2> QED
    BY <2>1, <2>2
<1>4. ExistsBijection(A, B)
  <2> HIDE DEF B, m
  <2> QED
    BY <1>1, <1>2, <1>3 DEF ExistsBijection, Bijection, Injection, Surjection, IsInjective
<1> HIDE DEF B, m
<1>5. IsFiniteSet(B) /\ Cardinality(B) = Cardinality(A)
  BY <1>4, FS_Bijection
<1> QED
  BY <1>5 DEF B

\* Numbers moved up by k.
LEMMA MovingUp ==
  ASSUME NEW A \in SUBSET Nat, IsFiniteSet(A), NEW k \in Nat
  PROVE  LET B == {i \in Nat : i >= k /\ i - k \in A}
         IN  IsFiniteSet(B) /\ Cardinality(B) = Cardinality(A)
<1> DEFINE B == {i \in Nat : i >= k /\ i - k \in A}
           m == [i \in A |-> i + k]
<1>1. m \in [A -> B]
  OBVIOUS
<1>2. \A i, j \in A : m[i] = m[j] => i = j
  OBVIOUS
<1>3. \A b \in B : \E a \in A : m[a] = b
  <2> SUFFICES ASSUME NEW b \in B PROVE \E a \in A : m[a] = b
    OBVIOUS
  <2>1. b - k \in A /\ m[b - k] = b
    OBVIOUS
  <2> QED
    BY <2>1
<1>4. ExistsBijection(A, B)
  <2> HIDE DEF B, m
  <2> QED
    BY <1>1, <1>2, <1>3 DEF ExistsBijection, Bijection, Injection, Surjection, IsInjective
<1> HIDE DEF B, m
<1>5. IsFiniteSet(B) /\ Cardinality(B) = Cardinality(A)
  BY <1>4, FS_Bijection
<1> QED
  BY <1>5 DEF B

Held(s, f) == {i \in DOMAIN s : Holds(s[i], f)}

\* RefsIn is the number of places Held.
LEMMA RefsInHeld ==
  ASSUME NEW s, NEW f
  PROVE  RefsIn(s, f) = Cardinality(Held(s, f))
BY DEF RefsIn, Held

\* References in a log are counted by a natural number, zero when no record holds one.
LEMMA RefsInType ==
  ASSUME NEW s \in Seq(UndoRec), NEW f
  PROVE  /\ RefsIn(s, f) \in Nat
         /\ RefsIn(s, f) = 0 <=> \A i \in DOMAIN s : ~Holds(s[i], f)
<1>1. IsFiniteSet(Held(s, f)) /\ Cardinality(Held(s, f)) \in Nat
  BY PlacesFinite DEF Held
<1>2. Cardinality(Held(s, f)) = 0 <=> Held(s, f) = {}
  BY <1>1, FS_EmptySet
<1>3. Held(s, f) = {} <=> \A i \in DOMAIN s : ~Holds(s[i], f)
  BY DEF Held
<1> QED
  BY <1>1, <1>2, <1>3, RefsInHeld

\* An empty log holds no reference.
LEMMA RefsInEmpty ==
  ASSUME NEW f
  PROVE  RefsIn(<<>>, f) = 0
<1>1. <<>> \in Seq(UndoRec) /\ DOMAIN <<>> = {}
  BY EmptySeq
<1> QED
  BY <1>1, RefsInType

\* The references of two logs add up.
LEMMA RefsInConcat ==
  ASSUME NEW s \in Seq(UndoRec), NEW t \in Seq(UndoRec), NEW f
  PROVE  RefsIn(s \o t, f) = RefsIn(s, f) + RefsIn(t, f)
<1> DEFINE A == Held(s, f)
           B == Held(t, f)
           k == Len(s)
           C == {i \in Nat : i >= k /\ i - k \in B}
<1>1. /\ s \o t \in Seq(UndoRec) /\ Len(s \o t) = Len(s) + Len(t)
      /\ \A i \in 1..Len(s) + Len(t) : (s \o t)[i] = IF i <= Len(s) THEN s[i] ELSE t[i - Len(s)]
      /\ DOMAIN s = 1..Len(s) /\ DOMAIN t = 1..Len(t) /\ DOMAIN (s \o t) = 1..Len(s \o t)
      /\ Len(s) \in Nat /\ Len(t) \in Nat
  BY ConcatProperties, LenProperties
<1>2. Held(s \o t, f) = A \cup C
  <2>1. \A i \in Held(s \o t, f) : i \in A \cup C
    BY <1>1 DEF Held
  <2>2. \A i \in A : i \in Held(s \o t, f)
    BY <1>1 DEF Held
  <2>3. ASSUME NEW i \in C PROVE i \in Held(s \o t, f)
    <3>1. i \in Nat /\ i - k \in 1..Len(t) /\ Holds(t[i - k], f)
      BY <1>1 DEF Held
    <3>2. i \in 1..Len(s) + Len(t) /\ ~(i <= Len(s))
      BY <3>1, <1>1
    <3>3. (s \o t)[i] = t[i - k]
      BY <3>2, <1>1
    <3> QED
      BY <3>1, <3>2, <3>3, <1>1 DEF Held
  <2> QED
    BY <2>1, <2>2, <2>3
<1>3. A \cap C = {}
  BY <1>1 DEF Held
<1>4. IsFiniteSet(A) /\ IsFiniteSet(B) /\ B \in SUBSET Nat
  BY <1>1, PlacesFinite DEF Held
<1>5. IsFiniteSet(C) /\ Cardinality(C) = Cardinality(B)
  <2> HIDE DEF B, k
  <2>1. k \in Nat
    BY <1>1 DEF k
  <2> QED
    BY <1>4, <2>1, MovingUp
<1>6. Cardinality(A \cup C) = Cardinality(A) + Cardinality(C)
  <2> HIDE DEF A, C
  <2>1. Cardinality(A \cup C) = Cardinality(A) + Cardinality(C) - Cardinality(A \cap C)
    BY <1>4, <1>5, FS_Union
  <2>2. Cardinality(A \cap C) = 0
    BY <1>3, FS_EmptySet
  <2>3. Cardinality(A) \in Nat /\ Cardinality(C) \in Nat
    BY <1>4, <1>5, FS_CardinalityType
  <2> QED
    BY <2>1, <2>2, <2>3
<1> HIDE DEF A, B, C
<1> QED
  BY <1>2, <1>5, <1>6, RefsInHeld DEF A, B

\* Two logs with the same records at the same places, as far as f goes.
LEMMA RefsInSame ==
  ASSUME NEW s, NEW t, NEW f, DOMAIN s = DOMAIN t,
         \A i \in DOMAIN s : Holds(s[i], f) <=> Holds(t[i], f)
  PROVE  RefsIn(s, f) = RefsIn(t, f)
<1>1. Held(s, f) = Held(t, f)
  BY DEF Held
<1> QED
  BY <1>1, RefsInHeld

-----------------------------------------------------------------------------
(* All the references to a file.                                           *)

Logs == [Apps -> {NoLog, Reserved} \cup Seq(UndoRec)]
\* Refs as a function of the logs.
RefsOf(d, f) == SumOver([a \in Apps |-> RefsIn(Records(d[a]), f)])

\* The references in the logs are the sum over the applications that RefsOf is.
LEMMA RefsIs ==
  ASSUME NEW f
  PROVE  Refs(f) = RefsOf(dat, f)
BY Zenon DEF Refs, RefsOf, SumOver, Log

\* The same, for every file at once.
LEMMA RefsAre == \A f : Refs(f) = RefsOf(dat, f)
BY RefsIs

\* The same, in the next state.
LEMMA RefsAreNext == \A f : Refs(f)' = RefsOf(dat', f)
<1>1. (\A f : Refs(f) = RefsOf(dat, f))'
  BY RefsAre, PTL
<1> QED
  BY <1>1

\* What a log has of records is a sequence of them.
LEMMA RecordsType ==
  ASSUME NEW d \in {NoLog, Reserved} \cup Seq(UndoRec)
  PROVE  Records(d) \in Seq(UndoRec) /\ (d \in Seq(UndoRec) => Records(d) = d)
BY EmptySeq, TransactionAssumption DEF Records

\* The references of each application are a natural number.
LEMMA LogsCounted ==
  ASSUME NEW d \in Logs, NEW f
  PROVE  [a \in Apps |-> RefsIn(Records(d[a]), f)] \in [Apps -> Nat]
<1>1. \A a \in Apps : Records(d[a]) \in Seq(UndoRec)
  BY RecordsType DEF Logs
<1> QED
  BY <1>1, RefsInType

\* All references are at least those of one application.
LEMMA RefsAtLeast ==
  ASSUME NEW d \in Logs, NEW f
  PROVE  /\ RefsOf(d, f) \in Nat
         /\ \A a \in Apps : /\ RefsIn(Records(d[a]), f) \in Nat
                            /\ RefsIn(Records(d[a]), f) <= RefsOf(d, f)
<1> DEFINE n == [b \in Apps |-> RefsIn(Records(d[b]), f)]
<1>1. n \in [Apps -> Nat] /\ \A a \in Apps : n[a] = RefsIn(Records(d[a]), f)
  BY LogsCounted
<1>2. RefsOf(d, f) = SumOver(n)
  BY DEF RefsOf
<1> HIDE DEF n
<1>3. \A a \in Apps : n[a] <= SumOver(n)
  BY <1>1, SumAtLeast
<1> QED
  BY <1>1, <1>2, <1>3, SumType

\* Logs with the same references each.
LEMMA RefsSame ==
  ASSUME NEW d, NEW e, NEW f,
         \A a \in Apps : RefsIn(Records(d[a]), f) = RefsIn(Records(e[a]), f)
  PROVE  RefsOf(d, f) = RefsOf(e, f)
<1>1. [a \in Apps |-> RefsIn(Records(d[a]), f)] = [a \in Apps |-> RefsIn(Records(e[a]), f)]
  OBVIOUS
<1> QED
  BY <1>1 DEF RefsOf

\* Logs that differ in one application.
LEMMA RefsChange ==
  ASSUME NEW d \in Logs, NEW e \in Logs, NEW f, NEW a \in Apps,
         \A b \in Apps \ {a} : e[b] = d[b]
  PROVE  RefsOf(e, f) = RefsOf(d, f) - RefsIn(Records(d[a]), f) + RefsIn(Records(e[a]), f)
<1> DEFINE n == [b \in Apps |-> RefsIn(Records(d[b]), f)]
           m == [b \in Apps |-> RefsIn(Records(e[b]), f)]
<1>1. n \in [Apps -> Nat] /\ m \in [Apps -> Nat]
  BY LogsCounted
<1>2. RefsOf(d, f) = SumOver(n) /\ RefsOf(e, f) = SumOver(m)
  BY DEF RefsOf
<1>3. /\ n[a] = RefsIn(Records(d[a]), f) /\ m[a] = RefsIn(Records(e[a]), f)
      /\ \A b \in Apps \ {a} : m[b] = n[b]
  OBVIOUS
<1> HIDE DEF n, m
<1> QED
  BY <1>1, <1>2, <1>3, SumChange

-----------------------------------------------------------------------------
(* Directories: Path is what its recursive equation says.                  *)

UpClosed(C) == \A x \in C \ {Root} : Parent[x] \in C
\* The directory and what can be reached from it by Parent.
Above == [d \in Dirs |-> {e \in Dirs : \A C \in SUBSET Dirs : d \in C /\ UpClosed(C) => e \in C}]

\* The directories above one are those above its parent, and itself.
LEMMA AboveEquation ==
  \A d \in Dirs : Above[d] = IF d = Root THEN {Root} ELSE {d} \cup Above[Parent[d]]
<1> USE TransactionAssumption
<1> SUFFICES ASSUME NEW d \in Dirs
             PROVE  Above[d] = IF d = Root THEN {Root} ELSE {d} \cup Above[Parent[d]]
  OBVIOUS
<1>1. CASE d = Root
  <2>1. {Root} \in SUBSET Dirs /\ UpClosed({Root})
    BY DEF UpClosed
  <2> QED
    BY <1>1, <2>1 DEF Above
<1>2. CASE d # Root
  <2> DEFINE p == Parent[d]
  <2>1. p \in Dirs
    OBVIOUS
  <2>2. \A C \in SUBSET Dirs : d \in C /\ UpClosed(C) => p \in C
    BY <1>2 DEF UpClosed
  <2>3. ASSUME NEW C \in SUBSET Dirs, p \in C, UpClosed(C)
        PROVE  (C \cup {d}) \in SUBSET Dirs /\ d \in C \cup {d} /\ UpClosed(C \cup {d})
    BY <2>3 DEF UpClosed
  <2>4. \A e \in {d} \cup Above[p] : e \in Above[d]
    BY <2>1, <2>2 DEF Above
  <2>5. ASSUME NEW e \in Above[d], e # d PROVE e \in Above[p]
    <3> SUFFICES ASSUME NEW C \in SUBSET Dirs, p \in C, UpClosed(C) PROVE e \in C
      BY <2>1 DEF Above
    <3>1. e \in C \cup {d}
      BY <2>3 DEF Above
    <3> QED
      BY <3>1, <2>5
  <2> QED
    BY <1>2, <2>4, <2>5
<1> QED
  BY <1>1, <1>2

\* The recursive function Path is Above: its equation has a solution, and any two agree.
LEMMA PathIsAbove == \A d \in Dirs : Path[d] = Above[d]
<1> DEFINE Eq(p) == p = [d \in Dirs |-> IF d = Root THEN {Root} ELSE {d} \cup p[Parent[d]]]
<1>1. Eq(Above)
  <2>1. Above = [d \in Dirs |-> Above[d]]
    BY DEF Above
  <2> QED
    BY <2>1, AboveEquation, Zenon
<1>2. Eq(Path)
  <2>1. Path = CHOOSE p : Eq(p)
    BY Zenon DEF Path
  <2> HIDE DEF Eq
  <2> QED
    BY <1>1, <2>1, Zenon
<1> DEFINE B == {d \in Dirs : Path[d] # Above[d]}
<1> SUFFICES ASSUME B # {} PROVE FALSE
  OBVIOUS
<1>3. \A d \in Dirs : Path[d] = IF d = Root THEN {Root} ELSE {d} \cup Path[Parent[d]]
  BY <1>2, Zenon
<1>4. B \in SUBSET (Dirs \ {Root})
  BY <1>3, AboveEquation
<1>5. PICK d \in B : Parent[d] \notin B
  <2> HIDE DEF B
  <2> QED
    BY <1>4, TransactionAssumption
<1>6. Parent[d] \in Dirs /\ d \in Dirs
  BY TransactionAssumption
<1>7. Path[Parent[d]] = Above[Parent[d]]
  BY <1>5, <1>6
<1>8. Path[d] = Above[d]
  BY <1>3, <1>6, <1>7, AboveEquation
<1> QED
  BY <1>8

\* A path is a set of directories that starts with the directory itself and
\* is closed under Parent.
LEMMA PathFacts ==
  ASSUME NEW d \in Dirs
  PROVE  /\ Path[d] \in SUBSET Dirs /\ d \in Path[d]
         /\ \A e \in Path[d] \ {Root} : Parent[e] \in Path[d]
         /\ d # Root => Path[d] = {d} \cup Path[Parent[d]]
<1> USE TransactionAssumption
<1>1. Path[d] \in SUBSET Dirs /\ d \in Path[d]
  BY PathIsAbove DEF Above
<1>2. ASSUME NEW e \in Path[d] \ {Root} PROVE Parent[e] \in Path[d]
  <2>1. e \in Above[d] /\ Parent[e] \in Dirs
    BY <1>1, PathIsAbove
  <2>2. Parent[e] \in Above[d]
    BY <2>1 DEF Above, UpClosed
  <2> QED
    BY <2>2, PathIsAbove
<1>3. d # Root => Path[d] = {d} \cup Path[Parent[d]]
  BY PathIsAbove, AboveEquation
<1> QED
  BY <1>1, <1>2, <1>3

\* No directory is its own parent, but the root may be.
LEMMA ParentDiffers ==
  \A d \in Dirs \ {Root} : Parent[d] \in Dirs /\ Parent[d] # d
<1> SUFFICES ASSUME NEW d \in Dirs \ {Root} PROVE Parent[d] \in Dirs /\ Parent[d] # d
  OBVIOUS
<1>1. {d} \in SUBSET (Dirs \ {Root}) /\ {d} # {}
  OBVIOUS
<1>2. \E e \in {d} : Parent[e] \notin {d}
  BY <1>1, TransactionAssumption
<1> QED
  BY <1>2, TransactionAssumption

-----------------------------------------------------------------------------
(* What carrying out the pending operations one by one keeps.              *)

\* Max is in its set, and above all of it.
LEMMA GreatestPlace ==
  ASSUME NEW n \in Nat, NEW T \in SUBSET (1..n), T # {}
  PROVE  Max(T) \in T
<1> DEFINE U == {k \in Nat : n - k \in T}
<1>1. PICK t \in T : TRUE
  OBVIOUS
<1>2. n - t \in U
  BY <1>1
<1>3. PICK k \in U : \A m \in U : k <= m
  <2>1. U \in SUBSET Nat /\ U # {}
    BY <1>2
  <2> HIDE DEF U
  <2> QED
    BY <2>1, LeastNatural
<1>4. n - k \in T /\ \A y \in T : n - k >= y
  <2>1. ASSUME NEW y \in T PROVE n - k >= y
    <3>1. y \in Nat /\ y <= n /\ (n - y) \in Nat /\ n - (n - y) = y
      OBVIOUS
    <3>2. (n - y) \in U
      BY <3>1
    <3>3. k \in Nat /\ k <= n - y
      BY <3>2, <1>3
    <3> QED
      BY <3>1, <3>3
  <2> QED
    BY <2>1
<1>5. \E x \in T : \A y \in T : x >= y
  BY <1>4
<1> QED
  BY <1>5, Zenon DEF Max

\* If every operation keeps the machine in W, so do all of them.
LEMMA PendingKeeps ==
  ASSUME NEW W, NEW base \in W, NEW O, NEW s \in Seq(O),
         \A w \in W, i \in DOMAIN s : Pending(w, s[i]) \in W
  PROVE  FoldLeft(Pending, base, s) \in W
<1> DEFINE S == DOMAIN s
           ch == [t \in SUBSET S |-> Max(t)]
           F == [p \in S \X W |-> Pending(p[2], s[p[1]])]
<1>1. IsFiniteSet(S) /\ S = 1..Len(s) /\ Len(s) \in Nat
  BY FS_Interval
<1>2. \A t \in (SUBSET S) \ {{}} : ch[t] \in t
  BY <1>1, GreatestPlace
<1>3. PICK g \in [SUBSET S -> W] : Folds(g, S, ch, F, base)
  <2>1. \A x \in S, v \in W : F[<<x, v>>] \in W
    OBVIOUS
  <2> HIDE DEF S, ch, F
  <2> QED
    BY <1>1, <1>2, <2>1, FoldExists
<1> DEFINE Eq(h) == h = [t \in SUBSET S |-> IF t = {} THEN base
                                            ELSE Pending(h[t \ {Max(t)}], s[Max(t)])]
           iter == CHOOSE h : Eq(h)
<1>4. \A t \in (SUBSET S) \ {{}} : g[t] = Pending(g[t \ {Max(t)}], s[Max(t)])
  <2> SUFFICES ASSUME NEW t \in (SUBSET S) \ {{}}
               PROVE  g[t] = Pending(g[t \ {Max(t)}], s[Max(t)])
    OBVIOUS
  <2>1. g[t] = F[<<ch[t], g[t \ {ch[t]}]>>] /\ ch[t] = Max(t)
    BY <1>3 DEF Folds
  <2>2. ch[t] \in S /\ g[t \ {ch[t]}] \in W
    BY <1>2
  <2> QED
    BY <2>1, <2>2
<1>5. Eq(g)
  <2>1. g[{}] = base
    BY <1>3 DEF Folds
  <2>2. g = [t \in SUBSET S |-> g[t]]
    OBVIOUS
  <2>3. \A t \in SUBSET S : g[t] = IF t = {} THEN base
                                   ELSE Pending(g[t \ {Max(t)}], s[Max(t)])
    BY <2>1, <1>4
  <2> QED
    BY <2>2, <2>3, Zenon
<1>6. Eq(iter)
  <2> HIDE DEF Eq
  <2> QED
    BY <1>5, Zenon
<1>7. FoldLeft(Pending, base, s) = iter[S]
  BY Zenon DEF FoldLeft, MapThenFoldSet
<1>8. iter[S] = g[S]
  <2> DEFINE B == {t \in SUBSET S : iter[t] # g[t]}
  <2> SUFFICES ASSUME B # {} PROVE FALSE
    OBVIOUS
  <2>1. B \in SUBSET SUBSET S
    OBVIOUS
  <2>2. PICK t \in B : \A u \in B : u \subseteq t => u = t
    <3>1. IsFiniteSet(S)
      BY <1>1
    <3>2. B # {}
      OBVIOUS
    <3> HIDE DEF B, S
    <3> QED
      BY <3>1, <3>2, <2>1, SmallestFinite
  <2> HIDE DEF iter
  <2>3. iter[{}] = base
        /\ \A u \in (SUBSET S) \ {{}} : iter[u] = Pending(iter[u \ {Max(u)}], s[Max(u)])
    BY <1>6
  <2>4. t # {} /\ t \in SUBSET S
    BY <2>3, <1>5
  <2>5. Max(t) \in t
    BY <2>4, <1>1, GreatestPlace
  <2>6. (t \ {Max(t)}) \notin B
    <3> HIDE DEF B
    <3> QED
      BY <2>2, <2>5
  <2>7. iter[t \ {Max(t)}] = g[t \ {Max(t)}]
    BY <2>4, <2>6
  <2>8. iter[t] = g[t]
    <3> HIDE DEF B, Eq
    <3> QED
      BY <2>3, <2>4, <2>7, <1>4
  <2> QED
    BY <2>8
<1>9. g[S] \in W
  OBVIOUS
<1> QED
  BY <1>7, <1>8, <1>9

-----------------------------------------------------------------------------
(* What the operators on lists return.                                     *)

\* Append, place by place.
LEMMA AppendFacts ==
  ASSUME NEW S, NEW s \in Seq(S), NEW e \in S
  PROVE  /\ Append(s, e) \in Seq(S) /\ Len(Append(s, e)) = Len(s) + 1
         /\ Len(s) \in Nat /\ DOMAIN s = 1..Len(s)
         /\ DOMAIN Append(s, e) = 1..(Len(s) + 1)
         /\ \A i \in 1..Len(s) : Append(s, e)[i] = s[i]
         /\ Append(s, e)[Len(s) + 1] = e
OBVIOUS

\* Front, place by place.
LEMMA FrontFacts ==
  ASSUME NEW S, NEW s \in Seq(S), s # <<>>
  PROVE  /\ Front(s) \in Seq(S) /\ Len(Front(s)) = Len(s) - 1
         /\ Len(s) \in Nat \ {0} /\ DOMAIN s = 1..Len(s)
         /\ DOMAIN Front(s) = 1..(Len(s) - 1)
         /\ \A i \in 1..(Len(s) - 1) : Front(s)[i] = s[i]
         /\ s[Len(s)] \in S
<1>1. Len(s) \in Nat \ {0} /\ DOMAIN s = 1..Len(s) /\ \A i \in 1..Len(s) : s[i] \in S
  OBVIOUS
<1>2. /\ SubSeq(s, 1, Len(s) - 1) \in Seq(S)
      /\ Len(SubSeq(s, 1, Len(s) - 1)) = Len(s) - 1
      /\ \A i \in 1..(Len(s) - 1) : SubSeq(s, 1, Len(s) - 1)[i] = s[i]
  BY <1>1, SubSeqProperties
<1> QED
  BY <1>1, <1>2, LenProperties DEF Front

\* Tail, place by place.
LEMMA TailFacts ==
  ASSUME NEW S, NEW s \in Seq(S), s # <<>>
  PROVE  /\ Tail(s) \in Seq(S) /\ Len(Tail(s)) = Len(s) - 1
         /\ Len(s) \in Nat \ {0} /\ DOMAIN s = 1..Len(s)
         /\ DOMAIN Tail(s) = 1..(Len(s) - 1)
         /\ \A i \in 1..(Len(s) - 1) : Tail(s)[i] = s[i + 1]
         /\ Head(s) = s[1] /\ s[1] \in S
OBVIOUS

\* The end of a sequence, place by place.
LEMMA SuffixFacts ==
  ASSUME NEW S, NEW s \in Seq(S), NEW k \in 0..Len(s)
  PROVE  /\ SubSeq(s, k + 1, Len(s)) \in Seq(S)
         /\ Len(SubSeq(s, k + 1, Len(s))) = Len(s) - k
         /\ \A i \in 1..(Len(s) - k) : SubSeq(s, k + 1, Len(s))[i] = s[k + i]
<1>1. Len(s) \in Nat /\ \A i \in 1..Len(s) : s[i] \in S
  OBVIOUS
<1>2. k + 1 \in Int /\ Len(s) \in Int /\ \A i \in (k + 1)..Len(s) : s[i] \in S
  BY <1>1
<1>3. SubSeq(s, k + 1, Len(s)) \in Seq(S)
  BY <1>2, SubSeqProperties
<1>4. Len(SubSeq(s, k + 1, Len(s))) = Len(s) - k
  <2>1. Len(SubSeq(s, k + 1, Len(s)))
          = IF k + 1 <= Len(s) THEN Len(s) - (k + 1) + 1 ELSE 0
    BY <1>2, SubSeqProperties
  <2> QED
    BY <2>1, <1>1
<1>5. ASSUME NEW i \in 1..(Len(s) - k)
      PROVE  SubSeq(s, k + 1, Len(s))[i] = s[k + i]
  <2>1. i \in 1..(Len(s) - (k + 1) + 1) /\ (k + 1) + i - 1 = k + i
    BY <1>1
  <2>2. SubSeq(s, k + 1, Len(s))[i] = s[(k + 1) + i - 1]
    BY <2>1, <1>2, SubSeqProperties
  <2> QED
    BY <2>1, <2>2
<1> QED
  BY <1>3, <1>4, <1>5

\* RemoveAt, place by place.
LEMMA RemoveAtFacts ==
  ASSUME NEW S, NEW s \in Seq(S), NEW k \in 1..Len(s)
  PROVE  /\ RemoveAt(s, k) \in Seq(S) /\ Len(RemoveAt(s, k)) = Len(s) - 1
         /\ Len(s) \in Nat \ {0} /\ DOMAIN s = 1..Len(s)
         /\ DOMAIN RemoveAt(s, k) = 1..(Len(s) - 1)
         /\ \A i \in 1..(Len(s) - 1) : RemoveAt(s, k)[i] = IF i < k THEN s[i] ELSE s[i + 1]
         /\ s[k] \in S
<1> DEFINE u == SubSeq(s, 1, k - 1)
           v == SubSeq(s, k + 1, Len(s))
<1>1. Len(s) \in Nat \ {0} /\ \A i \in 1..Len(s) : s[i] \in S
  OBVIOUS
<1>2. u \in Seq(S) /\ Len(u) = k - 1 /\ \A i \in 1..(k - 1) : u[i] = s[i]
  BY <1>1, SubSeqProperties
<1>3. v \in Seq(S) /\ Len(v) = Len(s) - k /\ \A i \in 1..(Len(s) - k) : v[i] = s[k + i]
  BY <1>1, SuffixFacts
<1> HIDE DEF u, v
<1>4. /\ u \o v \in Seq(S) /\ Len(u \o v) = Len(u) + Len(v)
      /\ \A i \in 1..(Len(u) + Len(v)) : (u \o v)[i] = IF i <= Len(u) THEN u[i] ELSE v[i - Len(u)]
  BY <1>2, <1>3, ConcatProperties
<1>5. RemoveAt(s, k) = u \o v
  BY DEF RemoveAt, u, v
<1>6. Len(u) + Len(v) = Len(s) - 1
  BY <1>1, <1>2, <1>3
<1>7. \A i \in 1..(Len(s) - 1) : (u \o v)[i] = IF i < k THEN s[i] ELSE s[i + 1]
  <2> SUFFICES ASSUME NEW i \in 1..(Len(s) - 1)
               PROVE  (u \o v)[i] = IF i < k THEN s[i] ELSE s[i + 1]
    OBVIOUS
  <2>1. (u \o v)[i] = IF i <= Len(u) THEN u[i] ELSE v[i - Len(u)]
    BY <1>4, <1>6
  <2>2. CASE i < k
    BY <2>1, <2>2, <1>1, <1>2
  <2>3. CASE ~(i < k)
    <3>1. i - (k - 1) \in 1..(Len(s) - k) /\ k + (i - (k - 1)) = i + 1
      BY <2>3, <1>1
    <3>2. (u \o v)[i] = v[i - (k - 1)]
      BY <2>1, <2>3, <1>1, <1>2
    <3> QED
      BY <3>1, <3>2, <1>3, <2>3
  <2> QED
    BY <2>2, <2>3
<1> QED
  BY <1>1, <1>4, <1>5, <1>6, <1>7, LenProperties

\* Concatenation, place by place.
LEMMA ConcatFacts ==
  ASSUME NEW S, NEW s \in Seq(S), NEW t \in Seq(S)
  PROVE  /\ s \o t \in Seq(S) /\ Len(s \o t) = Len(s) + Len(t)
         /\ Len(s) \in Nat /\ Len(t) \in Nat
         /\ DOMAIN s = 1..Len(s) /\ DOMAIN t = 1..Len(t)
         /\ DOMAIN (s \o t) = 1..(Len(s) + Len(t))
         /\ \A i \in 1..(Len(s) + Len(t)) : (s \o t)[i] = IF i <= Len(s) THEN s[i] ELSE t[i - Len(s)]
BY ConcatProperties, LenProperties

\* The kinds of records.
LEMMA RecordKinds ==
  /\ \A d \in Dirs : DirRec(d) \in UndoRec /\ DirRec(d).typ = "dir" /\ DirRec(d).dir = d
  /\ \A f \in Files : CountRec(f) \in UndoRec /\ CountRec(f).typ = "count" /\ CountRec(f).file = f
  /\ \A f \in Files, t \in Temp \cup {NoTmp}, x \in BOOLEAN, o \in SUBSET FileOptions :
       /\ FileRec(f, t, x, o) \in UndoRec
       /\ FileRec(f, t, x, o).typ = "file" /\ FileRec(f, t, x, o).file = f
       /\ FileRec(f, t, x, o).tmp = t /\ FileRec(f, t, x, o).existed = x
       /\ FileRec(f, t, x, o).opts = o
  /\ \A r \in UndoRec :
       /\ r.typ \in {"dir", "count", "file"}
       /\ r.typ = "dir" => r.dir \in Dirs /\ r = DirRec(r.dir)
       /\ r.typ = "count" => r.file \in Files /\ r = CountRec(r.file)
       /\ r.typ = "file" => /\ r.file \in Files /\ r.tmp \in Temp \cup {NoTmp}
                            /\ r.existed \in BOOLEAN /\ r.opts \in SUBSET FileOptions
<1>1. \A d \in Dirs : DirRec(d) \in UndoRec /\ DirRec(d).typ = "dir" /\ DirRec(d).dir = d
  BY DEF UndoRec, DirRec
<1>2. \A f \in Files : CountRec(f) \in UndoRec /\ CountRec(f).typ = "count" /\ CountRec(f).file = f
  BY DEF UndoRec, CountRec
<1>3. \A f \in Files, t \in Temp \cup {NoTmp}, x \in BOOLEAN, o \in SUBSET FileOptions :
        /\ FileRec(f, t, x, o) \in UndoRec
        /\ FileRec(f, t, x, o).typ = "file" /\ FileRec(f, t, x, o).file = f
        /\ FileRec(f, t, x, o).tmp = t /\ FileRec(f, t, x, o).existed = x
        /\ FileRec(f, t, x, o).opts = o
  BY DEF UndoRec, FileRec
<1>4. ASSUME NEW r \in UndoRec
      PROVE  /\ r.typ \in {"dir", "count", "file"}
             /\ r.typ = "dir" => r.dir \in Dirs /\ r = DirRec(r.dir)
             /\ r.typ = "count" => r.file \in Files /\ r = CountRec(r.file)
             /\ r.typ = "file" => /\ r.file \in Files /\ r.tmp \in Temp \cup {NoTmp}
                                  /\ r.existed \in BOOLEAN /\ r.opts \in SUBSET FileOptions
  <2>1. CASE \E d \in Dirs : r = DirRec(d)
    BY <2>1 DEF DirRec
  <2>2. CASE \E f \in Files : r = CountRec(f)
    BY <2>2 DEF CountRec
  <2>3. CASE r \in [typ : {"file"}, file : Files, tmp : Temp \cup {NoTmp},
                    existed : BOOLEAN, opts : SUBSET FileOptions]
    BY <2>3
  <2> QED
    BY <2>1, <2>2, <2>3 DEF UndoRec
<1> QED
  BY <1>1, <1>2, <1>3, <1>4

-----------------------------------------------------------------------------
\* The phases of PerformInstall, and those with a current [Files] entry.
EntryPhases == {"entry", "temp", "delete", "move", "share", "finish", "ask"}
InstallPhases == {"dirs", "reserve", "save"} \cup EntryPhases
UndoPhases == {"step2", "step3"}
Phases == {"idle", "rollback", "retrydirs"} \cup InstallPhases \cup UndoPhases

PendingOp ==
  {op \in [op : {"replace"}, file : Files, tmp : Temp] : op.tmp.file = op.file}
  \cup [op : {"delete"}, file : Files] \cup [op : {"rmdir"}, dir : Dirs]
Machine == [fs : [Files -> Content], temps : SUBSET Temp, dirs : SUBSET Dirs]

-----------------------------------------------------------------------------
(* Types, in the parts that change together.                               *)

DiskType ==
  /\ fs \in [Files -> Content]
  /\ temps \in SUBSET Temp /\ IsFiniteSet(temps)
  /\ dirs \in SUBSET Dirs /\ litter \in SUBSET Dirs
CountType == count \in [Files -> Nat] /\ slack \in [Files -> Int]
LogType ==
  /\ dat \in [Apps -> {NoLog, Reserved} \cup Seq(UndoRec)]
  /\ list \in Seq(UndoRec)
  /\ pend \in Seq(PendingOp)
ProcessType ==
  /\ pc \in Phases
  /\ app \in Apps /\ ses \in 0..MaxSessions /\ idx \in Nat
  /\ created \in BOOLEAN
  /\ faults \in 0..MaxFaults
EntryType ==
  /\ tmp \in Temp \cup {NoTmp}
  /\ left \in BOOLEAN /\ checked \in BOOLEAN /\ existed \in BOOLEAN
  /\ exists \in BOOLEAN /\ onRestart \in BOOLEAN
UndoType ==
  uninstaller \in BOOLEAN /\ notRemoved \in Seq(Dirs) /\ restartDirs \in SUBSET Dirs
StartType ==
  /\ start.fs \in [Files -> Content] /\ start.temps \in SUBSET Temp
  /\ start.dirs \in SUBSET Dirs
  /\ start.dat \in [Apps -> {NoLog, Reserved} \cup Seq(UndoRec)]
  /\ start.count \in [Files -> Nat]

\* Where the process is, and what it may have in hand there.
Control ==
  /\ pc = "dirs" => idx \in 1..Len(Wanted(app))
  /\ pc = "reserve" => idx = 1
  /\ pc \in EntryPhases => idx \in 1..Len(Entries[app])
  /\ pc = "step2" => idx <= Len(list)
  /\ pc \in InstallPhases \cup {"rollback"} => ~uninstaller /\ ses \in 1..MaxSessions
  /\ pc = "retrydirs" => uninstaller /\ list = <<>> /\ dat[app] = NoLog
  /\ pc = "idle" => /\ ~uninstaller /\ ~created /\ list = <<>>
                    /\ notRemoved = <<>> /\ restartDirs = {}
  /\ pc \notin UndoPhases \cup {"retrydirs"} => notRemoved = <<>>
  /\ pc \in InstallPhases \cup {"rollback"} => (created => dat[app] = Reserved)
  /\ pc \notin EntryPhases \cup {"idle"} => tmp = NoTmp /\ ~left

\* The temporary file in hand, and those in records, are the file's own.
OwnTemp(rec) == rec.typ = "file" /\ rec.tmp # NoTmp => rec.tmp.file = rec.file
OwnTemps ==
  /\ tmp # NoTmp => pc \in EntryPhases /\ tmp.file = Cur.file
  /\ left => tmp # NoTmp
  /\ pc \in {"delete", "move"} => tmp # NoTmp
  /\ \A i \in DOMAIN list : OwnTemp(list[i])
  /\ \A a \in Apps : \A i \in DOMAIN Log(a) : OwnTemp(Log(a)[i])

TypeInv ==
  /\ DiskType /\ CountType /\ LogType /\ ProcessType /\ EntryType /\ UndoType
  /\ StartType /\ Control /\ OwnTemps

\* The actions that touch the disk.
LEMMA DiskFrame ==
  ASSUME [Next]_vars
  PROVE  \/ UNCHANGED <<disk, litter>>
         \/ CreateDirs \/ ExtractToTemp \/ DeleteExisting \/ MoveIntoPlace
         \/ EntryRaises \/ Cancel \/ UndoDir \/ UndoFile \/ ProcessDirsNotRemoved
         \/ Restart \/ Crash
<1> USE DEF disk
<1>1. CASE UNCHANGED vars
  BY <1>1 DEF vars
<1>2. CASE \E a \in Apps : StartInstall(a) \/ StartUninstall(a)
  BY <1>2 DEF StartInstall, StartUninstall
<1>3. CASE GenerateUninstallInfoFilename \/ BeginEntry \/ ReplaceOnRestart \/ ShareEntry
           \/ FinishEntry \/ AskRetry \/ AskIgnore \/ SaveLog \/ Rollback
  BY <1>3 DEF GenerateUninstallInfoFilename, BeginEntry, ReplaceOnRestart, ShareEntry,
              FinishEntry, AskRetry, AskIgnore, SaveLog, Rollback
<1>4. CASE Step2 \/ EndStep2 \/ UndoCount \/ UndoFileRaises \/ UndoFileInUse \/ EndRollback
           \/ DeleteUninstallDataFiles \/ EndUninstall
  BY <1>4 DEF Step2, EndStep2, UndoCount, UndoFileRaises, UndoFileInUse, EndRollback,
              DeleteUninstallDataFiles, EndUninstall, TakeNewest
<1> QED
  BY <1>1, <1>2, <1>3, <1>4 DEF Next

\* The entry in hand.
LEMMA CurType ==
  ASSUME TypeInv, pc \in EntryPhases
  PROVE  /\ Cur \in [file : Files, opts : SUBSET FileOptions]
         /\ Cur.file \in Files /\ DirOf[Cur.file] \in Dirs /\ Cur.opts \in SUBSET FileOptions
         /\ idx \in 1..Len(Entries[app]) /\ app \in Apps
<1>1. app \in Apps /\ idx \in 1..Len(Entries[app])
  BY DEF TypeInv, ProcessType, Control
<1>2. Entries[app] \in Seq([file : Files, opts : SUBSET FileOptions])
  BY <1>1, TransactionAssumption
<1>3. Cur \in [file : Files, opts : SUBSET FileOptions]
  BY <1>1, <1>2, ElementOfSeq DEF Cur
<1> QED
  BY <1>1, <1>3, TransactionAssumption

\* The directories an application asks for are its own, then those of [Dirs].
LEMMA WantedType ==
  ASSUME NEW a \in Apps
  PROVE  /\ Wanted(a) \in Seq([dir : Dirs, opts : SUBSET DirOptions])
         /\ Len(Wanted(a)) = Len(ExtraDirs[a]) + 1
         /\ Wanted(a)[1] = [dir |-> AppDir[a], opts |-> {}]
         /\ \A i \in 2..Len(Wanted(a)) : Wanted(a)[i] = ExtraDirs[a][i - 1]
<1> DEFINE D == [dir : Dirs, opts : SUBSET DirOptions]
           s == <<[dir |-> AppDir[a], opts |-> {}]>>
<1>1. [dir |-> AppDir[a], opts |-> {}] \in D /\ ExtraDirs[a] \in Seq(D)
  BY TransactionAssumption
<1>2. s \in Seq(D) /\ Len(s) = 1 /\ s[1] = [dir |-> AppDir[a], opts |-> {}]
  BY <1>1
<1> HIDE DEF D, s
<1>3. /\ s \o ExtraDirs[a] \in Seq(D) /\ Len(s \o ExtraDirs[a]) = 1 + Len(ExtraDirs[a])
      /\ Len(ExtraDirs[a]) \in Nat
      /\ \A i \in 1..(1 + Len(ExtraDirs[a])) :
           (s \o ExtraDirs[a])[i] = IF i <= 1 THEN s[i] ELSE ExtraDirs[a][i - 1]
  BY <1>1, <1>2, ConcatProperties, LenProperties
<1>4. Wanted(a) = s \o ExtraDirs[a]
  BY DEF Wanted, s
<1>5. (s \o ExtraDirs[a])[1] = s[1]
  BY <1>3
<1>6. \A i \in 2..(1 + Len(ExtraDirs[a])) : (s \o ExtraDirs[a])[i] = ExtraDirs[a][i - 1]
  BY <1>3
<1>7. Len(s \o ExtraDirs[a]) = Len(ExtraDirs[a]) + 1
  BY <1>3
<1> QED
  BY <1>2, <1>3, <1>4, <1>5, <1>6, <1>7, Zenon DEF D

\* MakeDir makes one directory, above or equal to the one asked for, and
\* may record it.
LEMMA MadeDir ==
  ASSUME NEW d \in Dirs, NEW o, MakeParent(d, o) \/ MakeLast(d, o)
  PROVE  \E e \in Path[d] :
           /\ e \in Dirs /\ dirs' = dirs \cup {e}
           /\ list' = list \/ list' = Append(list, DirRec(e))
<1>1. Path[d] \in SUBSET Dirs /\ d \in Path[d]
  BY PathFacts
<1>2. CASE MakeParent(d, o)
  BY <1>1, <1>2 DEF MakeParent
<1>3. CASE MakeLast(d, o)
  BY <1>1, <1>3 DEF MakeLast
<1> QED
  BY <1>2, <1>3

\* The directory an action of MakeDir is about.
LEMMA AskedDir ==
  ASSUME TypeInv
  PROVE  /\ pc = "dirs" => Wanted(app)[idx].dir \in Dirs
         /\ pc = "temp" => DirOf[Cur.file] \in Dirs
<1>1. pc = "dirs" => Wanted(app)[idx].dir \in Dirs
  <2> SUFFICES ASSUME pc = "dirs" PROVE Wanted(app)[idx].dir \in Dirs
    OBVIOUS
  <2>1. app \in Apps /\ idx \in 1..Len(Wanted(app))
    BY DEF TypeInv, ProcessType, Control
  <2>2. Wanted(app)[idx] \in [dir : Dirs, opts : SUBSET DirOptions]
    BY <2>1, WantedType, ElementOfSeq
  <2> QED
    BY <2>2
<1>2. pc = "temp" => DirOf[Cur.file] \in Dirs
  BY CurType DEF EntryPhases
<1> QED
  BY <1>1, <1>2

\* A fresh temporary file is one of the current entry's file.
LEMMA FreshType ==
  ASSUME TypeInv, pc \in EntryPhases
  PROVE  FreshTemp(Cur.file) \in Temp /\ FreshTemp(Cur.file).file = Cur.file
<1> DEFINE used == {t.n : t \in {u \in temps : u.file = Cur.file /\ u.ses = ses}}
           U == {u \in temps : u.file = Cur.file /\ u.ses = ses}
<1>1. IsFiniteSet(U)
  BY FS_Subset DEF TypeInv, DiskType
<1>2. IsFiniteSet(used)
  <2> DEFINE m == [t \in U |-> t.n]
  <2>1. m \in Surjection(U, used)
    BY DEF Surjection
  <2> HIDE DEF m, U, used
  <2> QED
    BY <1>1, <2>1, FS_Surjection
<1>3. Cardinality(used) \in Nat
  <2> HIDE DEF used
  <2> QED
    BY <1>2, FS_CardinalityType
<1>4. ses \in 1..MaxSessions /\ Cur.file \in Files
  BY CurType DEF TypeInv, Control, InstallPhases
<1> QED
  BY <1>3, <1>4 DEF FreshTemp, Temp

\* What one pending operation does to a machine is a machine again.
LEMMA PendingMachine ==
  ASSUME NEW w \in Machine, NEW op \in PendingOp
  PROVE  Pending(w, op) \in Machine /\ Pending(w, op).temps \subseteq w.temps
<1>1. CASE op.op = "replace" /\ op.tmp \in w.temps
  <2>1. op.tmp \in Temp /\ op.tmp.ses \in Content /\ op.file \in Files
    BY <1>1 DEF PendingOp, Temp, Content, Machine
  <2>2. Pending(w, op) = [w EXCEPT !.fs[op.file] = op.tmp.ses, !.temps = @ \ {op.tmp}]
    BY <1>1 DEF Pending
  <2> QED
    BY <2>1, <2>2 DEF Machine
<1>2. CASE op.op = "delete"
  <2>1. op.file \in Files /\ Absent \in Content
    BY <1>2 DEF PendingOp, Content
  <2>2. Pending(w, op) = [w EXCEPT !.fs[op.file] = Absent]
    BY <1>2 DEF Pending
  <2> QED
    BY <2>1, <2>2 DEF Machine
<1>3. CASE op.op = "rmdir" /\ EmptyIn(op.dir, w.fs, w.temps, w.dirs)
  <2>1. Pending(w, op) = [w EXCEPT !.dirs = @ \ {op.dir}]
    BY <1>3 DEF Pending
  <2> QED
    BY <2>1 DEF Machine
<1>4. CASE /\ ~(op.op = "replace" /\ op.tmp \in w.temps) /\ op.op # "delete"
           /\ ~(op.op = "rmdir" /\ EmptyIn(op.dir, w.fs, w.temps, w.dirs))
  <2>1. Pending(w, op) = w
    BY <1>4 DEF Pending
  <2> QED
    BY <2>1
<1> QED
  BY <1>1, <1>2, <1>3, <1>4

\* A restart leaves a machine of the right type.
LEMMA RestartType ==
  ASSUME TypeInv, Restart
  PROVE  /\ fs' \in [Files -> Content] /\ dirs' \in SUBSET Dirs
         /\ temps' \in SUBSET temps
<1> DEFINE w0 == [fs |-> fs, temps |-> temps, dirs |-> dirs]
           W == {w \in Machine : w.temps \subseteq temps}
<1>1. w0 \in W
  BY DEF TypeInv, DiskType, Machine
<1>2. pend \in Seq(PendingOp) /\ \A i \in DOMAIN pend : pend[i] \in PendingOp
  BY DEF TypeInv, LogType
<1>3. \A w \in W, i \in DOMAIN pend : Pending(w, pend[i]) \in W
  BY <1>2, PendingMachine
<1>4. FoldLeft(Pending, w0, pend) \in W
  <2> HIDE DEF w0, W
  <2> QED
    BY <1>1, <1>2, <1>3, PendingKeeps
<1> DEFINE w == FoldLeft(Pending, w0, pend)
<1>5. fs' = w.fs /\ temps' = w.temps /\ dirs' = w.dirs
  BY DEF Restart
<1> HIDE DEF w
<1> QED
  BY <1>4, <1>5 DEF Machine, w

\* Types of the disk.
LEMMA DiskStep ==
  ASSUME TypeInv, [Next]_vars
  PROVE  DiskType'
<1> USE DEF TypeInv, DiskType
<1>1. CASE UNCHANGED <<disk, litter>>
  BY <1>1 DEF disk
<1>2. CASE CreateDirs
  <2>1. dirs' \in SUBSET Dirs
    <3>1. Wanted(app)[idx].dir \in Dirs
      BY <1>2, AskedDir DEF CreateDirs
    <3> QED
      BY <1>2, <3>1, MadeDir DEF CreateDirs
  <2> QED
    BY <1>2, <2>1 DEF CreateDirs
<1>3. CASE ExtractToTemp
  <2>1. DirOf[Cur.file] \in Dirs
    BY <1>3, AskedDir DEF ExtractToTemp
  <2>2. dirs' \in SUBSET Dirs
    BY <1>3, <2>1, MadeDir DEF ExtractToTemp
  <2>3. FreshTemp(Cur.file) \in Temp
    BY <1>3, FreshType DEF ExtractToTemp, EntryPhases
  <2>4. temps' = temps \/ temps' = temps \cup {FreshTemp(Cur.file)}
    BY <1>3 DEF ExtractToTemp
  <2>5. temps' \in SUBSET Temp /\ IsFiniteSet(temps')
    BY <2>3, <2>4, FS_AddElement
  <2> QED
    BY <1>3, <2>2, <2>5 DEF ExtractToTemp
<1>4. CASE DeleteExisting
  <2>1. Cur.file \in Files /\ Absent \in Content
    BY <1>4, CurType DEF DeleteExisting, EntryPhases, Content
  <2> QED
    BY <1>4, <2>1 DEF DeleteExisting
<1>5. CASE MoveIntoPlace
  <2>1. Cur.file \in Files /\ ses \in Content
    BY <1>5, CurType DEF MoveIntoPlace, EntryPhases, Content, Control, InstallPhases
  <2>2. IsFiniteSet(temps \ {tmp})
    BY FS_RemoveElement
  <2> QED
    BY <1>5, <2>1, <2>2 DEF MoveIntoPlace
<1>6. CASE EntryRaises \/ Cancel
  <2>1. IsFiniteSet(temps \ {tmp})
    BY FS_RemoveElement
  <2> QED
    BY <1>6, <2>1 DEF EntryRaises, Cancel, DropLeftOver
<1>7. CASE UndoDir
  BY <1>7 DEF UndoDir, TakeNewest
<1>8. CASE UndoFile
  <2>1. IsFiniteSet(temps \ {Newest.tmp}) /\ Absent \in Content
    BY FS_RemoveElement DEF Content
  <2>2. fs' \in [Files -> Content]
    BY <1>8, <2>1 DEF UndoFile
  <2>3. temps' \in SUBSET Temp /\ IsFiniteSet(temps')
    BY <1>8, <2>1 DEF UndoFile
  <2> QED
    BY <1>8, <2>2, <2>3 DEF UndoFile, TakeNewest
<1>9. CASE ProcessDirsNotRemoved
  BY <1>9 DEF ProcessDirsNotRemoved
<1>10. CASE Restart
  <2>1. IsFiniteSet(temps')
    BY <1>10, RestartType, FS_Subset
  <2> QED
    BY <1>10, <2>1, RestartType DEF Restart
<1>11. CASE Crash
  <2>1. {AppDir[a] : a \in {b \in Apps : dat[b] = Reserved}} \in SUBSET Dirs
    BY TransactionAssumption
  <2> QED
    BY <1>11, <2>1 DEF Crash, disk
<1> QED
  BY <1>1, <1>2, <1>3, <1>4, <1>5, <1>6, <1>7, <1>8, <1>9, <1>10, <1>11, DiskFrame

\* The actions that touch the counts.
LEMMA CountFrame ==
  ASSUME [Next]_vars
  PROVE  \/ UNCHANGED <<count, slack>>
         \/ ShareEntry \/ Step2 \/ UndoCount \/ UndoFile \/ UndoFileRaises
         \/ UndoFileInUse \/ Crash
<1> USE DEF history
<1>1. CASE UNCHANGED vars
  BY <1>1 DEF vars
<1>2. CASE \E a \in Apps : StartInstall(a) \/ StartUninstall(a)
  BY <1>2 DEF StartInstall, StartUninstall
<1>3. CASE CreateDirs \/ GenerateUninstallInfoFilename \/ BeginEntry \/ ExtractToTemp
           \/ DeleteExisting \/ MoveIntoPlace \/ ReplaceOnRestart \/ FinishEntry
           \/ EntryRaises \/ AskRetry \/ AskIgnore \/ Cancel
  BY <1>3 DEF CreateDirs, GenerateUninstallInfoFilename, BeginEntry, ExtractToTemp,
              DeleteExisting, MoveIntoPlace, ReplaceOnRestart, FinishEntry, EntryRaises,
              AskRetry, AskIgnore, Cancel
<1>4. CASE SaveLog \/ Rollback \/ EndStep2 \/ UndoDir \/ EndRollback
           \/ DeleteUninstallDataFiles \/ ProcessDirsNotRemoved \/ EndUninstall \/ Restart
  BY <1>4 DEF SaveLog, Rollback, EndStep2, UndoDir, EndRollback, TakeNewest,
              DeleteUninstallDataFiles, ProcessDirsNotRemoved, EndUninstall, Restart
<1> QED
  BY <1>1, <1>2, <1>3, <1>4 DEF Next

\* Decremented and Incremented counts are counts.
LEMMA CountsType ==
  ASSUME count \in [Files -> Nat], NEW f \in Files
  PROVE  /\ Decremented(f) \in [Files -> Nat]
         /\ \A x \in BOOLEAN : Incremented(f, x) \in [Files -> Nat]
BY DEF Decremented, Incremented

\* The record in hand when the list is undone.
LEMMA NewestType ==
  ASSUME TypeInv
  PROVE  /\ list # <<>> => Newest \in UndoRec /\ Newest = list[Len(list)]
                           /\ Len(list) \in DOMAIN list
         /\ pc = "step2" /\ idx > 0 => list[idx] \in UndoRec /\ idx \in DOMAIN list
<1>1. list \in Seq(UndoRec) /\ idx \in Nat /\ (pc = "step2" => idx <= Len(list))
  BY DEF TypeInv, LogType, ProcessType, Control
<1>2. list # <<>> => Len(list) \in 1..Len(list) /\ list[Len(list)] \in UndoRec
  BY <1>1
<1>3. pc = "step2" /\ idx > 0 => idx \in 1..Len(list) /\ list[idx] \in UndoRec
  BY <1>1
<1> QED
  BY <1>1, <1>2, <1>3 DEF Newest

\* Types of the counts.
LEMMA CountStep ==
  ASSUME TypeInv, [Next]_vars
  PROVE  CountType'
<1> USE DEF TypeInv, CountType
<1>1. CASE UNCHANGED <<count, slack>>
  BY <1>1
<1>2. CASE ShareEntry
  <2>1. Cur.file \in Files /\ existed \in BOOLEAN
    BY <1>2, CurType DEF ShareEntry, EntryPhases, EntryType
  <2>2. Incremented(Cur.file, existed) \in [Files -> Nat]
    BY <2>1, CountsType
  <2> QED
    BY <1>2, <2>1, <2>2 DEF ShareEntry
<1>3. CASE Step2
  <2>1. ASSUME CountedInStep2(list[idx]) PROVE list[idx].file \in Files
    BY <1>3, <2>1, NewestType, RecordKinds DEF Step2, CountedInStep2
  <2>2. CountedInStep2(list[idx]) => Decremented(list[idx].file) \in [Files -> Nat]
    BY <2>1, CountsType
  <2> QED
    BY <1>3, <2>1, <2>2 DEF Step2
<1>4. CASE UndoCount
  <2>1. Newest.file \in Files
    BY <1>4, NewestType, RecordKinds DEF UndoCount, TakeNewest
  <2>2. Decremented(Newest.file) \in [Files -> Nat]
    BY <2>1, CountsType
  <2> QED
    BY <1>4, <2>1, <2>2 DEF UndoCount
<1>5. CASE UndoFile \/ UndoFileRaises \/ UndoFileInUse
  <2>1. Newest.file \in Files
    BY <1>5, NewestType, RecordKinds DEF UndoFile, UndoFileRaises, UndoFileInUse, TakeNewest
  <2>2. Decremented(Newest.file) \in [Files -> Nat]
    BY <2>1, CountsType
  <2> QED
    BY <1>5, <2>1, <2>2 DEF UndoFile, UndoFileRaises, UndoFileInUse
<1>6. CASE Crash
  <2>1. \A f \in Files : Refs(f) \in Nat
    BY RefsAre, RefsAtLeast DEF LogType, Logs
  <2> QED
    BY <1>6, <2>1 DEF Crash
<1> QED
  BY <1>1, <1>2, <1>3, <1>4, <1>5, <1>6, CountFrame

\* The actions that touch the logs, the list and the pending operations.
LEMMA LogFrame ==
  ASSUME [Next]_vars
  PROVE  \/ UNCHANGED <<dat, list, pend>>
         \/ \E a \in Apps : StartInstall(a) \/ StartUninstall(a)
         \/ CreateDirs \/ GenerateUninstallInfoFilename \/ ExtractToTemp \/ MoveIntoPlace
         \/ ReplaceOnRestart \/ ShareEntry \/ SaveLog \/ Rollback \/ Step2
         \/ UndoDir \/ UndoCount \/ UndoFile \/ UndoFileRaises \/ UndoFileInUse
         \/ DeleteUninstallDataFiles \/ ProcessDirsNotRemoved \/ Restart \/ Crash
<1>1. CASE UNCHANGED vars
  BY <1>1 DEF vars
<1>2. CASE BeginEntry \/ DeleteExisting \/ FinishEntry \/ EntryRaises \/ AskRetry
           \/ AskIgnore \/ Cancel \/ EndStep2 \/ EndRollback \/ EndUninstall
  BY <1>2 DEF BeginEntry, DeleteExisting, FinishEntry, EntryRaises, AskRetry, AskIgnore,
              Cancel, EndStep2, EndRollback, EndUninstall
<1> QED
  BY <1>1, <1>2 DEF Next

\* The records that an entry makes.
LEMMA EntryRecords ==
  ASSUME TypeInv, pc \in EntryPhases
  PROVE  /\ \A t \in Temp \cup {NoTmp} :
              /\ RecordInstalled(t) \in Seq(UndoRec)
              /\ FileRec(Cur.file, t, existed, Cur.opts) \in UndoRec
         /\ CountRec(Cur.file) \in UndoRec
<1>1. existed \in BOOLEAN /\ list \in Seq(UndoRec)
  BY DEF TypeInv, EntryType, LogType
<1>2. /\ \A t \in Temp \cup {NoTmp} : FileRec(Cur.file, t, existed, Cur.opts) \in UndoRec
      /\ CountRec(Cur.file) \in UndoRec
  BY <1>1, CurType, RecordKinds
<1>3. \A t \in Temp \cup {NoTmp} : RecordInstalled(t) \in Seq(UndoRec)
  BY <1>1, <1>2, AppendFacts DEF RecordInstalled
<1> QED
  BY <1>2, <1>3

\* Types of the logs.
LEMMA LogStep ==
  ASSUME TypeInv, [Next]_vars
  PROVE  LogType'
<1> USE DEF TypeInv, LogType
<1>0. app \in Apps /\ \A a \in Apps : Log(a) \in Seq(UndoRec)
  BY RecordsType DEF Log, ProcessType
<1>1. CASE UNCHANGED <<dat, list, pend>>
  BY <1>1
<1>2. CASE \E a \in Apps : StartInstall(a) \/ StartUninstall(a)
  BY <1>0, <1>2, EmptySeq DEF StartInstall, StartUninstall
<1>3. CASE CreateDirs \/ ExtractToTemp
  <2>1. list' \in Seq(UndoRec)
    <3>1. CASE CreateDirs
      <4>1. Wanted(app)[idx].dir \in Dirs
        BY <3>1, AskedDir DEF CreateDirs
      <4>2. \E e \in Dirs : list' = list \/ list' = Append(list, DirRec(e))
        BY <3>1, <4>1, MadeDir DEF CreateDirs
      <4> QED
        BY <4>2, RecordKinds, AppendFacts
    <3>2. CASE ExtractToTemp
      <4>1. DirOf[Cur.file] \in Dirs
        BY <3>2, AskedDir DEF ExtractToTemp
      <4>2. \E e \in Dirs : list' = list \/ list' = Append(list, DirRec(e))
        BY <3>2, <4>1, MadeDir DEF ExtractToTemp
      <4> QED
        BY <4>2, RecordKinds, AppendFacts
    <3> QED
      BY <1>3, <3>1, <3>2
  <2> QED
    BY <1>3, <2>1 DEF CreateDirs, ExtractToTemp
<1>4. CASE GenerateUninstallInfoFilename
  BY <1>0, <1>4 DEF GenerateUninstallInfoFilename
<1>5. CASE MoveIntoPlace
  BY <1>5, EntryRecords DEF MoveIntoPlace, EntryPhases
<1>6. CASE ReplaceOnRestart
  <2>1. pc \in EntryPhases /\ tmp \in Temp /\ tmp.file = Cur.file /\ Cur.file \in Files
    BY <1>6, CurType DEF ReplaceOnRestart, EntryPhases, OwnTemps, EntryType
  <2>2. [op |-> "replace", file |-> Cur.file, tmp |-> tmp] \in PendingOp
    BY <2>1 DEF PendingOp
  <2>3. list' \in Seq(UndoRec)
    BY <1>6, <2>1, EntryRecords DEF ReplaceOnRestart
  <2> QED
    BY <1>6, <2>2, <2>3, AppendFacts DEF ReplaceOnRestart
<1>7. CASE ShareEntry
  <2>1. list' = list \/ \E r \in UndoRec : list' = Append(list, r)
    BY <1>7, EntryRecords DEF ShareEntry, EntryPhases, EntryType
  <2>2. list' \in Seq(UndoRec)
    BY <2>1, AppendFacts
  <2> QED
    BY <1>7, <2>2 DEF ShareEntry
<1>8. CASE SaveLog
  <2>1. Log(app) \o list \in Seq(UndoRec) /\ list' \in Seq(UndoRec)
    BY <1>0, <1>8, ConcatFacts, EmptySeq DEF SaveLog
  <2> QED
    BY <1>0, <1>8, <2>1 DEF SaveLog
<1>9. CASE Rollback \/ DeleteUninstallDataFiles
  BY <1>0, <1>9 DEF Rollback, DeleteUninstallDataFiles
<1>10. CASE Step2
  <2>1. list' = list \/ list' = RemoveAt(list, idx)
    BY <1>10 DEF Step2
  <2>2. idx \in 1..Len(list)
    BY <1>10 DEF Step2, ProcessType, Control
  <2>3. list' \in Seq(UndoRec)
    BY <2>1, <2>2, RemoveAtFacts
  <2> QED
    BY <1>10, <2>3 DEF Step2
<1>11. CASE UndoDir \/ UndoCount \/ UndoFile \/ UndoFileRaises \/ UndoFileInUse
  <2>1. list' = Front(list) /\ list # <<>> /\ UNCHANGED dat
    BY <1>11 DEF UndoDir, UndoCount, UndoFile, UndoFileRaises, UndoFileInUse, TakeNewest
  <2>2. list' \in Seq(UndoRec)
    BY <2>1, FrontFacts
  <2>3. pend' \in Seq(PendingOp)
    <3>1. CASE UndoFileInUse
      <4>1. Newest.file \in Files
        BY <3>1, NewestType, RecordKinds DEF UndoFileInUse, TakeNewest
      <4>2. [op |-> "delete", file |-> Newest.file] \in PendingOp
        BY <4>1 DEF PendingOp
      <4> QED
        BY <3>1, <4>2, AppendFacts DEF UndoFileInUse
    <3>2. CASE UndoDir \/ UndoCount \/ UndoFile \/ UndoFileRaises
      BY <3>2 DEF UndoDir, UndoCount, UndoFile, UndoFileRaises
    <3> QED
      BY <1>11, <3>1, <3>2
  <2> QED
    BY <2>1, <2>2, <2>3
<1>12. CASE ProcessDirsNotRemoved
  <2>1. Head(notRemoved) \in Dirs
    BY <1>12, TailFacts DEF ProcessDirsNotRemoved, UndoType
  <2>2. [op |-> "rmdir", dir |-> Head(notRemoved)] \in PendingOp
    BY <2>1 DEF PendingOp
  <2>3. pend' = pend \/ pend' = Append(pend, [op |-> "rmdir", dir |-> Head(notRemoved)])
    BY <1>12 DEF ProcessDirsNotRemoved
  <2>4. pend' \in Seq(PendingOp)
    BY <2>2, <2>3, AppendFacts
  <2> QED
    BY <1>12, <2>4 DEF ProcessDirsNotRemoved
<1>13. CASE Restart
  BY <1>13, EmptySeq DEF Restart
<1>14. CASE Crash
  BY <1>14, EmptySeq DEF Crash
<1> QED
  BY <1>1, <1>2, <1>3, <1>4, <1>5, <1>6, <1>7, <1>8, <1>9, <1>10, <1>11, <1>12, <1>13,
     <1>14, LogFrame

\* Types of the process, the entry, the undo state and the history.
LEMMA ProcessStep ==
  ASSUME TypeInv, [Next]_vars
  PROVE  ProcessType'
<1>0. MaxSessions \in Nat /\ MaxFaults \in Nat
  BY TransactionAssumption
<1>a. /\ pc \in Phases /\ app \in Apps /\ ses \in 0..MaxSessions /\ idx \in Nat
      /\ created \in BOOLEAN /\ faults \in 0..MaxFaults
  BY DEF TypeInv, ProcessType
<1> USE <1>0, <1>a
    DEF ProcessType, Phases, InstallPhases, UndoPhases, EntryPhases, process, Fault
<1>1. CASE UNCHANGED vars
  BY <1>1 DEF vars
<1>2. CASE \E a \in Apps : StartInstall(a)
  <2>1. ses + 1 \in 0..MaxSessions
    BY <1>2 DEF StartInstall
  <2>2. /\ pc' = "dirs" /\ app' \in Apps /\ ses' = ses + 1 /\ idx' = 1 /\ created' = FALSE
        /\ faults' = faults
    BY <1>2 DEF StartInstall
  <2> QED
    BY <2>1, <2>2
<1>11. CASE \E a \in Apps : StartUninstall(a)
  <2>1. \A a \in Apps : Log(a) \in Seq(UndoRec)
    BY RecordsType DEF Log, LogType, TypeInv
  <2>2. \A a \in Apps : Len(Log(a)) \in Nat
    BY <2>1
  <2> QED
    BY <1>11, <2>2 DEF StartUninstall
<1>3. CASE CreateDirs
  <2>1. pc' \in {pc, "reserve"} /\ idx' \in {idx, idx + 1, 1}
    BY <1>3 DEF CreateDirs
  <2> QED
    BY <1>3, <2>1 DEF CreateDirs
<1>12. CASE GenerateUninstallInfoFilename
  <2>1. created' \in BOOLEAN
    BY <1>12 DEF GenerateUninstallInfoFilename
  <2> QED
    BY <1>12, <2>1 DEF GenerateUninstallInfoFilename
<1>4. CASE BeginEntry \/ ExtractToTemp \/ DeleteExisting \/ MoveIntoPlace \/ ReplaceOnRestart
  BY <1>4 DEF BeginEntry, ExtractToTemp, DeleteExisting, MoveIntoPlace, ReplaceOnRestart
<1>5. CASE ShareEntry \/ FinishEntry \/ EntryRaises \/ AskRetry \/ AskIgnore \/ Cancel
  BY <1>5 DEF ShareEntry, FinishEntry, EntryRaises, AskRetry, AskIgnore, Cancel, NextEntry
<1>6. CASE SaveLog \/ EndRollback \/ EndUninstall \/ Crash
  <2>1. pc' = "idle" /\ idx' = 1 /\ created' = FALSE /\ UNCHANGED <<app, ses>>
    BY <1>6 DEF SaveLog, EndRollback, EndUninstall, Crash, EndProcess
  <2>2. faults' \in {faults, faults + 1} /\ (faults' = faults + 1 => faults < MaxFaults)
    BY <1>6 DEF SaveLog, EndRollback, EndUninstall, Crash
  <2>3. faults' \in 0..MaxFaults
    BY <2>2
  <2> QED
    BY <2>1, <2>3
<1>7. CASE Rollback
  <2>1. Len(list) \in Nat
    BY DEF LogType, TypeInv
  <2> QED
    BY <1>7, <2>1 DEF Rollback
<1>8. CASE Step2 \/ EndStep2
  BY <1>8 DEF Step2, EndStep2
<1>9. CASE UndoDir \/ UndoCount \/ UndoFile \/ UndoFileRaises \/ UndoFileInUse
  BY <1>9 DEF UndoDir, UndoCount, UndoFile, UndoFileRaises, UndoFileInUse, TakeNewest
<1>10. CASE DeleteUninstallDataFiles \/ ProcessDirsNotRemoved \/ Restart
  BY <1>10 DEF DeleteUninstallDataFiles, ProcessDirsNotRemoved, Restart
<1> QED
  BY <1>1, <1>2, <1>3, <1>4, <1>5, <1>6, <1>7, <1>8, <1>9, <1>10, <1>11,
     <1>12 DEF Next

\* Every step keeps the types of what an entry has in hand.
LEMMA EntryStep ==
  ASSUME TypeInv, [Next]_vars
  PROVE  EntryType'
<1> USE DEF TypeInv, EntryType, entry, ClearEntry
<1>1. CASE UNCHANGED vars
  BY <1>1 DEF vars
<1>2. CASE \E a \in Apps : StartInstall(a) \/ StartUninstall(a)
  BY <1>2 DEF StartInstall, StartUninstall
<1>3. CASE CreateDirs \/ GenerateUninstallInfoFilename \/ BeginEntry
  BY <1>3 DEF CreateDirs, GenerateUninstallInfoFilename, BeginEntry, CheckDestFile
<1>4. CASE ExtractToTemp
  <2>1. FreshTemp(Cur.file) \in Temp
    BY <1>4, FreshType DEF ExtractToTemp, EntryPhases
  <2> QED
    BY <1>4, <2>1 DEF ExtractToTemp
<1>5. CASE DeleteExisting \/ MoveIntoPlace \/ ReplaceOnRestart \/ ShareEntry
  BY <1>5 DEF DeleteExisting, MoveIntoPlace, ReplaceOnRestart, ShareEntry
<1>6. CASE FinishEntry \/ EntryRaises \/ AskRetry \/ AskIgnore \/ Cancel
  BY <1>6 DEF FinishEntry, EntryRaises, AskRetry, AskIgnore, Cancel, NextEntry, DropLeftOver
<1>7. CASE SaveLog \/ EndRollback \/ EndUninstall \/ Crash \/ Rollback
  BY <1>7 DEF SaveLog, EndRollback, EndUninstall, Crash, EndProcess, Rollback
<1>8. CASE Step2 \/ EndStep2 \/ DeleteUninstallDataFiles \/ ProcessDirsNotRemoved \/ Restart
  BY <1>8 DEF Step2, EndStep2, DeleteUninstallDataFiles, ProcessDirsNotRemoved, Restart
<1>9. CASE UndoDir \/ UndoCount \/ UndoFile \/ UndoFileRaises \/ UndoFileInUse
  BY <1>9 DEF UndoDir, UndoCount, UndoFile, UndoFileRaises, UndoFileInUse, TakeNewest
<1> QED
  BY <1>1, <1>2, <1>3, <1>4, <1>5, <1>6, <1>7, <1>8, <1>9 DEF Next

\* The actions that touch the state of an undo.
LEMMA UndoFrame ==
  ASSUME [Next]_vars
  PROVE  \/ UNCHANGED undo
         \/ \E a \in Apps : StartUninstall(a)
         \/ SaveLog \/ EndRollback \/ EndUninstall \/ Crash
         \/ UndoDir \/ UndoFileInUse \/ ProcessDirsNotRemoved
<1> USE DEF undo
<1>1. CASE UNCHANGED vars
  BY <1>1 DEF vars
<1>2. CASE \E a \in Apps : StartInstall(a)
  BY <1>2 DEF StartInstall
<1>3. CASE CreateDirs \/ GenerateUninstallInfoFilename \/ BeginEntry \/ ExtractToTemp
           \/ DeleteExisting \/ MoveIntoPlace \/ ReplaceOnRestart \/ ShareEntry
           \/ FinishEntry \/ EntryRaises \/ AskRetry \/ AskIgnore \/ Cancel
  BY <1>3 DEF CreateDirs, GenerateUninstallInfoFilename, BeginEntry, ExtractToTemp,
              DeleteExisting, MoveIntoPlace, ReplaceOnRestart, ShareEntry, FinishEntry,
              EntryRaises, AskRetry, AskIgnore, Cancel
<1>4. CASE Rollback \/ Step2 \/ EndStep2 \/ UndoCount \/ UndoFile \/ UndoFileRaises
           \/ DeleteUninstallDataFiles \/ Restart
  BY <1>4 DEF Rollback, Step2, EndStep2, UndoCount, UndoFile, UndoFileRaises,
              DeleteUninstallDataFiles, Restart, TakeNewest
<1> QED
  BY <1>1, <1>2, <1>3, <1>4 DEF Next

\* Every step keeps the types of what an undo has in hand.
LEMMA UndoStep ==
  ASSUME TypeInv, [Next]_vars
  PROVE  UndoType'
<1> USE DEF TypeInv, UndoType, undo
<1>1. CASE UNCHANGED undo
  BY <1>1
<1>2. CASE \E a \in Apps : StartUninstall(a)
  BY <1>2 DEF StartUninstall
<1>3. CASE SaveLog \/ EndRollback \/ EndUninstall \/ Crash
  BY <1>3, EmptySeq DEF SaveLog, EndRollback, EndUninstall, Crash, EndProcess
<1>4. CASE UndoDir
  <2>1. Newest.dir \in Dirs
    BY <1>4, NewestType, RecordKinds DEF UndoDir, TakeNewest
  <2>2. notRemoved' = notRemoved \/ notRemoved' = Append(notRemoved, Newest.dir)
    BY <1>4 DEF UndoDir, RetryLater
  <2>3. notRemoved' \in Seq(Dirs)
    BY <2>1, <2>2, AppendFacts
  <2> QED
    BY <1>4, <2>3 DEF UndoDir, TakeNewest
<1>5. CASE UndoFileInUse
  <2>1. Newest.file \in Files
    BY <1>5, NewestType, RecordKinds DEF UndoFileInUse, TakeNewest
  <2>2. DirOf[Newest.file] \in Dirs
    BY <2>1, TransactionAssumption
  <2> QED
    BY <1>5, <2>2 DEF UndoFileInUse, TakeNewest
<1>6. CASE ProcessDirsNotRemoved
  BY <1>6, TailFacts DEF ProcessDirsNotRemoved
<1> QED
  BY <1>1, <1>2, <1>3, <1>4, <1>5, <1>6, UndoFrame

\* The actions that start a process take the picture of the machine.
LEMMA StartFrame ==
  ASSUME [Next]_vars
  PROVE  \/ UNCHANGED start
         \/ \E a \in Apps : StartInstall(a) \/ StartUninstall(a)
<1> USE DEF history
<1>1. CASE UNCHANGED vars
  BY <1>1 DEF vars
<1>3. CASE CreateDirs \/ GenerateUninstallInfoFilename \/ BeginEntry \/ ExtractToTemp
           \/ DeleteExisting \/ MoveIntoPlace \/ ReplaceOnRestart \/ ShareEntry
           \/ FinishEntry \/ EntryRaises \/ AskRetry \/ AskIgnore \/ Cancel
  BY <1>3 DEF CreateDirs, GenerateUninstallInfoFilename, BeginEntry, ExtractToTemp,
              DeleteExisting, MoveIntoPlace, ReplaceOnRestart, ShareEntry, FinishEntry,
              EntryRaises, AskRetry, AskIgnore, Cancel
<1>4. CASE SaveLog \/ Rollback \/ Step2 \/ EndStep2 \/ EndRollback
           \/ DeleteUninstallDataFiles \/ ProcessDirsNotRemoved \/ EndUninstall
           \/ Restart \/ Crash
  BY <1>4 DEF SaveLog, Rollback, Step2, EndStep2, EndRollback, DeleteUninstallDataFiles,
              ProcessDirsNotRemoved, EndUninstall, Restart, Crash
<1>5. CASE UndoDir \/ UndoCount \/ UndoFile \/ UndoFileRaises \/ UndoFileInUse
  BY <1>5 DEF UndoDir, UndoCount, UndoFile, UndoFileRaises, UndoFileInUse, TakeNewest
<1> QED
  BY <1>1, <1>3, <1>4, <1>5 DEF Next

\* Every step keeps the types of what the session found.
LEMMA StartStep ==
  ASSUME TypeInv, [Next]_vars
  PROVE  StartType'
<1> USE DEF TypeInv, StartType
<1>1. CASE UNCHANGED start
  BY <1>1
<1>2. CASE \E a \in Apps : StartInstall(a) \/ StartUninstall(a)
  <2>1. start' = [fs |-> fs, temps |-> temps, dirs |-> dirs, dat |-> dat, count |-> count]
    BY <1>2 DEF StartInstall, StartUninstall, Snapshot
  <2> QED
    BY <2>1 DEF DiskType, CountType, LogType
<1> QED
  BY <1>1, <1>2, StartFrame

\* Where the process is, and what it has in hand there.
LEMMA ControlStep ==
  ASSUME TypeInv, [Next]_vars
  PROVE  Control'
<1>0. /\ Control /\ OwnTemps /\ idx \in Nat /\ ses \in 0..MaxSessions /\ app \in Apps
      /\ pc \in Phases /\ list \in Seq(UndoRec) /\ MaxSessions \in Nat
      /\ left \in BOOLEAN /\ uninstaller \in BOOLEAN
  BY TransactionAssumption DEF TypeInv, ProcessType, LogType, EntryType, UndoType
<1> USE <1>0 DEF Control, InstallPhases, EntryPhases, UndoPhases, process, entry, undo
<1>1. CASE UNCHANGED vars
  BY <1>1 DEF vars, Wanted
<1>2. CASE \E a \in Apps : StartInstall(a)
  <2>1. PICK a \in Apps : StartInstall(a)
    BY <1>2
  <2>2. 1 \in 1..Len(Wanted(a))
    <3>1. ExtraDirs[a] \in Seq([dir : Dirs, opts : SUBSET DirOptions])
      BY TransactionAssumption
    <3>2. Len(Wanted(a)) = Len(ExtraDirs[a]) + 1 /\ Len(ExtraDirs[a]) \in Nat
      <4>1. Len(Wanted(a)) = Len(ExtraDirs[a]) + 1
        BY WantedType
      <4> QED
        BY <3>1, <4>1, EmptySeq, LenProperties
    <3> QED
      BY <3>2
  <2>3. /\ pc = "idle" /\ pc' = "dirs" /\ ses' \in 1..MaxSessions /\ idx' = 1 /\ created' = FALSE
        /\ UNCHANGED <<entry, undo>>
    BY <2>1 DEF StartInstall
  <2>4. Wanted(app)' = Wanted(a)
    BY <2>1 DEF StartInstall, Wanted
  <2> QED
    BY <2>2, <2>3, <2>4 DEF OwnTemps
<1>3. CASE \E a \in Apps : StartUninstall(a)
  <2>1. PICK a \in Apps : StartUninstall(a)
    BY <1>3
  <2>2. Log(a) \in Seq(UndoRec) /\ Len(Log(a)) \in Nat
    BY RecordsType DEF Log, LogType, TypeInv
  <2>3. tmp' = NoTmp /\ ~left'
    BY <2>1 DEF StartUninstall, OwnTemps, Control
  <2> QED
    BY <2>1, <2>2, <2>3 DEF StartUninstall
<1>4. CASE CreateDirs
  BY <1>4 DEF CreateDirs, Wanted
<1>5. CASE GenerateUninstallInfoFilename
  <2>1. dat \in [Apps -> {NoLog, Reserved} \cup Seq(UndoRec)]
    BY DEF TypeInv, LogType
  <2>2. created' => dat'[app] = Reserved
    BY <1>5, <2>1 DEF GenerateUninstallInfoFilename
  <2>3. Entries[app] # <<>> => 1 \in 1..Len(Entries[app])
    <3>1. Entries[app] \in Seq([file : Files, opts : SUBSET FileOptions])
      BY TransactionAssumption
    <3> QED
      BY <3>1
  <2> QED
    BY <1>5, <2>2, <2>3 DEF GenerateUninstallInfoFilename
<1>6. CASE BeginEntry
  BY <1>6 DEF BeginEntry
<1>7. CASE ExtractToTemp
  BY <1>7 DEF ExtractToTemp
<1>8. CASE DeleteExisting
  BY <1>8 DEF DeleteExisting
<1>9. CASE MoveIntoPlace
  BY <1>9 DEF MoveIntoPlace
<1>10. CASE ReplaceOnRestart
  BY <1>10 DEF ReplaceOnRestart
<1>11. CASE ShareEntry
  BY <1>11 DEF ShareEntry
<1>12. CASE FinishEntry
  BY <1>12 DEF FinishEntry, NextEntry, ClearEntry
<1>13. CASE EntryRaises
  BY <1>13 DEF EntryRaises
<1>14. CASE AskRetry
  BY <1>14 DEF AskRetry
<1>15. CASE AskIgnore
  BY <1>15 DEF AskIgnore, NextEntry, ClearEntry
<1>16. CASE Cancel
  BY <1>16 DEF Cancel, ClearEntry
<1>17. CASE SaveLog \/ EndRollback \/ EndUninstall \/ Crash
  BY <1>17 DEF SaveLog, EndRollback, EndUninstall, Crash, EndProcess, ClearEntry
<1>18. CASE Rollback
  BY <1>18 DEF Rollback
<1>19. CASE Step2
  BY <1>19, RemoveAtFacts DEF Step2
<1>20. CASE EndStep2
  BY <1>20 DEF EndStep2
<1>21. CASE UndoDir \/ UndoCount \/ UndoFile \/ UndoFileRaises \/ UndoFileInUse
  BY <1>21 DEF UndoDir, UndoCount, UndoFile, UndoFileRaises, UndoFileInUse, TakeNewest
<1>22. CASE DeleteUninstallDataFiles
  BY <1>22 DEF DeleteUninstallDataFiles, TypeInv, LogType
<1>23. CASE ProcessDirsNotRemoved
  BY <1>23 DEF ProcessDirsNotRemoved
<1>24. CASE Restart
  BY <1>24 DEF Restart
<1> QED
  BY <1>1, <1>2, <1>3, <1>4, <1>5, <1>6, <1>7, <1>8, <1>9, <1>10, <1>11, <1>12, <1>13,
     <1>14, <1>15, <1>16, <1>17, <1>18, <1>19, <1>20, <1>21, <1>22, <1>23, <1>24 DEF Next

\* The actions that touch the logs.
LEMMA DatFrame ==
  ASSUME [Next]_vars
  PROVE  \/ UNCHANGED dat
         \/ GenerateUninstallInfoFilename \/ SaveLog \/ Rollback
         \/ DeleteUninstallDataFiles \/ Crash
<1>1. CASE \E a \in Apps : StartInstall(a) \/ StartUninstall(a)
  BY <1>1 DEF StartInstall, StartUninstall
<1>2. CASE CreateDirs \/ ExtractToTemp \/ MoveIntoPlace \/ ReplaceOnRestart \/ ShareEntry
           \/ Step2 \/ ProcessDirsNotRemoved \/ Restart
  BY <1>2 DEF CreateDirs, ExtractToTemp, MoveIntoPlace, ReplaceOnRestart, ShareEntry, Step2,
              ProcessDirsNotRemoved, Restart
<1>3. CASE UndoDir \/ UndoCount \/ UndoFile \/ UndoFileRaises \/ UndoFileInUse
  BY <1>3 DEF UndoDir, UndoCount, UndoFile, UndoFileRaises, UndoFileInUse, TakeNewest
<1> QED
  BY <1>1, <1>2, <1>3, LogFrame

\* How the list of records changes.
LEMMA ListSteps ==
  ASSUME TypeInv, [Next]_vars
  PROVE  \/ UNCHANGED list \/ list' = <<>>
         \/ \E a \in Apps : StartUninstall(a)
         \/ \E r \in UndoRec : OwnTemp(r) /\ list' = Append(list, r)
         \/ list # <<>> /\ list' = Front(list)
         \/ \E k \in 1..Len(list) : list' = RemoveAt(list, k)
<1>1. CASE \E a \in Apps : StartInstall(a)
  BY <1>1 DEF StartInstall
<1>2. CASE GenerateUninstallInfoFilename \/ Rollback \/ DeleteUninstallDataFiles
           \/ ProcessDirsNotRemoved \/ Restart
  BY <1>2 DEF GenerateUninstallInfoFilename, Rollback, DeleteUninstallDataFiles,
              ProcessDirsNotRemoved, Restart
<1>3. CASE SaveLog \/ Crash
  BY <1>3 DEF SaveLog, Crash
<1>4. CASE CreateDirs
  <2>1. Wanted(app)[idx].dir \in Dirs
    BY <1>4, AskedDir DEF CreateDirs
  <2>2. \E e \in Dirs : list' = list \/ list' = Append(list, DirRec(e))
    BY <1>4, <2>1, MadeDir DEF CreateDirs
  <2> QED
    BY <2>2, RecordKinds DEF OwnTemp
<1>5. CASE ExtractToTemp
  <2>1. DirOf[Cur.file] \in Dirs
    BY <1>5, AskedDir DEF ExtractToTemp
  <2>2. \E e \in Dirs : list' = list \/ list' = Append(list, DirRec(e))
    BY <1>5, <2>1, MadeDir DEF ExtractToTemp
  <2> QED
    BY <2>2, RecordKinds DEF OwnTemp
<1>6. CASE MoveIntoPlace \/ ReplaceOnRestart \/ ShareEntry
  <2>1. /\ pc \in EntryPhases /\ Cur.file \in Files /\ Cur.opts \in SUBSET FileOptions
        /\ existed \in BOOLEAN /\ tmp \in Temp \cup {NoTmp}
        /\ tmp # NoTmp => tmp.file = Cur.file
    BY <1>6, CurType DEF MoveIntoPlace, ReplaceOnRestart, ShareEntry, EntryPhases, TypeInv,
       EntryType, OwnTemps
  <2>2. \A t \in {NoTmp, tmp} : /\ FileRec(Cur.file, t, existed, Cur.opts) \in UndoRec
                               /\ OwnTemp(FileRec(Cur.file, t, existed, Cur.opts))
    BY <2>1, RecordKinds DEF OwnTemp
  <2>3. CountRec(Cur.file) \in UndoRec /\ OwnTemp(CountRec(Cur.file))
    BY <2>1, RecordKinds DEF OwnTemp
  <2> QED
    BY <1>6, <2>2, <2>3 DEF MoveIntoPlace, ReplaceOnRestart, ShareEntry, RecordInstalled
<1>7. CASE Step2
  <2>1. idx \in 1..Len(list)
    BY <1>7 DEF Step2, TypeInv, ProcessType, Control
  <2> QED
    BY <1>7, <2>1 DEF Step2
<1>8. CASE UndoDir \/ UndoCount \/ UndoFile \/ UndoFileRaises \/ UndoFileInUse
  BY <1>8 DEF UndoDir, UndoCount, UndoFile, UndoFileRaises, UndoFileInUse, TakeNewest
<1> QED
  BY <1>1, <1>2, <1>3, <1>4, <1>5, <1>6, <1>7, <1>8, LogFrame

\* A list to which own records are added, or from which records go.
LEMMA OwnAppend ==
  ASSUME NEW s \in Seq(UndoRec), NEW r \in UndoRec, OwnTemp(r),
         \A i \in DOMAIN s : OwnTemp(s[i])
  PROVE  \A i \in DOMAIN Append(s, r) : OwnTemp(Append(s, r)[i])
BY AppendFacts

\* Temporary files are of the file they are for.
LEMMA OwnTempsStep ==
  ASSUME TypeInv, [Next]_vars
  PROVE  OwnTemps'
<1> DEFINE Own(l) == \A i \in DOMAIN l : OwnTemp(l[i])
<1>0. /\ Control /\ pc \in Phases /\ list \in Seq(UndoRec) /\ Own(list)
      /\ tmp \in Temp \cup {NoTmp} /\ app \in Apps /\ left \in BOOLEAN
      /\ \A a \in Apps : Own(Log(a)) /\ Log(a) \in Seq(UndoRec)
      /\ dat \in [Apps -> {NoLog, Reserved} \cup Seq(UndoRec)]
  BY RecordsType DEF TypeInv, ProcessType, LogType, OwnTemps, EntryType, Log
<1>1. \A a \in Apps : Own(Log(a))'
  <2>1. CASE UNCHANGED dat
    BY <1>0, <2>1 DEF Log
  <2>2. CASE SaveLog
    <3>1. Own(Log(app) \o list)
      <4>1. Log(app) \in Seq(UndoRec) /\ Own(Log(app))
        BY <1>0
      <4> HIDE DEF Own
      <4>2. \A i \in DOMAIN (Log(app) \o list) : OwnTemp((Log(app) \o list)[i])
        BY <4>1, <1>0, ConcatFacts DEF Own
      <4> QED
        BY <4>2 DEF Own
    <3>2. Log(app) \o list \in Seq(UndoRec)
      BY <1>0, ConcatFacts
    <3>3. \A a \in Apps : Log(a)' = IF a = app THEN Log(app) \o list ELSE Log(a)
      BY <1>0, <2>2, <3>2, RecordsType DEF SaveLog, Log
    <3> QED
      BY <1>0, <3>1, <3>3
  <2>3. CASE \A a \in Apps : dat'[a] = dat[a] \/ dat'[a] \in {NoLog, Reserved}
    <3>1. \A a \in Apps : Log(a)' = Log(a) \/ Log(a)' = <<>>
      BY <2>3 DEF Log, Records
    <3> QED
      BY <1>0, <3>1, EmptySeq
  <2>4. GenerateUninstallInfoFilename \/ Rollback \/ DeleteUninstallDataFiles \/ Crash
          => \A a \in Apps : dat'[a] = dat[a] \/ dat'[a] \in {NoLog, Reserved}
    BY <1>0 DEF GenerateUninstallInfoFilename, Rollback, DeleteUninstallDataFiles, Crash
  <2> QED
    BY <2>1, <2>2, <2>3, <2>4, DatFrame
<1>2. Own(list)'
  <2> SUFFICES Own(list')
    OBVIOUS
  <2>1. CASE UNCHANGED list
    BY <1>0, <2>1
  <2>2. CASE list' = <<>>
    BY <2>2, EmptySeq
  <2>3. CASE \E a \in Apps : StartUninstall(a)
    BY <1>0, <2>3 DEF StartUninstall
  <2>4. CASE \E r \in UndoRec : OwnTemp(r) /\ list' = Append(list, r)
    BY <1>0, <2>4, OwnAppend
  <2>5. CASE list # <<>> /\ list' = Front(list)
    <3>1. /\ DOMAIN list' = 1..(Len(list) - 1) /\ DOMAIN list = 1..Len(list)
          /\ \A i \in 1..(Len(list) - 1) : list'[i] = list[i]
      BY <1>0, <2>5, FrontFacts
    <3>2. \A i \in 1..(Len(list) - 1) : i \in 1..Len(list)
      BY <1>0
    <3> QED
      BY <1>0, <3>1, <3>2
  <2>6. CASE \E k \in 1..Len(list) : list' = RemoveAt(list, k)
    <3>1. PICK k \in 1..Len(list) : list' = RemoveAt(list, k)
      BY <2>6
    <3>2. /\ DOMAIN list' = 1..(Len(list) - 1) /\ DOMAIN list = 1..Len(list)
          /\ \A i \in 1..(Len(list) - 1) : list'[i] = IF i < k THEN list[i] ELSE list[i + 1]
      BY <1>0, <3>1, RemoveAtFacts
    <3>3. \A i \in 1..(Len(list) - 1) : i + 1 \in 1..Len(list) /\ i \in 1..Len(list)
      BY <1>0
    <3> QED
      BY <1>0, <3>2, <3>3
  <2> HIDE DEF Own
  <2> QED
    BY <2>1, <2>2, <2>3, <2>4, <2>5, <2>6, ListSteps
<1>3. /\ tmp' # NoTmp => pc' \in EntryPhases /\ tmp'.file = Cur.file'
      /\ left' => tmp' # NoTmp
      /\ pc' \in {"delete", "move"} => tmp' # NoTmp
  <2> USE <1>0 DEF EntryPhases
  <2>0. OwnTemps
    BY DEF TypeInv
  <2>1. CASE UNCHANGED <<entry, pc, app, idx>>
    BY <2>1, <2>0 DEF OwnTemps, entry, Cur
  <2>2. CASE \E a \in Apps : StartInstall(a) \/ StartUninstall(a)
    BY <2>2, <2>0 DEF StartInstall, StartUninstall, entry, OwnTemps
  <2>3. CASE CreateDirs \/ GenerateUninstallInfoFilename
    BY <2>3, <2>0 DEF CreateDirs, GenerateUninstallInfoFilename, entry, OwnTemps
  <2>4. CASE BeginEntry
    BY <2>4 DEF BeginEntry
  <2>5. CASE ExtractToTemp
    <3>1. FreshTemp(Cur.file) \in Temp /\ FreshTemp(Cur.file).file = Cur.file
      BY <2>5, FreshType DEF ExtractToTemp
    <3>2. Cur' = Cur /\ NoTmp \notin Temp
      BY <2>5, TransactionAssumption DEF ExtractToTemp, process, Cur
    <3> QED
      BY <2>5, <2>0, <3>1, <3>2 DEF ExtractToTemp, OwnTemps
  <2>6. CASE DeleteExisting
    BY <2>6, <2>0 DEF DeleteExisting, entry, process, OwnTemps, Cur
  <2>7. CASE MoveIntoPlace
    BY <2>7 DEF MoveIntoPlace
  <2>8. CASE ReplaceOnRestart
    BY <2>8, <2>0 DEF ReplaceOnRestart, process, OwnTemps, Cur
  <2>9. CASE ShareEntry
    BY <2>9, <2>0 DEF ShareEntry, entry, process, OwnTemps, Cur
  <2>10. CASE FinishEntry \/ AskIgnore \/ Cancel
    BY <2>10 DEF FinishEntry, AskIgnore, Cancel, NextEntry, ClearEntry
  <2>11. CASE EntryRaises
    BY <2>11 DEF EntryRaises, DropLeftOver
  <2>12. CASE AskRetry
    BY <2>12, <2>0 DEF AskRetry, entry, process, OwnTemps, Cur
  <2>13. CASE SaveLog \/ EndRollback \/ EndUninstall \/ Crash
    BY <2>13 DEF SaveLog, EndRollback, EndUninstall, Crash, EndProcess, ClearEntry
  <2>14. CASE Rollback \/ Step2 \/ EndStep2 \/ DeleteUninstallDataFiles
    BY <2>14, <2>0 DEF Rollback, Step2, EndStep2, DeleteUninstallDataFiles, entry, OwnTemps
  <2>15. CASE UndoDir \/ UndoCount \/ UndoFile \/ UndoFileRaises \/ UndoFileInUse
               \/ ProcessDirsNotRemoved \/ Restart \/ UNCHANGED vars
    BY <2>15, <2>1 DEF UndoDir, UndoCount, UndoFile, UndoFileRaises, UndoFileInUse, TakeNewest,
       ProcessDirsNotRemoved, Restart, process, vars
  <2> QED
    BY <2>2, <2>3, <2>4, <2>5, <2>6, <2>7, <2>8, <2>9, <2>10, <2>11, <2>12, <2>13, <2>14,
       <2>15 DEF Next
<1> QED
  BY <1>1, <1>2, <1>3 DEF OwnTemps

\* All types together.
LEMMA TypeStep ==
  ASSUME TypeInv, [Next]_vars
  PROVE  TypeInv'
BY DiskStep, CountStep, LogStep, ProcessStep, EntryStep, UndoStep, StartStep, ControlStep,
   OwnTempsStep DEF TypeInv

\* The types hold initially.
LEMMA TypeInit ==
  ASSUME Init
  PROVE  TypeInv
<1> USE TransactionAssumption DEF Init
<1>1. DiskType
  BY FS_EmptySet DEF DiskType, Content
<1>2. CountType
  BY DEF CountType
<1>3. LogType
  BY EmptySeq DEF LogType
<1>4. ProcessType
  <2>1. 0 \in 0..MaxSessions /\ 0 \in 0..MaxFaults
    OBVIOUS
  <2> QED
    BY <2>1 DEF ProcessType, Phases
<1>5. EntryType /\ UndoType
  BY EmptySeq DEF EntryType, UndoType
<1>6. StartType
  <2>1. start = [fs |-> fs, temps |-> temps, dirs |-> dirs, dat |-> dat, count |-> count]
    BY DEF Snapshot
  <2> QED
    BY <1>1, <1>2, <1>3, <2>1 DEF StartType, DiskType, CountType, LogType
<1>7. Control
  BY DEF Control, InstallPhases, EntryPhases, UndoPhases
<1>8. OwnTemps
  BY EmptySeq DEF OwnTemps, Log, Records
<1> QED
  BY <1>1, <1>2, <1>3, <1>4, <1>5, <1>6, <1>7, <1>8 DEF TypeInv

\* Every state keeps its types: the declared ones, and where the process is.
THEOREM TypesKept == Spec => []TypeInv
<1>1. TypeInv /\ [Next]_vars => TypeInv'
  BY TypeStep
<1> QED
  BY <1>1, TypeInit, PTL DEF Spec

\* Every variable has its type in every state.
THEOREM TypesOK == Spec => []TypeOK
<1>1. TypeInv => TypeOK
  BY TransactionAssumption DEF TypeInv, TypeOK, DiskType, CountType, LogType, ProcessType,
     EntryType, UndoType
<1> QED
  BY <1>1, TypesKept, PTL

-----------------------------------------------------------------------------
(* Reference counts.                                                       *)

\* The references whose records are still to be undone, or saved.
GivenBack(i) ==
  CountedInStep2(list[i]) /\ (pc = "step3" \/ (pc = "step2" /\ i > idx))
Owed(f) == Cardinality({i \in DOMAIN list : Holds(list[i], f) /\ ~GivenBack(i)})
\* The uninstaller works on what is still in the log.
Replayed(f) == IF uninstaller THEN RefsIn(Log(app), f) ELSE 0

CountsBalance ==
  \A f \in Files : /\ slack[f] >= 0
                   /\ count[f] = Refs(f) + slack[f] + Owed(f) - Replayed(f)

-----------------------------------------------------------------------------
(* How the references that a process still owes change.                    *)

Open(f) == {i \in DOMAIN list : Holds(list[i], f) /\ ~GivenBack(i)}

\* The references still in the list are counted by a natural number.
LEMMA OwedType ==
  ASSUME TypeInv, NEW f
  PROVE  /\ Owed(f) = Cardinality(Open(f)) /\ Owed(f) \in Nat
         /\ IsFiniteSet(Open(f)) /\ Open(f) \in SUBSET DOMAIN list
         /\ Open(f) # {} => Owed(f) > 0
<1>1. Owed(f) = Cardinality(Open(f))
  BY DEF Owed, Open
<1>2. Open(f) \in SUBSET DOMAIN list /\ list \in Seq(UndoRec)
  BY DEF Open, TypeInv, LogType
<1>3. IsFiniteSet(Open(f)) /\ Cardinality(Open(f)) \in Nat
  BY <1>2, PlacesFinite
<1>4. Open(f) # {} => Cardinality(Open(f)) # 0
  BY <1>3, FS_EmptySet
<1> QED
  BY <1>1, <1>2, <1>3, <1>4

\* Before anything is undone the whole list is owed.
LEMMA OwedAll ==
  ASSUME pc \notin UndoPhases \/ (pc = "step2" /\ \A i \in DOMAIN list : i <= idx), idx \in Int,
         list \in Seq(UndoRec)
  PROVE  \A f : Owed(f) = RefsIn(list, f)
<1>1. \A i \in DOMAIN list : ~GivenBack(i)
  BY DEF GivenBack, UndoPhases
<1>2. \A f : {i \in DOMAIN list : Holds(list[i], f) /\ ~GivenBack(i)}
             = {i \in DOMAIN list : Holds(list[i], f)}
  BY <1>1
<1> QED
  BY <1>2 DEF Owed, RefsIn

One(P) == IF P THEN 1 ELSE 0

\* A record that is appended adds its own reference to those of the log.
LEMMA RefsInAppend ==
  ASSUME NEW s \in Seq(UndoRec), NEW r \in UndoRec, NEW f
  PROVE  RefsIn(Append(s, r), f) = RefsIn(s, f) + One(Holds(r, f))
<1>1. <<r>> \in Seq(UndoRec) /\ Append(s, r) = s \o <<r>>
  BY AppendIsConcat
<1>2. RefsIn(<<r>>, f) = One(Holds(r, f))
  <2>1. Held(<<r>>, f) = IF Holds(r, f) THEN {1} ELSE {}
    <3>1. DOMAIN <<r>> = {1} /\ <<r>>[1] = r
      OBVIOUS
    <3> QED
      BY <3>1 DEF Held
  <2> QED
    BY <2>1, RefsInHeld, FS_EmptySet, FS_Singleton DEF One
<1>3. RefsIn(s \o <<r>>, f) = RefsIn(s, f) + RefsIn(<<r>>, f)
  BY <1>1, RefsInConcat
<1> QED
  BY <1>1, <1>2, <1>3, Zenon

\* Step 3 takes the newest record.
LEMMA OwedFront ==
  ASSUME TypeInv, TypeInv', pc = "step3", pc' = "step3", list # <<>>, list' = Front(list),
         uninstaller' = uninstaller, NEW f
  PROVE  LET k == One(Holds(Newest, f) /\ ~CountedInStep2(Newest))
         IN  Owed(f)' = Owed(f) - k /\ Owed(f) >= k
<1> DEFINE n == Len(list)
<1>1. /\ list \in Seq(UndoRec) /\ n \in Nat \ {0} /\ DOMAIN list = 1..n
      /\ DOMAIN list' = 1..(n - 1) /\ \A i \in 1..(n - 1) : list'[i] = list[i]
  BY FrontFacts DEF TypeInv, LogType
<1>2. Open(f)' = Open(f) \ {n}
  <2>1. Open(f) = {i \in 1..n : Holds(list[i], f) /\ ~CountedInStep2(list[i])}
    BY <1>1 DEF Open, GivenBack
  <2>2. Open(f)' = {i \in 1..(n - 1) : Holds(list[i], f) /\ ~CountedInStep2(list[i])}
    <3>1. Open(f)' = {i \in 1..(n - 1) : Holds(list'[i], f) /\ ~CountedInStep2(list[i])'}
      BY <1>1 DEF Open, GivenBack
    <3>2. \A i \in 1..(n - 1) : /\ Holds(list'[i], f) = Holds(list[i], f)
                                /\ CountedInStep2(list[i])' = CountedInStep2(list[i])
      BY <1>1 DEF CountedInStep2
    <3> QED
      BY <3>1, <3>2
  <2> QED
    BY <1>1, <2>1, <2>2
<1>3. n \in Open(f) <=> Holds(Newest, f) /\ ~CountedInStep2(Newest)
  BY <1>1 DEF Open, GivenBack, Newest
<1>4. Owed(f) = Cardinality(Open(f)) /\ Owed(f) \in Nat /\ IsFiniteSet(Open(f))
      /\ (Open(f) # {} => Owed(f) > 0)
  BY OwedType
<1>5. Owed(f)' = Cardinality(Open(f)')
  BY DEF Owed, Open
<1>6. Cardinality(Open(f) \ {n}) = IF n \in Open(f) THEN Cardinality(Open(f)) - 1
                                                    ELSE Cardinality(Open(f))
  BY <1>4, FS_RemoveElement
<1> HIDE DEF n
<1> QED
  BY <1>2, <1>3, <1>4, <1>5, <1>6 DEF One

\* Step 2 counts a record, and keeps it.
LEMMA OwedKept ==
  ASSUME TypeInv, pc = "step2", pc' = "step2", idx > 0, idx' = idx - 1, list' = list,
         uninstaller' = uninstaller, NEW f
  PROVE  LET k == One(Holds(list[idx], f) /\ CountedInStep2(list[idx]))
         IN  Owed(f)' = Owed(f) - k /\ Owed(f) >= k
<1>1. list \in Seq(UndoRec) /\ idx \in DOMAIN list /\ idx \in Nat /\ DOMAIN list \in SUBSET Nat
  BY NewestType DEF TypeInv, LogType, ProcessType
<1>2. Open(f)' = IF CountedInStep2(list[idx]) THEN Open(f) \ {idx} ELSE Open(f)
  <2>1. Open(f) = {i \in DOMAIN list : Holds(list[i], f) /\ ~(CountedInStep2(list[i]) /\ i > idx)}
    BY DEF Open, GivenBack
  <2>2. Open(f)' = {i \in DOMAIN list : Holds(list[i], f) /\ ~(CountedInStep2(list[i]) /\ i > idx - 1)}
    BY DEF Open, GivenBack, CountedInStep2
  <2>3. \A i \in DOMAIN list : i > idx - 1 <=> i > idx \/ i = idx
    BY <1>1
  <2> QED
    BY <1>1, <2>1, <2>2, <2>3
<1>3. idx \in Open(f) <=> Holds(list[idx], f)
  BY <1>1 DEF Open, GivenBack
<1>4. Owed(f) = Cardinality(Open(f)) /\ Owed(f) \in Nat /\ IsFiniteSet(Open(f))
      /\ (Open(f) # {} => Owed(f) > 0)
  BY OwedType
<1>5. Owed(f)' = Cardinality(Open(f)')
  BY DEF Owed, Open
<1>6. Cardinality(Open(f) \ {idx}) = IF idx \in Open(f) THEN Cardinality(Open(f)) - 1
                                                        ELSE Cardinality(Open(f))
  BY <1>4, FS_RemoveElement
<1> QED
  BY <1>2, <1>3, <1>4, <1>5, <1>6 DEF One

\* Step 2 counts a record, and removes it.
LEMMA OwedRemoved ==
  ASSUME TypeInv, pc = "step2", pc' = "step2", idx > 0, idx' = idx - 1,
         list' = RemoveAt(list, idx), uninstaller' = uninstaller, NEW f
  PROVE  LET k == One(Holds(list[idx], f))
         IN  Owed(f)' = Owed(f) - k /\ Owed(f) >= k
<1> DEFINE n == Len(list)
           A == Open(f) \ {idx}
           C == {i \in Nat : (i < idx /\ i \in A) \/ (i >= idx /\ i + 1 \in A)}
<1>1. list \in Seq(UndoRec) /\ idx \in 1..n /\ idx \in Nat /\ n \in Nat \ {0}
      /\ DOMAIN list = 1..n
  BY NewestType, LenProperties DEF TypeInv, LogType, ProcessType
<1>2. /\ DOMAIN list' = 1..(n - 1)
      /\ \A i \in 1..(n - 1) : list'[i] = IF i < idx THEN list[i] ELSE list[i + 1]
  BY <1>1, RemoveAtFacts
<1>3. Open(f)' = C
  <2>1. Open(f) = {i \in 1..n : Holds(list[i], f) /\ ~(CountedInStep2(list[i]) /\ i > idx)}
    BY <1>1 DEF Open, GivenBack
  <2>2. Open(f)' = {i \in 1..(n - 1) :
                      Holds(list'[i], f) /\ ~(CountedInStep2(list[i])' /\ i > idx - 1)}
    BY <1>2 DEF Open, GivenBack
  <2>3. \A i \in 1..(n - 1) : i < idx => /\ Holds(list'[i], f) = Holds(list[i], f)
                                         /\ CountedInStep2(list[i])' = CountedInStep2(list[i])
    BY <1>2 DEF CountedInStep2
  <2>4. \A i \in 1..(n - 1) : i >= idx => /\ Holds(list'[i], f) = Holds(list[i + 1], f)
                                          /\ CountedInStep2(list[i])' = CountedInStep2(list[i + 1])
    BY <1>1, <1>2 DEF CountedInStep2
  <2>5. ASSUME NEW i \in Nat PROVE i \in Open(f)' <=> i \in C
    <3>1. CASE i < idx
      <4>1. i \in 1..n <=> i \in 1..(n - 1)
        BY <1>1, <3>1
      <4> QED
        BY <1>1, <2>1, <2>2, <2>3, <3>1, <4>1
    <3>2. CASE i >= idx
      <4>1. /\ i + 1 \in 1..n <=> i \in 1..(n - 1)
            /\ i + 1 > idx /\ i + 1 # idx /\ i > idx - 1 /\ ~(i < idx)
        BY <1>1, <3>2
      <4> QED
        BY <1>1, <2>1, <2>2, <2>4, <3>2, <4>1
    <3> QED
      BY <1>1, <3>1, <3>2
  <2>6. Open(f)' \in SUBSET Nat
    BY <1>1, <2>2
  <2> QED
    BY <2>5, <2>6
<1>4. idx \in Open(f) <=> Holds(list[idx], f)
  BY <1>1 DEF Open, GivenBack
<1>5. Owed(f) = Cardinality(Open(f)) /\ Owed(f) \in Nat /\ IsFiniteSet(Open(f))
      /\ (Open(f) # {} => Owed(f) > 0) /\ Open(f) \in SUBSET Nat
  BY <1>1, OwedType
<1>6. IsFiniteSet(A) /\ Cardinality(A) = IF idx \in Open(f) THEN Cardinality(Open(f)) - 1
                                                            ELSE Cardinality(Open(f))
  BY <1>5, FS_RemoveElement
<1>7. Cardinality(C) = Cardinality(A)
  <2>1. A \in SUBSET Nat /\ idx \notin A
    BY <1>5
  <2> HIDE DEF A
  <2> QED
    BY <1>1, <1>6, <2>1, ClosingUp
<1>8. Owed(f)' = Cardinality(Open(f)')
  BY DEF Owed, Open
<1> HIDE DEF A, C
<1> QED
  BY <1>3, <1>4, <1>5, <1>6, <1>7, <1>8 DEF One

-----------------------------------------------------------------------------
(* The balance of references is kept by every step.                        *)

Balance(f) ==
  slack[f] >= 0 /\ count[f] = Refs(f) + slack[f] + Owed(f) - Replayed(f)

\* The numbers of a balance, and what is known of them.
LEMMA BalanceType ==
  ASSUME TypeInv, NEW f \in Files
  PROVE  /\ count[f] \in Nat /\ slack[f] \in Int /\ Refs(f) \in Nat /\ Owed(f) \in Nat
         /\ Replayed(f) \in Nat /\ Replayed(f) <= Refs(f)
         /\ dat \in Logs /\ list \in Seq(UndoRec) /\ app \in Apps /\ idx \in Nat
<1>1. dat \in Logs /\ app \in Apps /\ list \in Seq(UndoRec) /\ idx \in Nat
  BY DEF TypeInv, LogType, ProcessType, Logs
<1>2. Refs(f) \in Nat /\ RefsIn(Log(app), f) \in Nat /\ RefsIn(Log(app), f) <= Refs(f)
  BY <1>1, RefsAre, RefsAtLeast DEF Log
<1> QED
  BY <1>1, <1>2, OwedType DEF TypeInv, CountType, Replayed

\* A step that leaves the references, what is owed and what is replayed.
LEMMA BalanceSame ==
  ASSUME NEW f, Balance(f), count'[f] = count[f], slack'[f] = slack[f],
         Refs(f)' = Refs(f), Owed(f)' = Owed(f), Replayed(f)' = Replayed(f)
  PROVE  Balance(f)'
BY DEF Balance

\* Where no log changes, neither do the references.
LEMMA RefsUnchanged ==
  ASSUME NEW f, \A a \in Apps : Log(a)' = Log(a)
  PROVE  Refs(f)' = Refs(f)
<1>1. \A a \in Apps : RefsIn(Records(dat[a]), f) = RefsIn(Records(dat'[a]), f)
  BY DEF Log
<1> QED
  BY <1>1, RefsAre, RefsAreNext, RefsSame

\* Reserving a log, giving it up, or losing it changes no reference.
LEMMA LogsUnchanged ==
  ASSUME TypeInv,
         \/ UNCHANGED dat
         \/ \A a \in Apps : dat'[a] = dat[a] \/ {dat[a], dat'[a]} \subseteq {NoLog, Reserved}
  PROVE  \A a \in Apps : Log(a)' = Log(a)
BY DEF Log, Records

\* While nothing is undone, the list is what is owed.
LEMMA OwedInstall ==
  ASSUME TypeInv, TypeInv', pc \notin UndoPhases, pc' \notin UndoPhases
  PROVE  \A f : Owed(f) = RefsIn(list, f) /\ Owed(f)' = RefsIn(list', f)
<1>1. idx \in Int /\ list \in Seq(UndoRec)
  BY DEF TypeInv, ProcessType, LogType
<1>2. idx' \in Int /\ list' \in Seq(UndoRec)
  BY DEF TypeInv, ProcessType, LogType
<1>3. \A f : Owed(f) = RefsIn(list, f)
  BY <1>1, OwedAll
<1>4. \A f : Owed(f)' = RefsIn(list', f)
  <2>1. \A i \in DOMAIN list' : ~GivenBack(i)'
    BY DEF GivenBack, UndoPhases
  <2>2. \A f : {i \in DOMAIN list' : Holds(list'[i], f) /\ ~GivenBack(i)'}
               = {i \in DOMAIN list' : Holds(list'[i], f)}
    BY <2>1
  <2> QED
    BY <2>2 DEF Owed, RefsIn
<1> QED
  BY <1>3, <1>4

\* Steps of an installation that change neither counts nor references.
LEMMA QuietBalance ==
  ASSUME TypeInv, TypeInv', NEW f, Balance(f), pc \notin UndoPhases, pc' \notin UndoPhases,
         UNCHANGED <<count, slack, uninstaller, app>>,
         \A a \in Apps : Log(a)' = Log(a),
         \/ UNCHANGED list
         \/ \E r \in UndoRec : ~Holds(r, f) /\ list' = Append(list, r)
  PROVE  Balance(f)'
<1>1. Owed(f) = RefsIn(list, f) /\ Owed(f)' = RefsIn(list', f)
  BY OwedInstall
<1>2. RefsIn(list', f) = RefsIn(list, f)
  <2>1. CASE UNCHANGED list
    BY <2>1
  <2>2. CASE \E r \in UndoRec : ~Holds(r, f) /\ list' = Append(list, r)
    <3>1. PICK r \in UndoRec : ~Holds(r, f) /\ list' = Append(list, r)
      BY <2>2
    <3>2. list \in Seq(UndoRec) /\ RefsIn(list, f) \in Nat
      BY RefsInType DEF TypeInv, LogType
    <3> QED
      BY <3>1, <3>2, RefsInAppend DEF One
  <2> QED
    BY <2>1, <2>2
<1>3. Replayed(f)' = Replayed(f)
  BY DEF Replayed, TypeInv, ProcessType
<1> QED
  BY <1>1, <1>2, <1>3, RefsUnchanged, BalanceSame

\* A file is released: it loses a reference that was owed.
LEMMA Release ==
  ASSUME TypeInv, TypeInv', NEW f \in Files, Balance(f), NEW k \in {0, 1},
         UNCHANGED <<dat, uninstaller, app>>,
         Owed(f)' = Owed(f) - k, Owed(f) >= k,
         \/ slack'[f] = slack[f] /\ count'[f] = count[f] - k
         \/ slack'[f] = slack[f] + k /\ count'[f] = count[f]
  PROVE  Balance(f)'
<1>1. /\ count[f] \in Nat /\ slack[f] \in Int /\ Refs(f) \in Nat /\ Owed(f) \in Nat
      /\ Replayed(f) \in Nat
  BY BalanceType
<1>2. Refs(f)' = Refs(f) /\ Replayed(f)' = Replayed(f)
  BY RefsUnchanged DEF Log, Replayed
<1> QED
  BY <1>1, <1>2 DEF Balance

\* A count with a reference owed on it is not zero.
LEMMA OwedCounts ==
  ASSUME TypeInv, NEW f \in Files, Balance(f)
  PROVE  count[f] >= Owed(f)
BY BalanceType DEF Balance

\* Installing: everything but counting a shared file and saving the log.
LEMMA BalanceInstall ==
  ASSUME TypeInv, TypeInv', NEW f \in Files, Balance(f),
         \/ \E a \in Apps : StartInstall(a)
         \/ CreateDirs \/ GenerateUninstallInfoFilename \/ BeginEntry \/ ExtractToTemp
         \/ DeleteExisting \/ MoveIntoPlace \/ ReplaceOnRestart \/ FinishEntry
         \/ EntryRaises \/ AskRetry \/ AskIgnore \/ Cancel \/ Restart
  PROVE  Balance(f)'
<1> USE DEF UndoPhases
<1>0. dat \in Logs /\ app \in Apps
  BY BalanceType
<1>1. CASE \E a \in Apps : StartInstall(a)
  <2>1. PICK a \in Apps : StartInstall(a)
    BY <1>1
  <2>2. /\ pc = "idle" /\ pc' = "dirs" /\ list' = list /\ ~uninstaller
        /\ UNCHANGED <<count, slack, dat, uninstaller>>
    BY <2>1 DEF StartInstall, undo, TypeInv, Control
  <2>3. Owed(f)' = Owed(f)
    BY <2>2, OwedInstall
  <2>4. Refs(f)' = Refs(f)
    BY <2>2, RefsUnchanged DEF Log
  <2>5. Replayed(f) = 0 /\ Replayed(f)' = 0
    BY <2>2 DEF Replayed
  <2> QED
    BY <2>2, <2>3, <2>4, <2>5, BalanceSame
<1>2. CASE CreateDirs
  <2>1. Wanted(app)[idx].dir \in Dirs
    BY <1>2, AskedDir DEF CreateDirs
  <2>2. \E e \in Dirs : list' = list \/ list' = Append(list, DirRec(e))
    BY <1>2, <2>1, MadeDir DEF CreateDirs
  <2>3. list' = list \/ \E r \in UndoRec : ~Holds(r, f) /\ list' = Append(list, r)
    BY <2>2, RecordKinds DEF Holds
  <2>4. /\ pc = "dirs" /\ pc' \in {"dirs", "reserve"}
        /\ UNCHANGED <<count, slack, uninstaller, app, dat>>
    BY <1>2 DEF CreateDirs, undo, history
  <2> QED
    BY <2>3, <2>4, QuietBalance DEF Log
<1>3. CASE GenerateUninstallInfoFilename
  <2>1. \A a \in Apps : dat'[a] = dat[a] \/ {dat[a], dat'[a]} \subseteq {NoLog, Reserved}
    BY <1>0, <1>3 DEF GenerateUninstallInfoFilename, Logs
  <2>2. \A a \in Apps : Log(a)' = Log(a)
    BY <2>1, LogsUnchanged
  <2>3. /\ pc = "reserve" /\ pc' \in {"save", "entry"}
        /\ UNCHANGED <<count, slack, uninstaller, app, list>>
    BY <1>3 DEF GenerateUninstallInfoFilename, undo, history
  <2> QED
    BY <2>2, <2>3, QuietBalance
<1>4. CASE ExtractToTemp
  <2>1. DirOf[Cur.file] \in Dirs
    BY <1>4, AskedDir DEF ExtractToTemp
  <2>2. \E e \in Dirs : list' = list \/ list' = Append(list, DirRec(e))
    BY <1>4, <2>1, MadeDir DEF ExtractToTemp
  <2>3. list' = list \/ \E r \in UndoRec : ~Holds(r, f) /\ list' = Append(list, r)
    BY <2>2, RecordKinds DEF Holds
  <2>4. /\ pc = "temp" /\ pc' \in {"temp", "delete", "move"}
        /\ UNCHANGED <<count, slack, uninstaller, app, dat>>
    BY <1>4 DEF ExtractToTemp, undo, history, process
  <2> QED
    BY <2>3, <2>4, QuietBalance DEF Log
<1>5. CASE MoveIntoPlace \/ ReplaceOnRestart
  <2>1. /\ pc \in EntryPhases /\ existed \in BOOLEAN /\ tmp \in Temp \cup {NoTmp}
    BY <1>5 DEF MoveIntoPlace, ReplaceOnRestart, EntryPhases, TypeInv, EntryType
  <2>2. \A t \in {NoTmp, tmp} :
           /\ FileRec(Cur.file, t, existed, Cur.opts) \in UndoRec
           /\ ~Opt("shared") => ~Holds(FileRec(Cur.file, t, existed, Cur.opts), f)
    BY <2>1, CurType, RecordKinds DEF Holds, Opt
  <2>3. list' = list \/ \E r \in UndoRec : ~Holds(r, f) /\ list' = Append(list, r)
    <3>1. PICK t \in {NoTmp, tmp} : list' = RecordInstalled(t)
      BY <1>5 DEF MoveIntoPlace, ReplaceOnRestart
    <3>2. list' = list \/ (~Opt("shared") /\ list' = Append(list, FileRec(Cur.file, t, existed, Cur.opts)))
      BY <3>1 DEF RecordInstalled
    <3>3. CASE list' = list
      BY <3>3
    <3>4. CASE ~Opt("shared") /\ list' = Append(list, FileRec(Cur.file, t, existed, Cur.opts))
      <4> DEFINE r == FileRec(Cur.file, t, existed, Cur.opts)
      <4>1. r \in UndoRec /\ (~Opt("shared") => ~Holds(r, f))
        BY <2>2, <3>1
      <4>2. list' = Append(list, r)
        BY <3>4
      <4>3. ~Holds(r, f)
        BY <4>1, <3>4
      <4> HIDE DEF r
      <4> QED
        BY <4>1, <4>2, <4>3
    <3> QED
      BY <3>2, <3>3, <3>4
  <2>4. /\ pc \in {"delete", "move"} /\ pc' = "share"
        /\ UNCHANGED <<count, slack, uninstaller, app, dat>>
    BY <1>5 DEF MoveIntoPlace, ReplaceOnRestart, undo, history, process
  <2> QED
    BY <2>3, <2>4, QuietBalance DEF Log
<1>6. CASE BeginEntry \/ DeleteExisting \/ FinishEntry \/ EntryRaises \/ AskRetry \/ AskIgnore
           \/ Cancel \/ Restart
  <2>1. pc \notin UndoPhases /\ pc' \notin UndoPhases
    BY <1>6 DEF BeginEntry, DeleteExisting, FinishEntry, EntryRaises, AskRetry, AskIgnore,
       Cancel, Restart, NextEntry
  <2>2. UNCHANGED <<count, slack, uninstaller, app, dat, list>>
    BY <1>6 DEF BeginEntry, DeleteExisting, FinishEntry, EntryRaises, AskRetry, AskIgnore,
       Cancel, Restart, undo, history, process
  <2> QED
    BY <2>1, <2>2, QuietBalance DEF Log
<1> QED
  BY <1>1, <1>2, <1>3, <1>4, <1>5, <1>6

\* A shared file is counted and recorded.
LEMMA BalanceShare ==
  ASSUME TypeInv, TypeInv', NEW f \in Files, Balance(f), ShareEntry
  PROVE  Balance(f)'
<1>1. /\ pc = "share" /\ pc' = "finish" /\ UNCHANGED <<uninstaller, app, dat>>
  BY DEF ShareEntry, undo, process
<1>2. /\ Cur.file \in Files /\ existed \in BOOLEAN /\ tmp \in Temp \cup {NoTmp}
      /\ Cur.opts \in SUBSET FileOptions
  BY <1>1, CurType DEF EntryPhases, TypeInv, EntryType
<1>3. CASE ~Opt("shared")
  <2>1. UNCHANGED <<count, slack, list>>
    BY <1>3 DEF ShareEntry
  <2> QED
    BY <1>1, <2>1, QuietBalance DEF Log, UndoPhases
<1>4. CASE Opt("shared")
  <2> DEFINE r == IF Opt("neveruninstall") THEN CountRec(Cur.file)
                  ELSE FileRec(Cur.file, tmp, existed, Cur.opts)
  <2>1. r \in UndoRec /\ (Holds(r, f) <=> f = Cur.file)
    BY <1>2, <1>4, RecordKinds DEF Holds, Opt
  <2>2. list' = Append(list, r)
    BY <1>4 DEF ShareEntry
  <2> HIDE DEF r
  <2>3. Owed(f) = RefsIn(list, f) /\ Owed(f)' = RefsIn(list', f) /\ list \in Seq(UndoRec)
    BY <1>1, OwedInstall DEF UndoPhases, TypeInv, LogType
  <2>4. Owed(f)' = Owed(f) + One(f = Cur.file)
    BY <2>1, <2>2, <2>3, RefsInAppend DEF One
  <2>5. Refs(f)' = Refs(f) /\ Replayed(f)' = Replayed(f)
    BY <1>1, RefsUnchanged DEF Log, Replayed
  <2>6. /\ count' = Incremented(Cur.file, existed)
        /\ slack' = [slack EXCEPT ![Cur.file] = IF count[Cur.file] = 0 /\ existed THEN @ + 1 ELSE @]
    BY <1>4 DEF ShareEntry
  <2>7. /\ count[f] \in Nat /\ slack[f] \in Int /\ Refs(f) \in Nat /\ Owed(f) \in Nat
        /\ Replayed(f) \in Nat /\ count \in [Files -> Nat] /\ slack \in [Files -> Int]
    BY BalanceType DEF TypeInv, CountType
  <2>8. CASE f = Cur.file
    <3>1. count'[f] = count[f] + 1 + One(count[f] = 0 /\ existed)
      BY <2>6, <2>7, <2>8 DEF Incremented, One
    <3>2. slack'[f] = slack[f] + One(count[f] = 0 /\ existed)
      BY <2>6, <2>7, <2>8 DEF One
    <3> QED
      BY <2>4, <2>5, <2>7, <2>8, <3>1, <3>2 DEF Balance, One
  <2>9. CASE f # Cur.file
    <3>1. count'[f] = count[f] /\ slack'[f] = slack[f]
      BY <2>6, <2>7, <2>9 DEF Incremented
    <3> QED
      BY <2>4, <2>5, <2>7, <2>9, <3>1 DEF Balance, One
  <2> QED
    BY <2>8, <2>9
<1> QED
  BY <1>3, <1>4

\* The list becomes part of the log.
LEMMA BalanceSave ==
  ASSUME TypeInv, TypeInv', NEW f \in Files, Balance(f), SaveLog
  PROVE  Balance(f)'
<1>1. /\ pc = "save" /\ pc' = "idle" /\ list' = <<>> /\ ~uninstaller /\ ~uninstaller'
      /\ UNCHANGED <<count, slack, app>>
      /\ dat' = [dat EXCEPT ![app] = Log(app) \o list]
  BY DEF SaveLog, EndProcess, history, TypeInv, Control, InstallPhases
<1>2. dat \in Logs /\ dat' \in Logs /\ app \in Apps /\ list \in Seq(UndoRec)
      /\ Log(app) \in Seq(UndoRec)
  BY RecordsType DEF TypeInv, LogType, ProcessType, Logs, Log
<1>3. Owed(f) = RefsIn(list, f) /\ Owed(f)' = 0
  BY <1>1, OwedInstall, RefsInEmpty DEF UndoPhases
<1>4. Records(dat'[app]) = Log(app) \o list
  BY <1>1, <1>2, ConcatFacts, RecordsType DEF Logs
<1>5. RefsIn(Log(app) \o list, f) = RefsIn(Log(app), f) + RefsIn(list, f)
  BY <1>2, RefsInConcat
<1>6. Refs(f)' = Refs(f) - RefsIn(Log(app), f) + RefsIn(Records(dat'[app]), f)
  <2>1. \A b \in Apps \ {app} : dat'[b] = dat[b]
    BY <1>1, <1>2 DEF Logs
  <2>2. RefsOf(dat', f) = RefsOf(dat, f) - RefsIn(Records(dat[app]), f) + RefsIn(Records(dat'[app]), f)
    BY <1>2, <2>1, RefsChange
  <2> QED
    BY <2>2, RefsAre, RefsAreNext DEF Log
<1>7. RefsIn(Log(app), f) \in Nat /\ RefsIn(list, f) \in Nat
  BY <1>2, RefsInType
<1>8. Refs(f)' = Refs(f) + RefsIn(list, f)
  BY <1>4, <1>5, <1>6, <1>7, BalanceType
<1>9. Replayed(f) = 0 /\ Replayed(f)' = 0
  BY <1>1 DEF Replayed
<1> QED
  BY <1>1, <1>3, <1>7, <1>8, <1>9, BalanceType DEF Balance

\* The uninstaller takes a log, and owes what is in it.
LEMMA BalanceStartUninstall ==
  ASSUME TypeInv, TypeInv', NEW f \in Files, Balance(f), NEW a \in Apps, StartUninstall(a)
  PROVE  Balance(f)'
<1>1. /\ pc = "idle" /\ list = <<>> /\ ~uninstaller /\ uninstaller' /\ app' = a
      /\ pc' = "step2" /\ list' = Log(a) /\ idx' = Len(Log(a))
      /\ UNCHANGED <<count, slack, dat>>
  BY DEF StartUninstall, TypeInv, Control
<1>2. Log(a) \in Seq(UndoRec) /\ idx \in Int /\ list \in Seq(UndoRec)
  BY RecordsType DEF TypeInv, LogType, Log, ProcessType
<1>3. Owed(f) = 0
  BY <1>1, <1>2, OwedAll, RefsInEmpty DEF UndoPhases
<1>4. Owed(f)' = RefsIn(Log(a), f)
  <2>1. \A i \in DOMAIN list' : ~GivenBack(i)'
    BY <1>1, <1>2 DEF GivenBack
  <2>2. {i \in DOMAIN list' : Holds(list'[i], f) /\ ~GivenBack(i)'}
               = {i \in DOMAIN list' : Holds(list'[i], f)}
    BY <2>1
  <2> QED
    BY <1>1, <2>2 DEF Owed, RefsIn
<1>5. Replayed(f) = 0 /\ Replayed(f)' = RefsIn(Log(a), f)
  BY <1>1 DEF Replayed, Log
<1>6. Refs(f)' = Refs(f) /\ RefsIn(Log(a), f) \in Nat
  BY <1>1, <1>2, RefsUnchanged, RefsInType DEF Log
<1> QED
  BY <1>1, <1>3, <1>4, <1>5, <1>6, BalanceType DEF Balance

\* The end of a step of the uninstaller or of a rollback owes what the
\* beginning did.
LEMMA OwedStays ==
  ASSUME NEW f, list' = list, \A i \in DOMAIN list : GivenBack(i)' = GivenBack(i)
  PROVE  Owed(f)' = Owed(f)
<1>1. {i \in DOMAIN list' : Holds(list'[i], f) /\ ~GivenBack(i)'}
      = {i \in DOMAIN list : Holds(list[i], f) /\ ~GivenBack(i)}
  OBVIOUS
<1> QED
  BY <1>1 DEF Owed

\* Steps 1 and 2.
LEMMA BalanceStep2 ==
  ASSUME TypeInv, TypeInv', NEW f \in Files, Balance(f), Rollback \/ Step2 \/ EndStep2
  PROVE  Balance(f)'
<1>1. CASE Rollback
  <2>1. /\ pc = "rollback" /\ pc' = "step2" /\ idx' = Len(list) /\ list' = list
        /\ UNCHANGED <<count, slack, uninstaller, app>>
    BY <1>1 DEF Rollback, undo, history
  <2>2. \A i \in DOMAIN list : GivenBack(i)' = GivenBack(i)
    <3>1. list \in Seq(UndoRec)
      BY DEF TypeInv, LogType
    <3>2. \A i \in DOMAIN list : ~(i > Len(list))
      BY <3>1
    <3> QED
      BY <2>1, <3>2 DEF GivenBack
  <2>3. \A a \in Apps : Log(a)' = Log(a)
    <3>1. \A a \in Apps : dat'[a] = dat[a] \/ {dat[a], dat'[a]} \subseteq {NoLog, Reserved}
      BY <1>1 DEF Rollback, TypeInv, LogType, Control
    <3> QED
      BY <3>1, LogsUnchanged
  <2>4. Replayed(f)' = Replayed(f)
    BY <2>1, <2>3 DEF Replayed, TypeInv, ProcessType
  <2> QED
    BY <2>1, <2>2, <2>3, <2>4, OwedStays, RefsUnchanged, BalanceSame
<1>2. CASE EndStep2
  <2>1. /\ pc = "step2" /\ pc' = "step3" /\ idx = 0
        /\ UNCHANGED <<list, idx, count, slack, uninstaller, app, dat>>
    BY <1>2 DEF EndStep2, undo, history, process
  <2>2. \A i \in DOMAIN list : GivenBack(i)' = GivenBack(i)
    <3>1. \A i \in DOMAIN list : i > 0
      BY DEF TypeInv, LogType
    <3> QED
      BY <2>1, <3>1 DEF GivenBack, CountedInStep2
  <2> QED
    BY <2>1, <2>2, OwedStays, RefsUnchanged, BalanceSame DEF Log, Replayed
<1>3. CASE Step2
  <2>1. /\ pc = "step2" /\ pc' = "step2" /\ idx > 0 /\ idx' = idx - 1
        /\ UNCHANGED <<uninstaller, app, dat>>
    BY <1>3 DEF Step2, undo
  <2> DEFINE rec == list[idx]
  <2>2. rec \in UndoRec /\ count \in [Files -> Nat] /\ slack \in [Files -> Int]
    BY <2>1, NewestType DEF TypeInv, CountType
  <2>3. CASE ~CountedInStep2(rec)
    <3>1. UNCHANGED <<list, count, slack>>
      BY <1>3, <2>3 DEF Step2
    <3>2. Owed(f)' = Owed(f) - 0 /\ Owed(f) >= 0
      BY <2>1, <2>3, <3>1, OwedKept DEF One
    <3> QED
      BY <2>1, <2>2, <3>1, <3>2, Release
  <2>4. CASE CountedInStep2(rec)
    <3>1. Holds(rec, f) <=> f = rec.file
      BY <2>4 DEF CountedInStep2, Holds
    <3> DEFINE k == One(f = rec.file)
    <3>2. list' = list \/ list' = RemoveAt(list, idx)
      BY <1>3 DEF Step2
    <3>3. Owed(f)' = Owed(f) - k /\ Owed(f) >= k
      BY <2>1, <2>4, <3>1, <3>2, OwedKept, OwedRemoved DEF One
    <3>4. \/ count' = Decremented(rec.file) /\ slack' = slack
          \/ count' = count /\ slack' = [slack EXCEPT ![rec.file] = @ + 1]
      BY <1>3, <2>4 DEF Step2
    <3>5. f = rec.file => count[f] >= 1
      BY <3>3, OwedCounts, BalanceType DEF One
    <3>6. \/ slack'[f] = slack[f] /\ count'[f] = count[f] - k
          \/ slack'[f] = slack[f] + k /\ count'[f] = count[f]
      BY <2>2, <3>4, <3>5 DEF Decremented, One
    <3>7. k \in {0, 1}
      BY DEF One
    <3> HIDE DEF k
    <3> QED
      BY <2>1, <3>3, <3>6, <3>7, Release
  <2> QED
    BY <2>3, <2>4
<1> QED
  BY <1>1, <1>2, <1>3

\* Step 3: what is taken back of the newest record.
LEMMA BalanceStep3 ==
  ASSUME TypeInv, TypeInv', NEW f \in Files, Balance(f),
         UndoDir \/ UndoCount \/ UndoFile \/ UndoFileRaises \/ UndoFileInUse
  PROVE  Balance(f)'
<1>1. /\ pc = "step3" /\ pc' = "step3" /\ list # <<>> /\ list' = Front(list)
      /\ UNCHANGED <<uninstaller, app, dat>>
  BY DEF UndoDir, UndoCount, UndoFile, UndoFileRaises, UndoFileInUse, TakeNewest, process
<1>2. Newest \in UndoRec /\ count \in [Files -> Nat] /\ slack \in [Files -> Int]
      /\ uninstaller \in BOOLEAN
  BY <1>1, NewestType DEF TypeInv, CountType, UndoType
<1> DEFINE k == One(Holds(Newest, f) /\ ~CountedInStep2(Newest))
<1>3. Owed(f)' = Owed(f) - k /\ Owed(f) >= k
  BY <1>1, OwedFront
<1>4. Holds(Newest, f) /\ ~CountedInStep2(Newest) => count[f] >= 1
  BY <1>3, OwedCounts, BalanceType DEF One
<1>5. \/ slack'[f] = slack[f] /\ count'[f] = count[f] - k
      \/ slack'[f] = slack[f] + k /\ count'[f] = count[f]
  <2>1. CASE UndoDir
    <3>1. ~Holds(Newest, f) /\ UNCHANGED <<count, slack>>
      BY <2>1 DEF UndoDir, TakeNewest, Holds
    <3> QED
      BY <1>2, <3>1 DEF One
  <2>2. CASE UndoCount
    <3>1. Newest.typ = "count" /\ (Holds(Newest, f) <=> Newest.file = f) /\ ~CountedInStep2(Newest)
      BY <2>2 DEF UndoCount, TakeNewest, Holds, CountedInStep2
    <3>2. \/ count' = Decremented(Newest.file) /\ slack' = slack
          \/ count' = count /\ slack' = [slack EXCEPT ![Newest.file] = @ + 1]
      BY <2>2 DEF UndoCount
    <3> QED
      BY <1>2, <1>4, <3>1, <3>2 DEF One, Decremented
  <2>3. CASE UndoFile \/ UndoFileRaises \/ UndoFileInUse
    <3>1. Newest.typ = "file"
      BY <2>3 DEF UndoFile, UndoFileRaises, UndoFileInUse, TakeNewest
    <3>2. Newest.existed \in BOOLEAN /\ Newest.file \in Files
      BY <1>2, <3>1, RecordKinds
    <3>3. CountedInStep3(Newest) /\ f = Newest.file
            <=> Holds(Newest, f) /\ ~CountedInStep2(Newest)
      BY <1>2, <3>1, <3>2 DEF CountedInStep3, CountedInStep2, Holds
    <3>4. CASE ~CountedInStep3(Newest)
      <4>1. UNCHANGED <<count, slack>>
        BY <2>3, <3>4 DEF UndoFile, UndoFileRaises, UndoFileInUse
      <4> QED
        BY <1>2, <3>3, <3>4, <4>1 DEF One
    <3>5. CASE CountedInStep3(Newest)
      <4>1. \/ count' = Decremented(Newest.file) /\ slack' = slack
            \/ count' = count /\ slack' = [slack EXCEPT ![Newest.file] = @ + 1]
        BY <2>3, <3>5 DEF UndoFile, UndoFileRaises, UndoFileInUse
      <4> QED
        BY <1>2, <1>4, <3>2, <3>3, <3>5, <4>1 DEF One, Decremented
    <3> QED
      BY <3>4, <3>5
  <2> QED
    BY <2>1, <2>2, <2>3
<1>6. k \in {0, 1}
  BY DEF One
<1> HIDE DEF k
<1> QED
  BY <1>1, <1>3, <1>5, <1>6, Release

\* The log is deleted when all in it was given back.
LEMMA BalanceDelete ==
  ASSUME TypeInv, TypeInv', NEW f \in Files, Balance(f), DeleteUninstallDataFiles
  PROVE  Balance(f)'
<1>1. /\ pc = "step3" /\ pc' = "retrydirs" /\ list = <<>> /\ list' = <<>> /\ uninstaller
      /\ dat' = [dat EXCEPT ![app] = NoLog]
      /\ UNCHANGED <<count, slack, app, uninstaller>>
  BY DEF DeleteUninstallDataFiles, undo, history, process
<1>2. dat \in Logs /\ dat' \in Logs /\ app \in Apps
  BY DEF TypeInv, LogType, ProcessType, Logs
<1>3. Owed(f) = 0 /\ Owed(f)' = 0
  <2>1. {i \in DOMAIN list : Holds(list[i], f) /\ ~GivenBack(i)} = {}
    BY <1>1, EmptySeq
  <2>2. {i \in DOMAIN list' : Holds(list'[i], f) /\ ~GivenBack(i)'} = {}
    BY <1>1, EmptySeq
  <2> QED
    BY <2>1, <2>2, FS_EmptySet DEF Owed
<1>4. Records(dat'[app]) = <<>>
  BY <1>1, <1>2 DEF Records, Logs
<1>5. Refs(f)' = Refs(f) - RefsIn(Log(app), f) + 0
  <2>1. \A b \in Apps \ {app} : dat'[b] = dat[b]
    BY <1>1, <1>2 DEF Logs
  <2>2. RefsOf(dat', f) = RefsOf(dat, f) - RefsIn(Records(dat[app]), f) + RefsIn(Records(dat'[app]), f)
    BY <1>2, <2>1, RefsChange
  <2> QED
    BY <1>4, <2>2, RefsAre, RefsAreNext, RefsInEmpty DEF Log
<1>6. Replayed(f) = RefsIn(Log(app), f) /\ Replayed(f)' = 0
  <2>1. Log(app)' = <<>>
    BY <1>1, <1>2, <1>4 DEF Log, Logs
  <2> QED
    BY <1>1, <2>1, RefsInEmpty DEF Replayed
<1> QED
  BY <1>1, <1>3, <1>5, <1>6, BalanceType DEF Balance

\* The ends of processes, and the last directories.
LEMMA BalanceEnd ==
  ASSUME TypeInv, TypeInv', NEW f \in Files, Balance(f),
         EndRollback \/ EndUninstall \/ ProcessDirsNotRemoved
  PROVE  Balance(f)'
<1>1. list = <<>> /\ list' = <<>> /\ UNCHANGED <<count, slack, app, dat>>
  BY DEF EndRollback, EndUninstall, ProcessDirsNotRemoved, EndProcess, TypeInv, Control,
     history, process
<1>2. Owed(f) = 0 /\ Owed(f)' = 0
  <2>1. {i \in DOMAIN list : Holds(list[i], f) /\ ~GivenBack(i)} = {}
    BY <1>1, EmptySeq
  <2>2. {i \in DOMAIN list' : Holds(list'[i], f) /\ ~GivenBack(i)'} = {}
    BY <1>1, EmptySeq
  <2> QED
    BY <2>1, <2>2, FS_EmptySet DEF Owed
<1>3. ~uninstaller \/ Log(app) = <<>>
  BY DEF EndRollback, EndUninstall, ProcessDirsNotRemoved, TypeInv, Control, Log, Records
<1>4. Replayed(f) = 0
  BY <1>3, RefsInEmpty DEF Replayed
<1>5. Replayed(f)' = 0
  <2>1. ~uninstaller' \/ uninstaller' = uninstaller
    BY DEF EndRollback, EndUninstall, ProcessDirsNotRemoved, EndProcess
  <2>2. Log(app)' = Log(app)
    BY <1>1 DEF Log
  <2>3. ~uninstaller' \/ Log(app)' = <<>>
    BY <1>3, <2>1, <2>2
  <2> QED
    BY <2>3, RefsInEmpty DEF Replayed
<1> QED
  BY <1>1, <1>2, <1>4, <1>5, RefsUnchanged, BalanceSame DEF Log

\* A killed installation takes its list with it.
LEMMA BalanceCrash ==
  ASSUME TypeInv, TypeInv', NEW f \in Files, Balance(f), Crash, "uninstall" \notin CrashIn
  PROVE  Balance(f)'
<1>1. /\ ~uninstaller /\ ~uninstaller' /\ list' = <<>> /\ UNCHANGED <<count, app>>
      /\ slack' = [g \in Files |-> count[g] - Refs(g)]
      /\ dat' = [a \in Apps |-> IF dat[a] = Reserved THEN NoLog ELSE dat[a]]
  BY DEF Crash, EndProcess
<1>2. Owed(f)' = 0
  <2>1. {i \in DOMAIN list' : Holds(list'[i], f) /\ ~GivenBack(i)'} = {}
    BY <1>1, EmptySeq
  <2> QED
    BY <2>1, FS_EmptySet DEF Owed
<1>3. Replayed(f) = 0 /\ Replayed(f)' = 0
  BY <1>1 DEF Replayed
<1>4. Refs(f)' = Refs(f)
  <2>1. \A a \in Apps : dat'[a] = dat[a] \/ {dat[a], dat'[a]} \subseteq {NoLog, Reserved}
    BY <1>1
  <2> QED
    BY <2>1, LogsUnchanged, RefsUnchanged
<1> QED
  BY <1>1, <1>2, <1>3, <1>4, BalanceType DEF Balance

\* Every step keeps a file's count in balance with its references.
LEMMA BalanceStep ==
  ASSUME TypeInv, TypeInv', NEW f \in Files, Balance(f), [Next]_vars,
         "uninstall" \notin CrashIn
  PROVE  Balance(f)'
<1>1. CASE UNCHANGED vars
  <2>1. UNCHANGED <<count, slack, list, dat, app, idx, pc, uninstaller>>
    BY <1>1 DEF vars, history, process, undo
  <2>2. Refs(f)' = Refs(f)
    BY <2>1, RefsUnchanged DEF Log
  <2>3. Owed(f)' = Owed(f)
    BY <2>1 DEF Owed, GivenBack, CountedInStep2
  <2>4. Replayed(f)' = Replayed(f)
    BY <2>1 DEF Replayed, Log
  <2> QED
    BY <2>1, <2>2, <2>3, <2>4, BalanceSame
<1>2. CASE \E a \in Apps : StartUninstall(a)
  BY <1>2, BalanceStartUninstall
<1> QED
  BY <1>1, <1>2, BalanceInstall, BalanceShare, BalanceSave, BalanceStep2, BalanceStep3,
     BalanceDelete, BalanceEnd, BalanceCrash DEF Next

\* The counts are in balance initially.
LEMMA BalanceInit ==
  ASSUME Init
  PROVE  CountsBalance
<1> SUFFICES ASSUME NEW f \in Files PROVE Balance(f)
  BY DEF CountsBalance, Balance
<1>1. TypeInv
  BY TypeInit
<1>2. slack = count /\ list = <<>> /\ ~uninstaller /\ dat = [a \in Apps |-> NoLog]
  BY DEF Init
<1>3. Owed(f) = 0
  <2>1. {i \in DOMAIN list : Holds(list[i], f) /\ ~GivenBack(i)} = {}
    BY <1>2, EmptySeq
  <2> QED
    BY <2>1, FS_EmptySet DEF Owed
<1>4. Refs(f) = 0
  <2> DEFINE n == [a \in Apps |-> RefsIn(Records(dat[a]), f)]
  <2>1. \A a \in Apps : n[a] = 0
    BY <1>2, RefsInEmpty DEF Records
  <2>2. n \in [Apps -> Nat] /\ Refs(f) = SumOver(n)
    BY <2>1, RefsAre DEF RefsOf
  <2> HIDE DEF n
  <2> QED
    BY <2>1, <2>2, SumZero
<1>5. Replayed(f) = 0
  BY <1>2 DEF Replayed
<1> QED
  BY <1>1, <1>2, <1>3, <1>4, <1>5, BalanceType DEF Balance

\* Every reference is accounted for in every state, not only between
\* sessions: by a log, by a record that is still to be undone or saved, or by
\* `slack`.  An uninstaller that is killed breaks this, and only it.
THEOREM CountsBalanced ==
  "uninstall" \notin CrashIn => (Spec => []CountsBalance)
<1>1. ASSUME "uninstall" \notin CrashIn PROVE Spec => []CountsBalance
  <2>1. TypeInv /\ CountsBalance /\ [Next]_vars => CountsBalance'
    <3> SUFFICES ASSUME TypeInv, CountsBalance, [Next]_vars PROVE CountsBalance'
      OBVIOUS
    <3>1. TypeInv'
      BY TypeStep
    <3>2. \A f \in Files : Balance(f)
      BY DEF CountsBalance, Balance
    <3>3. \A f \in Files : Balance(f)'
      BY <1>1, <3>1, <3>2, BalanceStep
    <3> QED
      BY <3>3 DEF CountsBalance, Balance
  <2> QED
    BY <2>1, BalanceInit, TypesKept, PTL DEF Spec
<1> QED
  BY <1>1

\* No reference of a shared file is leaked by a session, whatever it was:
\* retried, ignored, cancelled, appended to a log, rolled back, uninstalled.
THEOREM NoReferencesAreLeaked ==
  "uninstall" \notin CrashIn => (Spec => []NoReferencesLeaked)
<1>1. ASSUME "uninstall" \notin CrashIn PROVE Spec => []NoReferencesLeaked
  <2>1. TypeInv /\ CountsBalance => NoReferencesLeaked
    <3> SUFFICES ASSUME TypeInv, CountsBalance, pc = "idle", NEW f \in Files
                 PROVE  count[f] = Refs(f) + slack[f]
      BY DEF NoReferencesLeaked
    <3>1. list = <<>> /\ ~uninstaller
      BY DEF TypeInv, Control
    <3>2. Owed(f) = 0
      <4>1. {i \in DOMAIN list : Holds(list[i], f) /\ ~GivenBack(i)} = {}
        BY <3>1, EmptySeq
      <4> QED
        BY <4>1, FS_EmptySet DEF Owed
    <3>3. Replayed(f) = 0
      BY <3>1 DEF Replayed
    <3> QED
      BY <3>2, <3>3, BalanceType DEF CountsBalance
  <2>2. Spec => []CountsBalance
    BY <1>1, CountsBalanced
  <2> QED
    BY <2>1, <2>2, TypesKept, PTL
<1> QED
  BY <1>1

-----------------------------------------------------------------------------
(* Who refers to a shared file.                                            *)

SharedConsistently ==
  \A a, b \in Apps : \A i \in DOMAIN Entries[a], j \in DOMAIN Entries[b] :
    Entries[a][i].file = Entries[b][j].file =>
      ("shared" \in Entries[a][i].opts <=> "shared" \in Entries[b][j].opts)
Shared(f) == \E a \in Apps : Flagged(a, f, "shared")
\* Records are of entries of the application.
FromEntry(rec, a) ==
  /\ rec.typ = "file" => \E e \in EntryOf(a, rec.file) : e.opts = rec.opts
  /\ rec.typ = "count" => Flagged(a, rec.file, "shared")
LogsFromEntries ==
  /\ \A a \in Apps : \A i \in DOMAIN Log(a) : FromEntry(Log(a)[i], a)
  /\ \A i \in DOMAIN list : FromEntry(list[i], app)
\* The record that Step 2 kept is the last reference.
LastReference ==
  pc \in UndoPhases => \A i \in DOMAIN list :
    CountedInStep2(list[i]) /\ GivenBack(i) => count[list[i].file] = 0
NobodyElse(f) ==
  /\ \A a \in Apps : (a = app /\ uninstaller) \/ RefsIn(Log(a), f) = 0
  /\ Shared(f) => slack[f] <= 0
DeletesPending ==
  \A j \in DOMAIN pend : pend[j].op = "delete" =>
     /\ NobodyElse(pend[j].file)
     /\ Shared(pend[j].file) => Owed(pend[j].file) = 0
     /\ pc \in InstallPhases => EntryOf(app, pend[j].file) = {}
KeptInv == LogsFromEntries /\ LastReference /\ DeletesPending

\* A sequence of records that are all in R.
LEMMA RecordsIn ==
  ASSUME NEW s \in Seq(UndoRec), NEW R \in SUBSET UndoRec
  PROVE  s \in Seq(R) <=> \A i \in DOMAIN s : s[i] \in R
<1>1. DOMAIN s = 1..Len(s) /\ Len(s) \in Nat
  BY LenProperties
<1>2. ASSUME \A i \in DOMAIN s : s[i] \in R PROVE s \in Seq(R)
  <2>1. s \in [1..Len(s) -> R]
    BY <1>1, <1>2
  <2> QED
    BY <1>1, <2>1
<1>3. ASSUME s \in Seq(R) PROVE \A i \in DOMAIN s : s[i] \in R
  BY <1>3
<1> QED
  BY <1>2, <1>3

\* How a log changes: it stays, it goes, or the list is appended to it.
LEMMA LogsChange ==
  ASSUME TypeInv, [Next]_vars
  PROVE  \/ \A a \in Apps : Log(a)' = Log(a)
         \/ DeleteUninstallDataFiles /\ \A a \in Apps : Log(a)' = IF a = app THEN <<>> ELSE Log(a)
         \/ SaveLog /\ \A a \in Apps : Log(a)' = IF a = app THEN Log(app) \o list ELSE Log(a)
<1>0. /\ dat \in [Apps -> {NoLog, Reserved} \cup Seq(UndoRec)] /\ app \in Apps
      /\ \A a \in Apps : Log(a) \in Seq(UndoRec)
      /\ list \in Seq(UndoRec) /\ Control
  BY RecordsType DEF TypeInv, ProcessType, LogType, Log
<1>1. CASE UNCHANGED dat
  BY <1>1 DEF Log
<1>2. CASE SaveLog
  <2>1. Log(app) \o list \in Seq(UndoRec)
    BY <1>0, ConcatFacts
  <2>2. \A a \in Apps : Log(a)' = IF a = app THEN Log(app) \o list ELSE Log(a)
    BY <1>0, <1>2, <2>1, RecordsType DEF SaveLog, Log
  <2> QED
    BY <1>2, <2>2
<1>3. CASE DeleteUninstallDataFiles
  BY <1>0, <1>3 DEF DeleteUninstallDataFiles, Log, Records
<1>4. CASE GenerateUninstallInfoFilename \/ Rollback \/ Crash
  <2>1. \A a \in Apps : dat'[a] = dat[a] \/ {dat[a], dat'[a]} \subseteq {NoLog, Reserved}
    BY <1>0, <1>4 DEF GenerateUninstallInfoFilename, Rollback, Crash, Control
  <2> QED
    BY <2>1, LogsUnchanged
<1> QED
  BY <1>1, <1>2, <1>3, <1>4, DatFrame

\* What an entry records is about its file and has its flags.
OfCurrent(r) ==
  \/ r.typ = "dir"
  \/ /\ pc \in EntryPhases /\ r.file = Cur.file
     /\ r.typ = "file" => r.opts = Cur.opts
     /\ r.typ = "count" => Opt("shared")

\* How the list of records changes, and whose it is.
LEMMA ListChanges ==
  ASSUME TypeInv, [Next]_vars
  PROVE  \/ UNCHANGED <<list, app>>
         \/ list' = <<>>
         \/ \E a \in Apps : StartUninstall(a)
         \/ /\ pc \in InstallPhases /\ pc' \in InstallPhases /\ app' = app
            /\ \E r \in UndoRec : OfCurrent(r) /\ list' = Append(list, r)
         \/ list # <<>> /\ list' = Front(list) /\ app' = app /\ pc = "step3" /\ pc' = "step3"
         \/ Step2 /\ idx \in 1..Len(list) /\ list' = RemoveAt(list, idx) /\ app' = app
<1>1. CASE \E a \in Apps : StartInstall(a)
  BY <1>1 DEF StartInstall
<1>2. CASE GenerateUninstallInfoFilename \/ Rollback \/ DeleteUninstallDataFiles
           \/ ProcessDirsNotRemoved \/ Restart
  BY <1>2 DEF GenerateUninstallInfoFilename, Rollback, DeleteUninstallDataFiles,
              ProcessDirsNotRemoved, Restart, process
<1>3. CASE SaveLog \/ Crash
  BY <1>3 DEF SaveLog, Crash
<1>4. CASE CreateDirs
  <2>1. Wanted(app)[idx].dir \in Dirs
    BY <1>4, AskedDir DEF CreateDirs
  <2>2. \E e \in Dirs : list' = list \/ list' = Append(list, DirRec(e))
    BY <1>4, <2>1, MadeDir DEF CreateDirs
  <2>3. list' = list \/ \E r \in UndoRec : OfCurrent(r) /\ list' = Append(list, r)
    BY <2>2, RecordKinds DEF OfCurrent
  <2> QED
    BY <1>4, <2>3 DEF CreateDirs, InstallPhases
<1>5. CASE ExtractToTemp
  <2>1. DirOf[Cur.file] \in Dirs
    BY <1>5, AskedDir DEF ExtractToTemp
  <2>2. \E e \in Dirs : list' = list \/ list' = Append(list, DirRec(e))
    BY <1>5, <2>1, MadeDir DEF ExtractToTemp
  <2>3. list' = list \/ \E r \in UndoRec : OfCurrent(r) /\ list' = Append(list, r)
    BY <2>2, RecordKinds DEF OfCurrent
  <2> QED
    BY <1>5, <2>3 DEF ExtractToTemp, InstallPhases, EntryPhases, process
<1>6. CASE MoveIntoPlace \/ ReplaceOnRestart \/ ShareEntry
  <2>1. /\ pc \in EntryPhases /\ Cur.file \in Files /\ Cur.opts \in SUBSET FileOptions
        /\ existed \in BOOLEAN /\ tmp \in Temp \cup {NoTmp}
    BY <1>6, CurType DEF MoveIntoPlace, ReplaceOnRestart, ShareEntry, EntryPhases, TypeInv,
       EntryType
  <2>2. \A t \in {NoTmp, tmp} : /\ FileRec(Cur.file, t, existed, Cur.opts) \in UndoRec
                                /\ OfCurrent(FileRec(Cur.file, t, existed, Cur.opts))
    BY <2>1, RecordKinds DEF OfCurrent
  <2>3. CountRec(Cur.file) \in UndoRec /\ (Opt("shared") => OfCurrent(CountRec(Cur.file)))
    BY <2>1, RecordKinds DEF OfCurrent
  <2>4. list' = list \/ \E r \in UndoRec : OfCurrent(r) /\ list' = Append(list, r)
    BY <1>6, <2>2, <2>3 DEF MoveIntoPlace, ReplaceOnRestart, ShareEntry, RecordInstalled
  <2> QED
    BY <1>6, <2>4 DEF MoveIntoPlace, ReplaceOnRestart, ShareEntry, InstallPhases, EntryPhases,
       process
<1>7. CASE Step2
  <2>1. idx \in 1..Len(list)
    BY <1>7 DEF Step2, TypeInv, ProcessType, Control
  <2> QED
    BY <1>7, <2>1 DEF Step2
<1>8. CASE UndoDir \/ UndoCount \/ UndoFile \/ UndoFileRaises \/ UndoFileInUse
  BY <1>8 DEF UndoDir, UndoCount, UndoFile, UndoFileRaises, UndoFileInUse, TakeNewest, process
<1>9. CASE UNCHANGED vars
  BY <1>9 DEF vars, process
<1>10. CASE BeginEntry \/ DeleteExisting \/ FinishEntry \/ EntryRaises \/ AskRetry
           \/ AskIgnore \/ Cancel \/ EndStep2 \/ EndRollback \/ EndUninstall
  BY <1>10 DEF BeginEntry, DeleteExisting, FinishEntry, EntryRaises, AskRetry,
              AskIgnore, Cancel, EndStep2, EndRollback, EndUninstall, process, EndProcess
<1> QED
  BY <1>1, <1>2, <1>3, <1>4, <1>5, <1>6, <1>7, <1>8, <1>9, <1>10 DEF Next

\* The records that can come from an application's entries.
EntryRecs(a) == {r \in UndoRec : FromEntry(r, a)}

\* The current entry's records do.
LEMMA CurrentIsEntry ==
  ASSUME TypeInv, NEW r \in UndoRec, OfCurrent(r)
  PROVE  r \in EntryRecs(app)
<1>1. CASE r.typ = "dir"
  BY <1>1 DEF EntryRecs, FromEntry
<1>2. CASE r.typ # "dir"
  <2>1. pc \in EntryPhases /\ r.file = Cur.file /\ idx \in 1..Len(Entries[app]) /\ app \in Apps
    BY <1>2, CurType DEF OfCurrent
  <2>2. Entries[app] \in Seq([file : Files, opts : SUBSET FileOptions])
    BY <2>1, TransactionAssumption
  <2>3. idx \in DOMAIN Entries[app]
    BY <2>1, <2>2
  <2>4. Cur \in EntryOf(app, r.file)
    BY <2>1, <2>3 DEF EntryOf, Cur
  <2>5. r.typ = "file" => \E e \in EntryOf(app, r.file) : e.opts = r.opts
    BY <1>2, <2>4 DEF OfCurrent
  <2>6. r.typ = "count" => Flagged(app, r.file, "shared")
    BY <1>2, <2>4 DEF OfCurrent, Flagged, Opt
  <2> QED
    BY <2>5, <2>6 DEF EntryRecs, FromEntry
<1> QED
  BY <1>1, <1>2

\* LogsFromEntries, as a type of logs.
LEMMA EntryLogs ==
  ASSUME TypeInv
  PROVE  LogsFromEntries <=> /\ \A a \in Apps : Log(a) \in Seq(EntryRecs(a))
                             /\ list \in Seq(EntryRecs(app))
<1>1. list \in Seq(UndoRec) /\ \A a \in Apps : Log(a) \in Seq(UndoRec)
  BY RecordsType DEF TypeInv, LogType, Log
<1>2. \A a : EntryRecs(a) \in SUBSET UndoRec
  BY DEF EntryRecs
<1>3. /\ \A i \in DOMAIN list : list[i] \in UndoRec
      /\ \A a \in Apps : \A i \in DOMAIN Log(a) : Log(a)[i] \in UndoRec
  BY <1>1
<1>4. /\ \A a \in Apps : Log(a) \in Seq(EntryRecs(a))
                         <=> \A i \in DOMAIN Log(a) : Log(a)[i] \in EntryRecs(a)
      /\ list \in Seq(EntryRecs(app)) <=> \A i \in DOMAIN list : list[i] \in EntryRecs(app)
  BY <1>1, <1>2, RecordsIn
<1> QED
  BY <1>3, <1>4 DEF LogsFromEntries, EntryRecs

\* The same, in the next state.
LEMMA EntryLogsNext ==
  TypeInv' => (LogsFromEntries' <=> /\ \A a \in Apps : Log(a)' \in Seq(EntryRecs(a))
                                    /\ list' \in Seq(EntryRecs(app')))
<1>1. TypeInv => (LogsFromEntries <=> /\ \A a \in Apps : Log(a) \in Seq(EntryRecs(a))
                                      /\ list \in Seq(EntryRecs(app)))
  BY EntryLogs
<1>2. TypeInv' => (LogsFromEntries <=> /\ \A a \in Apps : Log(a) \in Seq(EntryRecs(a))
                                       /\ list \in Seq(EntryRecs(app)))'
  BY <1>1, PTL
<1> QED
  BY <1>2

\* Records stay with the application whose entries they are from.
LEMMA EntryLogsStep ==
  ASSUME TypeInv, TypeInv', LogsFromEntries, [Next]_vars
  PROVE  LogsFromEntries'
<1>0. /\ \A a \in Apps : Log(a) \in Seq(EntryRecs(a))
      /\ list \in Seq(EntryRecs(app)) /\ app \in Apps
  BY EntryLogs DEF TypeInv, ProcessType
<1>1. \A a \in Apps : Log(a)' \in Seq(EntryRecs(a))
  <2>1. CASE \A a \in Apps : Log(a)' = Log(a)
    BY <1>0, <2>1
  <2>2. CASE \A a \in Apps : Log(a)' = IF a = app THEN <<>> ELSE Log(a)
    BY <1>0, <2>2, EmptySeq
  <2>3. CASE \A a \in Apps : Log(a)' = IF a = app THEN Log(app) \o list ELSE Log(a)
    <3>1. Log(app) \o list \in Seq(EntryRecs(app))
      BY <1>0, ConcatFacts
    <3> QED
      BY <1>0, <2>3, <3>1
  <2> QED
    BY <2>1, <2>2, <2>3, LogsChange
<1>2. list' \in Seq(EntryRecs(app'))
  <2>1. CASE UNCHANGED <<list, app>>
    BY <1>0, <2>1
  <2>2. CASE list' = <<>>
    BY <2>2, EmptySeq
  <2>3. CASE \E a \in Apps : StartUninstall(a)
    BY <1>0, <2>3 DEF StartUninstall
  <2>4. CASE app' = app /\ \E r \in UndoRec : OfCurrent(r) /\ list' = Append(list, r)
    BY <1>0, <2>4, CurrentIsEntry, AppendFacts
  <2>5. CASE list # <<>> /\ list' = Front(list) /\ app' = app
    BY <1>0, <2>5, FrontFacts
  <2>6. CASE idx \in 1..Len(list) /\ list' = RemoveAt(list, idx) /\ app' = app
    BY <1>0, <2>6, RemoveAtFacts
  <2> QED
    BY <2>1, <2>2, <2>3, <2>4, <2>5, <2>6, ListChanges
<1> QED
  BY <1>1, <1>2, EntryLogsNext

\* With no count left there is no reference but those being replayed.
LEMMA NoCountNobody ==
  ASSUME TypeInv, NEW f \in Files, Balance(f), slack[f] >= 0, count[f] = 0
  PROVE  NobodyElse(f) /\ Owed(f) = 0
<1>1. slack[f] = 0 /\ Owed(f) = 0 /\ Refs(f) = Replayed(f)
  BY BalanceType DEF Balance
<1>2. dat \in Logs /\ app \in Apps /\ Refs(f) = RefsOf(dat, f)
  BY RefsAre DEF TypeInv, LogType, ProcessType, Logs
<1>3. ASSUME NEW a \in Apps, ~(a = app /\ uninstaller) PROVE RefsIn(Log(a), f) = 0
  <2>1. CASE ~uninstaller
    <3>1. RefsOf(dat, f) = 0
      BY <1>1, <1>2, <2>1 DEF Replayed
    <3>2. RefsIn(Records(dat[a]), f) \in Nat /\ RefsIn(Records(dat[a]), f) <= 0
      BY <1>2, <3>1, RefsAtLeast
    <3> QED
      BY <3>2 DEF Log
  <2>2. CASE uninstaller /\ a # app
    <3> DEFINE e == [dat EXCEPT ![app] = NoLog]
    <3>1. e \in Logs /\ e[app] = NoLog /\ \A b \in Apps \ {app} : e[b] = dat[b]
      BY <1>2 DEF Logs
    <3> HIDE DEF e
    <3>2. RefsIn(Records(e[app]), f) = 0
      BY <3>1, RefsInEmpty DEF Records
    <3>3. RefsOf(e, f) = RefsOf(dat, f) - RefsIn(Records(dat[app]), f) + RefsIn(Records(e[app]), f)
      BY <1>2, <3>1, RefsChange
    <3>4. RefsOf(dat, f) = RefsIn(Records(dat[app]), f) /\ RefsOf(dat, f) \in Nat
      BY <1>1, <1>2, <2>2, RefsAtLeast DEF Replayed, Log
    <3>5. RefsOf(e, f) = 0
      BY <3>2, <3>3, <3>4
    <3>6. RefsIn(Records(e[a]), f) \in Nat /\ RefsIn(Records(e[a]), f) <= 0
      BY <3>1, <3>5, RefsAtLeast
    <3> QED
      BY <2>2, <3>1, <3>6 DEF Log
  <2> QED
    BY <1>3, <2>1, <2>2
<1> QED
  BY <1>1, <1>3 DEF NobodyElse

\* No log refers to a file that is not shared.
LEMMA UnsharedNobody ==
  ASSUME TypeInv, LogsFromEntries, SharedConsistently, NEW f,
         NEW e \in EntryOf(app, f), "shared" \notin e.opts
  PROVE  NobodyElse(f) /\ ~Shared(f)
<1>0. app \in Apps
  BY DEF TypeInv, ProcessType
<1>1. PICK i \in DOMAIN Entries[app] : Entries[app][i].file = f /\ e = Entries[app][i]
  BY DEF EntryOf
<1>2. ASSUME NEW a \in Apps, NEW x \in EntryOf(a, f) PROVE "shared" \notin x.opts
  <2>1. PICK j \in DOMAIN Entries[a] : Entries[a][j].file = f /\ x = Entries[a][j]
    BY DEF EntryOf
  <2> QED
    BY <1>0, <1>1, <2>1 DEF SharedConsistently
<1>3. ~Shared(f)
  BY <1>2 DEF Shared, Flagged
<1>4. ASSUME NEW a \in Apps PROVE RefsIn(Log(a), f) = 0
  <2>1. Log(a) \in Seq(UndoRec)
    BY RecordsType DEF TypeInv, LogType, Log
  <2>2. ASSUME NEW k \in DOMAIN Log(a), Holds(Log(a)[k], f) PROVE FALSE
    <3>1. FromEntry(Log(a)[k], a)
      BY DEF LogsFromEntries
    <3> QED
      BY <1>2, <2>2, <3>1 DEF Holds, FromEntry, Flagged
  <2> QED
    BY <2>1, <2>2, RefsInType
<1> QED
  BY <1>3, <1>4 DEF NobodyElse

\* A destination file that goes in Step 3 is nobody else's.
LEMMA GoingIsNobodys ==
  ASSUME TypeInv, CountsBalance, LogsFromEntries, LastReference, SharedConsistently,
         pc = "step3", list # <<>>, Newest.typ = "file", DestGoes(Newest)
  PROVE  /\ Newest.file \in Files /\ NobodyElse(Newest.file)
         /\ Shared(Newest.file) => Owed(Newest.file) = 0
<1>1. Newest \in UndoRec /\ Newest = list[Len(list)] /\ Len(list) \in DOMAIN list
  BY NewestType
<1>2. Newest.file \in Files
  BY <1>1, RecordKinds
<1>3. CASE "shared" \in Newest.opts
  <2>1. CountedInStep2(Newest) /\ GivenBack(Len(list))
    BY <1>1, <1>3 DEF DestGoes, CountedInStep2, GivenBack
  <2>2. count[Newest.file] = 0
    BY <1>1, <2>1 DEF LastReference, UndoPhases
  <2>3. Balance(Newest.file) /\ slack[Newest.file] >= 0
    BY <1>2 DEF CountsBalance, Balance
  <2> QED
    BY <1>2, <2>2, <2>3, NoCountNobody
<1>4. CASE "shared" \notin Newest.opts
  <2>1. FromEntry(Newest, app)
    BY <1>1 DEF LogsFromEntries
  <2>2. PICK e \in EntryOf(app, Newest.file) : e.opts = Newest.opts
    BY <2>1 DEF FromEntry
  <2> QED
    BY <1>2, <1>4, <2>2, UnsharedNobody
<1> QED
  BY <1>3, <1>4

\* The last reference stays the last.
LEMMA LastReferenceStep ==
  ASSUME TypeInv, TypeInv', LastReference, [Next]_vars
  PROVE  LastReference'
<1> SUFFICES ASSUME pc' \in UndoPhases, NEW i \in DOMAIN list',
                    CountedInStep2(list[i])', GivenBack(i)'
             PROVE  count'[list'[i].file] = 0
  BY DEF LastReference
<1>0. /\ list \in Seq(UndoRec) /\ idx \in Nat /\ count \in [Files -> Nat]
      /\ list' \in Seq(UndoRec) /\ list'[i] \in UndoRec
      /\ DOMAIN list = 1..Len(list) /\ Len(list) \in Nat
  BY LenProperties DEF TypeInv, LogType, ProcessType, CountType
<1>1. list'[i].typ = "file" /\ list'[i].file \in Files
  BY <1>0, RecordKinds DEF CountedInStep2
<1> USE DEF UndoPhases
<1>2. CASE UNCHANGED vars
  <2>1. CountedInStep2(list[i]) /\ GivenBack(i) /\ UNCHANGED <<pc, list, count>>
    BY <1>2 DEF vars, CountedInStep2, GivenBack, process, undo
  <2> QED
    BY <2>1 DEF LastReference
<1>3. CASE (\E a \in Apps : StartUninstall(a)) \/ Rollback
  <2>1. pc' = "step2" /\ idx' = Len(list')
    BY <1>3 DEF StartUninstall, Rollback
  <2> QED
    BY <1>0, <2>1 DEF GivenBack
<1>4. CASE EndStep2
  <2>1. CountedInStep2(list[i]) /\ pc = "step2" /\ idx = 0 /\ UNCHANGED <<count, list>>
    BY <1>4 DEF EndStep2, CountedInStep2, undo
  <2>2. GivenBack(i)
    BY <1>0, <2>1 DEF GivenBack
  <2> QED
    BY <2>1, <2>2 DEF LastReference
<1>5. CASE Step2
  <2>1. /\ pc = "step2" /\ pc' = "step2" /\ idx \in 1..Len(list) /\ idx' = idx - 1
        /\ uninstaller' = uninstaller
    BY <1>5 DEF Step2, undo, TypeInv, Control, ProcessType
  <2> DEFINE rec == list[idx]
  <2>2. rec \in UndoRec /\ (CountedInStep2(rec) => rec.file \in Files)
    BY <2>1, NewestType, RecordKinds DEF CountedInStep2
  <2>3. \/ UNCHANGED <<count, list>> /\ ~CountedInStep2(rec)
        \/ /\ CountedInStep2(rec) /\ count' = Decremented(rec.file)
           /\ ReachesZero(rec.file) /\ list' = list
        \/ /\ CountedInStep2(rec) /\ list' = RemoveAt(list, idx)
           /\ count' = count \/ count' = Decremented(rec.file)
    BY <1>5 DEF Step2, MayKeepForStep3
  <2>4. /\ i > idx - 1 /\ CountedInStep2(list'[i])
    BY <2>1 DEF GivenBack, CountedInStep2
  <2>5. CASE UNCHANGED <<count, list>> /\ ~CountedInStep2(rec)
    <3>1. i # idx
      BY <2>4, <2>5
    <3>2. GivenBack(i)
      BY <1>0, <2>1, <2>4, <2>5, <3>1 DEF GivenBack
    <3> QED
      BY <2>1, <2>4, <2>5, <3>2 DEF LastReference
  <2>6. CASE /\ CountedInStep2(rec) /\ count' = Decremented(rec.file)
             /\ ReachesZero(rec.file) /\ list' = list
    <3>1. CASE list[i].file = rec.file
      BY <1>0, <2>2, <2>6, <3>1 DEF Decremented, ReachesZero
    <3>2. CASE list[i].file # rec.file
      <4>1. i # idx
        BY <3>2
      <4>2. GivenBack(i)
        BY <1>0, <2>1, <2>4, <2>6, <4>1 DEF GivenBack
      <4>3. count[list[i].file] = 0
        BY <2>1, <2>4, <2>6, <4>2 DEF LastReference
      <4> QED
        BY <1>0, <1>1, <2>6, <3>2, <4>3 DEF Decremented
    <3> QED
      BY <3>1, <3>2
  <2>7. CASE /\ CountedInStep2(rec) /\ list' = RemoveAt(list, idx)
             /\ count' = count \/ count' = Decremented(rec.file)
    <3>1. /\ DOMAIN list' = 1..(Len(list) - 1)
          /\ \A k \in 1..(Len(list) - 1) : list'[k] = IF k < idx THEN list[k] ELSE list[k + 1]
      BY <1>0, <2>1, <2>7, RemoveAtFacts
    <3>2. i \in Nat /\ i + 1 \in DOMAIN list /\ list'[i] = list[i + 1] /\ i + 1 > idx
      BY <1>0, <2>1, <2>4, <3>1
    <3>3. GivenBack(i + 1)
      BY <2>1, <2>4, <3>2 DEF GivenBack
    <3>4. count[list'[i].file] = 0
      BY <2>1, <2>4, <3>2, <3>3 DEF LastReference
    <3> QED
      BY <1>0, <1>1, <2>7, <3>4 DEF Decremented
  <2> QED
    BY <2>3, <2>5, <2>6, <2>7
<1>6. CASE UndoDir \/ UndoCount \/ UndoFile \/ UndoFileRaises \/ UndoFileInUse
  <2>1. /\ pc = "step3" /\ pc' = "step3" /\ list # <<>> /\ list' = Front(list)
        /\ uninstaller' = uninstaller
    BY <1>6 DEF UndoDir, UndoCount, UndoFile, UndoFileRaises, UndoFileInUse, TakeNewest
  <2>2. count' = count \/ count' = Decremented(Newest.file)
    BY <1>6 DEF UndoDir, UndoCount, UndoFile, UndoFileRaises, UndoFileInUse
  <2>3. i \in DOMAIN list /\ list'[i] = list[i]
    <3>1. DOMAIN list' = 1..(Len(list) - 1) /\ \A k \in 1..(Len(list) - 1) : list'[k] = list[k]
      BY <1>0, <2>1, FrontFacts
    <3> QED
      BY <1>0, <3>1
  <2>4. count[list'[i].file] = 0
    BY <2>1, <2>3 DEF LastReference, GivenBack, CountedInStep2
  <2> QED
    BY <1>0, <1>1, <2>2, <2>4 DEF Decremented
<1>7. CASE (\E a \in Apps : StartInstall(a)) \/ CreateDirs \/ GenerateUninstallInfoFilename
           \/ BeginEntry \/ ExtractToTemp \/ DeleteExisting \/ MoveIntoPlace
  BY <1>7 DEF StartInstall, CreateDirs, GenerateUninstallInfoFilename, BeginEntry, ExtractToTemp,
     DeleteExisting, MoveIntoPlace
<1>8. CASE ReplaceOnRestart \/ ShareEntry \/ FinishEntry \/ EntryRaises \/ AskRetry \/ AskIgnore
           \/ Cancel \/ SaveLog \/ EndRollback \/ EndUninstall \/ Restart \/ Crash
           \/ DeleteUninstallDataFiles \/ ProcessDirsNotRemoved
  BY <1>8 DEF ReplaceOnRestart, ShareEntry, FinishEntry, EntryRaises, AskRetry, AskIgnore,
     Cancel, SaveLog, EndRollback, EndUninstall, Restart, Crash, EndProcess, NextEntry,
     DeleteUninstallDataFiles, ProcessDirsNotRemoved
<1> QED
  BY <1>2, <1>3, <1>4, <1>5, <1>6, <1>7, <1>8 DEF Next

\* Nothing is owed for an empty list.
LEMMA OwedNothing ==
  ASSUME NEW f, list' = <<>>
  PROVE  Owed(f)' = 0
<1>1. {i \in DOMAIN list' : Holds(list'[i], f) /\ ~GivenBack(i)'} = {}
  BY EmptySeq
<1> QED
  BY <1>1, FS_EmptySet DEF Owed

\* Undoing owes less and less, and what it takes from the counts or adds to
\* slack was owed.
LEMMA OwedLess ==
  ASSUME TypeInv, TypeInv', NEW f \in Files,
         \/ Rollback \/ Step2 \/ EndStep2
         \/ UndoDir \/ UndoCount \/ UndoFile \/ UndoFileRaises \/ UndoFileInUse
  PROVE  /\ Owed(f)' <= Owed(f)
         /\ slack'[f] = slack[f] \/ Owed(f) > 0
<1>0. Owed(f) \in Nat /\ list \in Seq(UndoRec) /\ slack \in [Files -> Int]
  BY OwedType DEF TypeInv, LogType, CountType
<1>1. CASE Rollback \/ EndStep2
  <2>1. UNCHANGED <<list, slack>>
    BY <1>1 DEF Rollback, EndStep2, history
  <2>2. \A i \in DOMAIN list : i > 0 /\ ~(i > Len(list))
    BY <1>0
  <2>3. \A i \in DOMAIN list : GivenBack(i)' = GivenBack(i)
    <3>1. CASE Rollback
      BY <2>1, <2>2, <3>1 DEF Rollback, GivenBack
    <3>2. CASE EndStep2
      BY <2>1, <2>2, <3>2 DEF EndStep2, GivenBack, CountedInStep2, undo
    <3> QED
      BY <1>1, <3>1, <3>2
  <2> QED
    BY <1>0, <2>1, <2>3, OwedStays
<1>2. CASE Step2
  <2>1. /\ pc = "step2" /\ pc' = "step2" /\ idx > 0 /\ idx' = idx - 1
        /\ uninstaller' = uninstaller
    BY <1>2 DEF Step2, undo
  <2> DEFINE rec == list[idx]
             k == One(Holds(rec, f) /\ CountedInStep2(rec))
  <2>2. \/ list' = list /\ slack' = slack
        \/ list' = RemoveAt(list, idx) /\ CountedInStep2(rec)
           /\ (slack' = slack \/ slack' = [slack EXCEPT ![rec.file] = @ + 1])
    BY <1>2 DEF Step2
  <2>3. list' = list => Owed(f)' = Owed(f) - k /\ Owed(f) >= k
    BY <2>1, OwedKept
  <2>4. list' = RemoveAt(list, idx) /\ CountedInStep2(rec)
          => Owed(f)' = Owed(f) - k /\ Owed(f) >= k
    BY <2>1, OwedRemoved DEF One
  <2>5. k \in {0, 1} /\ (k = 1 <=> Holds(rec, f) /\ CountedInStep2(rec))
    BY DEF One
  <2>6. CountedInStep2(rec) /\ rec.file = f => Holds(rec, f)
    BY DEF CountedInStep2, Holds
  <2>7. slack'[f] = slack[f] \/ k = 1
    BY <1>0, <2>2, <2>5, <2>6
  <2> HIDE DEF rec, k
  <2> QED
    BY <1>0, <2>2, <2>3, <2>4, <2>5, <2>7
<1>3. CASE UndoDir \/ UndoCount \/ UndoFile \/ UndoFileRaises \/ UndoFileInUse
  <2>1. /\ pc = "step3" /\ pc' = "step3" /\ list # <<>> /\ list' = Front(list)
        /\ uninstaller' = uninstaller
    BY <1>3 DEF UndoDir, UndoCount, UndoFile, UndoFileRaises, UndoFileInUse, TakeNewest
  <2> DEFINE k == One(Holds(Newest, f) /\ ~CountedInStep2(Newest))
  <2>2. Owed(f)' = Owed(f) - k /\ Owed(f) >= k
    BY <2>1, OwedFront
  <2>3. slack'[f] = slack[f] \/ (Holds(Newest, f) /\ ~CountedInStep2(Newest))
    <3>1. CASE UndoDir \/ UndoFile \/ UndoFileInUse
      BY <3>1 DEF UndoDir, UndoFile, UndoFileInUse
    <3>2. CASE UndoCount
      <4>1. Newest.typ = "count"
        BY <3>2 DEF UndoCount, TakeNewest
      <4> QED
        BY <1>0, <3>2, <4>1 DEF UndoCount, Holds, CountedInStep2
    <3>3. CASE UndoFileRaises
      <4>1. Newest.typ = "file" /\ CountedInStep3(Newest)
        BY <3>3 DEF UndoFileRaises, TakeNewest
      <4>2. slack' = [slack EXCEPT ![Newest.file] = @ + 1]
        BY <3>3 DEF UndoFileRaises
      <4> QED
        BY <1>0, <4>1, <4>2 DEF CountedInStep3, Holds, CountedInStep2
    <3> QED
      BY <1>3, <3>1, <3>2, <3>3
  <2>4. k \in {0, 1} /\ (k = 1 <=> Holds(Newest, f) /\ ~CountedInStep2(Newest))
    BY DEF One
  <2> HIDE DEF k
  <2> QED
    BY <1>0, <2>2, <2>3, <2>4
<1> QED
  BY <1>1, <1>2, <1>3

\* A file whose deletion is pending.
Forsaken(f) ==
  /\ \A a \in Apps : (a = app /\ uninstaller) \/ RefsIn(Log(a), f) = 0
  /\ Shared(f) => slack[f] <= 0 /\ Owed(f) = 0
  /\ pc \in InstallPhases => EntryOf(app, f) = {}

\* What an application without an entry for f records does not hold f.
LEMMA RecordsOfOthers ==
  ASSUME NEW r, NEW a, NEW f, FromEntry(r, a), EntryOf(a, f) = {}
  PROVE  ~Holds(r, f)
BY DEF FromEntry, Holds, Flagged

\* Who replays a log: a change of hands happens when nobody refers to f.
LEMMA HandsChange ==
  ASSUME TypeInv, NEW f \in Files, Forsaken(f), [Next]_vars, "uninstall" \notin CrashIn
  PROVE  \/ UNCHANGED <<app, uninstaller>>
         \/ \A a \in Apps : RefsIn(Log(a), f) = 0
<1>0. Control
  BY DEF TypeInv
<1>1. CASE \E a \in Apps : StartInstall(a) \/ StartUninstall(a)
  BY <1>0, <1>1 DEF StartInstall, StartUninstall, Control, Forsaken
<1>2. CASE SaveLog \/ EndRollback \/ Crash
  <2>1. ~uninstaller
    BY <1>0, <1>2 DEF SaveLog, EndRollback, Crash, Control, InstallPhases
  <2> QED
    BY <2>1 DEF Forsaken
<1>3. CASE EndUninstall
  <2>1. Log(app) = <<>>
    BY <1>0, <1>3 DEF EndUninstall, Control, Log, Records
  <2> QED
    BY <2>1, RefsInEmpty DEF Forsaken
<1>4. CASE UNCHANGED vars \/ CreateDirs \/ GenerateUninstallInfoFilename \/ BeginEntry
           \/ ExtractToTemp \/ DeleteExisting \/ MoveIntoPlace \/ ReplaceOnRestart \/ ShareEntry
           \/ FinishEntry \/ EntryRaises \/ AskRetry \/ AskIgnore \/ Cancel
  BY <1>4 DEF vars, process, undo, CreateDirs, GenerateUninstallInfoFilename, BeginEntry,
     ExtractToTemp, DeleteExisting, MoveIntoPlace, ReplaceOnRestart, ShareEntry,
     FinishEntry, EntryRaises, AskRetry, AskIgnore, Cancel
<1>5. CASE Rollback \/ Step2 \/ EndStep2 \/ UndoDir \/ UndoCount \/ UndoFile \/ UndoFileRaises
           \/ UndoFileInUse \/ DeleteUninstallDataFiles \/ ProcessDirsNotRemoved \/ Restart
  BY <1>5 DEF process, undo, Rollback, Step2, EndStep2, UndoDir, UndoCount, UndoFile,
     UndoFileRaises, UndoFileInUse, TakeNewest, DeleteUninstallDataFiles,
     ProcessDirsNotRemoved, Restart
<1> QED
  BY <1>1, <1>2, <1>3, <1>4, <1>5 DEF Next

\* The phases around an action: installing, undoing, or between the two.
LEMMA PhaseSteps ==
  ASSUME [Next]_vars
  PROVE  \/ \E a \in Apps : StartInstall(a) \/ StartUninstall(a)
         \/ pc' \in InstallPhases => pc \in InstallPhases /\ app' = app
<1>1. CASE UNCHANGED vars \/ CreateDirs \/ GenerateUninstallInfoFilename \/ BeginEntry
           \/ ExtractToTemp \/ DeleteExisting \/ MoveIntoPlace \/ ReplaceOnRestart \/ ShareEntry
           \/ FinishEntry \/ EntryRaises \/ AskRetry \/ AskIgnore \/ Cancel
  BY <1>1 DEF vars, process, undo, CreateDirs, GenerateUninstallInfoFilename, BeginEntry,
     ExtractToTemp, DeleteExisting, MoveIntoPlace, ReplaceOnRestart, ShareEntry,
     FinishEntry, EntryRaises, AskRetry, AskIgnore, Cancel, InstallPhases, EntryPhases
<1>2. CASE Rollback \/ Step2 \/ EndStep2 \/ UndoDir \/ UndoCount \/ UndoFile \/ UndoFileRaises
           \/ UndoFileInUse \/ DeleteUninstallDataFiles \/ ProcessDirsNotRemoved \/ Restart
  BY <1>2 DEF process, undo, Rollback, Step2, EndStep2, UndoDir, UndoCount, UndoFile,
     UndoFileRaises, UndoFileInUse, TakeNewest, DeleteUninstallDataFiles,
     ProcessDirsNotRemoved, Restart, InstallPhases, EntryPhases
<1>3. CASE SaveLog \/ EndRollback \/ EndUninstall \/ Crash
  BY <1>3 DEF SaveLog, EndRollback, EndUninstall, Crash, EndProcess, InstallPhases, EntryPhases
<1> QED
  BY <1>1, <1>2, <1>3 DEF Next

\* The references still in the list are a natural number in the next state.
LEMMA OwedNext ==
  ASSUME TypeInv', NEW f
  PROVE  Owed(f)' \in Nat
<1> DEFINE A == {i \in DOMAIN list' : Holds(list'[i], f) /\ ~GivenBack(i)'}
<1>1. list' \in Seq(UndoRec) /\ A \in SUBSET DOMAIN list'
  BY DEF TypeInv, LogType
<1>2. Owed(f)' = Cardinality(A)
  BY DEF Owed
<1> HIDE DEF A
<1> QED
  BY <1>1, <1>2, PlacesFinite

\* Nobody comes to refer to a file whose deletion is pending.
LEMMA NobodyKept ==
  ASSUME TypeInv, LogsFromEntries, NEW f \in Files, Forsaken(f), [Next]_vars,
         "uninstall" \notin CrashIn
  PROVE  \A a \in Apps : (a = app' /\ uninstaller') \/ RefsIn(Log(a)', f) = 0
<1>0. list \in Seq(UndoRec) /\ app \in Apps /\ Control
      /\ \A a \in Apps : Log(a) \in Seq(UndoRec)
  BY RecordsType DEF TypeInv, LogType, ProcessType, Log
<1>1. RefsIn(<<>>, f) = 0
  BY RefsInEmpty
<1>2. CASE \/ \A a \in Apps : Log(a)' = Log(a)
           \/ \A a \in Apps : Log(a)' = IF a = app THEN <<>> ELSE Log(a)
  BY <1>1, <1>2, HandsChange DEF Forsaken
<1>3. CASE SaveLog /\ \A a \in Apps : Log(a)' = IF a = app THEN Log(app) \o list ELSE Log(a)
  <2>1. ~uninstaller /\ EntryOf(app, f) = {}
    BY <1>0, <1>3 DEF SaveLog, Control, InstallPhases, Forsaken
  <2>2. RefsIn(list, f) = 0
    <3>1. \A i \in DOMAIN list : ~Holds(list[i], f)
      BY <2>1, RecordsOfOthers DEF LogsFromEntries
    <3> QED
      BY <1>0, <3>1, RefsInType
  <2>3. RefsIn(Log(app) \o list, f) = RefsIn(Log(app), f) + RefsIn(list, f)
    BY <1>0, RefsInConcat
  <2>4. \A a \in Apps : RefsIn(Log(a), f) = 0
    BY <2>1 DEF Forsaken
  <2>5. RefsIn(Log(app) \o list, f) = 0
    BY <1>0, <2>2, <2>3, <2>4
  <2>6. ASSUME NEW a \in Apps PROVE RefsIn(Log(a)', f) = 0
    <3>1. Log(a)' = IF a = app THEN Log(app) \o list ELSE Log(a)
      BY <1>3
    <3> QED
      BY <2>4, <2>5, <3>1
  <2> QED
    BY <2>6
<1> QED
  BY <1>2, <1>3, LogsChange

\* What is owed of it stays nothing, and no user appears.
LEMMA NothingOwed ==
  ASSUME TypeInv, TypeInv', CountsBalance, LogsFromEntries, NEW f \in Files, Forsaken(f),
         Shared(f), [Next]_vars, "uninstall" \notin CrashIn
  PROVE  slack'[f] <= 0 /\ Owed(f)' = 0
<1>0. /\ slack[f] <= 0 /\ Owed(f) = 0 /\ list \in Seq(UndoRec) /\ app \in Apps
      /\ slack \in [Files -> Int] /\ idx \in Int /\ Control
      /\ Log(app) \in Seq(UndoRec)
  BY RecordsType DEF Forsaken, TypeInv, LogType, CountType, ProcessType, Log
<1>1. CASE \/ Rollback \/ Step2 \/ EndStep2
           \/ UndoDir \/ UndoCount \/ UndoFile \/ UndoFileRaises \/ UndoFileInUse
  <2>1. /\ Owed(f)' <= Owed(f)
        /\ slack'[f] = slack[f] \/ Owed(f) > 0
    BY <1>1, OwedLess
  <2>2. Owed(f)' \in Nat
    BY OwedNext
  <2> QED
    BY <1>0, <2>1, <2>2
<1>2. CASE Crash
  <2>1. ~uninstaller /\ list' = <<>> /\ slack' = [g \in Files |-> count[g] - Refs(g)]
    BY <1>2 DEF Crash
  <2>2. Balance(f) /\ Replayed(f) = 0 /\ count[f] \in Nat /\ Refs(f) \in Nat
    BY <2>1, BalanceType DEF CountsBalance, Balance, Replayed
  <2>3. slack'[f] = slack[f]
    BY <1>0, <2>1, <2>2 DEF Balance
  <2> QED
    BY <1>0, <2>1, <2>3, OwedNothing
<1>3. CASE \E a \in Apps : StartUninstall(a)
  <2>1. PICK a \in Apps : StartUninstall(a)
    BY <1>3
  <2>2. /\ ~uninstaller /\ list' = Log(a) /\ idx' = Len(list') /\ pc' = "step2"
        /\ slack' = slack
    BY <1>0, <2>1 DEF StartUninstall, Control
  <2>3. RefsIn(Log(a), f) = 0
    BY <2>2 DEF Forsaken
  <2>4. list' \in Seq(UndoRec)
    BY DEF TypeInv, LogType
  <2>5. \A i \in DOMAIN list' : ~Holds(list'[i], f)
    BY <2>2, <2>3, <2>4, RefsInType
  <2>6. {i \in DOMAIN list' : Holds(list'[i], f) /\ ~GivenBack(i)'} = {}
    BY <2>5
  <2>7. Owed(f)' = 0
    BY <2>6, FS_EmptySet DEF Owed
  <2> QED
    BY <1>0, <2>2, <2>7
<1>4. CASE ShareEntry
  <2>1. pc \in InstallPhases /\ Cur \in EntryOf(app, Cur.file)
    <3>1. pc \in EntryPhases /\ idx \in 1..Len(Entries[app])
      BY <1>4, CurType DEF ShareEntry, EntryPhases
    <3>2. idx \in DOMAIN Entries[app]
      BY <1>0, <3>1, TransactionAssumption
    <3> QED
      BY <3>1, <3>2 DEF EntryOf, Cur, InstallPhases
  <2>2. Cur.file # f
    BY <2>1 DEF Forsaken
  <2>3. \/ slack' = slack
        \/ slack' = [slack EXCEPT ![Cur.file] =
                       IF count[Cur.file] = 0 /\ existed THEN @ + 1 ELSE @]
    BY <1>4 DEF ShareEntry
  <2>4. slack'[f] = slack[f]
    BY <1>0, <2>2, <2>3
  <2>5. pc \notin UndoPhases /\ pc' \notin UndoPhases
    BY <1>4 DEF ShareEntry, UndoPhases
  <2>6. list' = list \/ \E r \in UndoRec : OfCurrent(r) /\ list' = Append(list, r)
    BY <1>4, <2>5, ListChanges DEF ShareEntry, StartUninstall, Step2, UndoPhases
  <2>7. Owed(f)' = Owed(f)
    <3>1. Owed(f) = RefsIn(list, f) /\ Owed(f)' = RefsIn(list', f)
      BY <2>5, OwedInstall
    <3>2. ASSUME NEW r \in UndoRec, OfCurrent(r) PROVE ~Holds(r, f)
      BY <2>1, <3>2, CurrentIsEntry, RecordsOfOthers DEF EntryRecs, Forsaken
    <3>3. \A r \in UndoRec : OfCurrent(r) => RefsIn(Append(list, r), f) = RefsIn(list, f)
      BY <1>0, <3>1, <3>2, RefsInAppend DEF One
    <3> QED
      BY <2>6, <3>1, <3>3
  <2> QED
    BY <1>0, <2>4, <2>7
<1>5. CASE /\ UNCHANGED <<count, slack>>
           /\ ~ShareEntry /\ ~Crash /\ ~(\E a \in Apps : StartUninstall(a))
           /\ ~\/ Rollback \/ Step2 \/ EndStep2
               \/ UndoDir \/ UndoCount \/ UndoFile \/ UndoFileRaises \/ UndoFileInUse
  <2>1. CASE list' = <<>>
    BY <1>0, <1>5, <2>1, OwedNothing
  <2>2. CASE list' # <<>>
    <3>1. UNCHANGED vars \/ (pc \notin UndoPhases /\ pc' \notin UndoPhases)
      <4>1. CASE CreateDirs \/ GenerateUninstallInfoFilename \/ BeginEntry \/ ExtractToTemp
                 \/ DeleteExisting \/ MoveIntoPlace \/ ReplaceOnRestart
        BY <4>1 DEF CreateDirs, GenerateUninstallInfoFilename, BeginEntry, ExtractToTemp,
           DeleteExisting, MoveIntoPlace, ReplaceOnRestart, UndoPhases
      <4>2. CASE FinishEntry \/ EntryRaises \/ AskRetry \/ AskIgnore \/ Cancel \/ SaveLog
                 \/ (\E a \in Apps : StartInstall(a))
        BY <4>2 DEF StartInstall, FinishEntry, EntryRaises, AskRetry, AskIgnore, Cancel, SaveLog,
           EndProcess, NextEntry, UndoPhases
      <4>3. CASE EndRollback \/ DeleteUninstallDataFiles \/ ProcessDirsNotRemoved
                 \/ EndUninstall \/ Restart
        BY <1>0, <2>2, <4>3 DEF EndRollback, DeleteUninstallDataFiles, ProcessDirsNotRemoved,
           EndUninstall, Restart, Control, process
      <4> QED
        BY <1>5, <4>1, <4>2, <4>3 DEF Next
    <3>2. CASE UNCHANGED vars
      BY <1>0, <3>2 DEF vars, history, process, undo, Owed, GivenBack, CountedInStep2
    <3>3. CASE pc \notin UndoPhases /\ pc' \notin UndoPhases
      <4>1. Owed(f) = RefsIn(list, f) /\ Owed(f)' = RefsIn(list', f)
        BY <3>3, OwedInstall
      <4>2. \/ list' = list
            \/ pc \in InstallPhases /\ \E r \in UndoRec : OfCurrent(r) /\ list' = Append(list, r)
        BY <1>5, <2>2, <3>3, ListChanges DEF StartUninstall, Step2, UndoPhases
      <4>3. ASSUME pc \in InstallPhases, NEW r \in UndoRec, OfCurrent(r)
            PROVE  RefsIn(Append(list, r), f) = RefsIn(list, f)
        <5>1. ~Holds(r, f)
          BY <4>3, CurrentIsEntry, RecordsOfOthers DEF EntryRecs, Forsaken
        <5> QED
          BY <1>0, <4>1, <5>1, RefsInAppend DEF One
      <4> QED
        BY <1>0, <1>5, <4>1, <4>2, <4>3
    <3> QED
      BY <3>1, <3>2, <3>3
  <2> QED
    BY <2>1, <2>2
<1> QED
  BY <1>1, <1>2, <1>3, <1>4, <1>5, CountFrame

DeletePending(f) == \E j \in DOMAIN pend : pend[j].op = "delete" /\ pend[j].file = f

\* DeletesPending, file by file.
LEMMA Forsakens ==
  ASSUME TypeInv
  PROVE  DeletesPending <=> \A f \in Files : DeletePending(f) => Forsaken(f)
<1>1. pend \in Seq(PendingOp)
  BY DEF TypeInv, LogType
<1>2. \A j \in DOMAIN pend : pend[j] \in PendingOp
  BY <1>1
<1>3. \A j \in DOMAIN pend : pend[j].op = "delete" => pend[j].file \in Files
  BY <1>2 DEF PendingOp
<1>4. \A f : Forsaken(f) <=> /\ NobodyElse(f)
                             /\ Shared(f) => Owed(f) = 0
                             /\ pc \in InstallPhases => EntryOf(app, f) = {}
  BY DEF Forsaken, NobodyElse
<1> QED
  BY <1>3, <1>4 DEF DeletesPending, DeletePending

\* Forsakens, in the next state.
LEMMA ForsakensNext ==
  TypeInv' => (DeletesPending' <=> \A f \in Files : DeletePending(f)' => Forsaken(f)')
<1>1. TypeInv => (DeletesPending <=> \A f \in Files : DeletePending(f) => Forsaken(f))
  BY Forsakens
<1>2. (TypeInv => (DeletesPending <=> \A f \in Files : DeletePending(f) => Forsaken(f)))'
  BY <1>1, PTL
<1> QED
  BY <1>2

\* How a deletion comes to be pending.
LEMMA NewDeletePending ==
  ASSUME TypeInv, NEW f \in Files, [Next]_vars, DeletePending(f)'
  PROVE  \/ DeletePending(f) /\ ~Restart
         \/ /\ UndoFileInUse /\ uninstaller /\ f = Newest.file
            /\ "restartdelete" \in Newest.opts
<1>0. pend \in Seq(PendingOp)
  BY DEF TypeInv, LogType
<1>1. PICK j \in DOMAIN pend' : pend'[j].op = "delete" /\ pend'[j].file = f
  BY DEF DeletePending
<1>2. CASE Restart
  BY <1>1, <1>2, EmptySeq DEF Restart
<1>3. CASE pend' = pend /\ ~Restart
  BY <1>1, <1>3 DEF DeletePending
<1>4. CASE ReplaceOnRestart \/ ProcessDirsNotRemoved \/ UndoFileInUse
  <2>1. pend' = pend \/ \E op \in PendingOp :
          /\ pend' = Append(pend, op)
          /\ op.op = "delete" => /\ UndoFileInUse /\ uninstaller /\ op.file = Newest.file
                                 /\ "restartdelete" \in Newest.opts
    <3>1. CASE ReplaceOnRestart
      <4>1. pc \in EntryPhases /\ tmp \in Temp /\ tmp.file = Cur.file /\ Cur.file \in Files
        BY <3>1, CurType DEF ReplaceOnRestart, EntryPhases, OwnTemps, EntryType, TypeInv
      <4>2. [op |-> "replace", file |-> Cur.file, tmp |-> tmp] \in PendingOp
        BY <4>1 DEF PendingOp
      <4> QED
        BY <3>1, <4>2 DEF ReplaceOnRestart
    <3>2. CASE ProcessDirsNotRemoved
      <4>1. Head(notRemoved) \in Dirs
        BY <3>2, TailFacts DEF ProcessDirsNotRemoved, UndoType, TypeInv
      <4>2. [op |-> "rmdir", dir |-> Head(notRemoved)] \in PendingOp
        BY <4>1 DEF PendingOp
      <4>3. pend' = pend \/ pend' = Append(pend, [op |-> "rmdir", dir |-> Head(notRemoved)])
        BY <3>2 DEF ProcessDirsNotRemoved
      <4> QED
        BY <4>2, <4>3
    <3>3. CASE UndoFileInUse
      <4>1. Newest.file \in Files
        BY <3>3, NewestType, RecordKinds DEF UndoFileInUse, TakeNewest
      <4>2. [op |-> "delete", file |-> Newest.file] \in PendingOp
        BY <4>1 DEF PendingOp
      <4>3. \/ pend' = pend
            \/ /\ pend' = Append(pend, [op |-> "delete", file |-> Newest.file])
               /\ uninstaller /\ "restartdelete" \in Newest.opts
        BY <3>3 DEF UndoFileInUse
      <4> QED
        BY <3>3, <4>2, <4>3
    <3> QED
      BY <1>4, <3>1, <3>2, <3>3
  <2>2. CASE pend' = pend
    <3>1. DeletePending(f)
      BY <1>1, <2>2 DEF DeletePending
    <3> QED
      BY <1>2, <3>1
  <2>3. CASE \E op \in PendingOp :
          /\ pend' = Append(pend, op)
          /\ op.op = "delete" => /\ UndoFileInUse /\ uninstaller /\ op.file = Newest.file
                                 /\ "restartdelete" \in Newest.opts
    <3>1. PICK op \in PendingOp :
          /\ pend' = Append(pend, op)
          /\ op.op = "delete" => /\ UndoFileInUse /\ uninstaller /\ op.file = Newest.file
                                 /\ "restartdelete" \in Newest.opts
      BY <2>3
    <3>2. /\ DOMAIN pend' = 1..(Len(pend) + 1) /\ DOMAIN pend = 1..Len(pend) /\ Len(pend) \in Nat
          /\ \A i \in 1..Len(pend) : pend'[i] = pend[i]
          /\ pend'[Len(pend) + 1] = op
      BY <1>0, <3>1, AppendFacts
    <3>3. CASE j \in 1..Len(pend)
      <4>1. DeletePending(f)
        BY <1>1, <3>2, <3>3 DEF DeletePending
      <4> QED
        BY <1>2, <4>1
    <3>4. CASE j = Len(pend) + 1
      BY <1>1, <3>1, <3>2, <3>4
    <3> QED
      BY <1>1, <3>2, <3>3, <3>4
  <2> QED
    BY <2>1, <2>2, <2>3
<1>5. UNCHANGED pend \/ Restart \/ ReplaceOnRestart \/ ProcessDirsNotRemoved \/ UndoFileInUse
  <2>1. CASE \E a \in Apps : StartInstall(a) \/ StartUninstall(a)
    BY <2>1 DEF StartInstall, StartUninstall
  <2>2. CASE CreateDirs \/ GenerateUninstallInfoFilename \/ ExtractToTemp \/ MoveIntoPlace
             \/ ShareEntry \/ SaveLog \/ Rollback \/ Step2 \/ DeleteUninstallDataFiles \/ Crash
    BY <2>2 DEF CreateDirs, GenerateUninstallInfoFilename, ExtractToTemp, MoveIntoPlace,
       ShareEntry, SaveLog, Rollback, Step2, DeleteUninstallDataFiles, Crash
  <2>3. CASE UndoDir \/ UndoCount \/ UndoFile \/ UndoFileRaises
    BY <2>3 DEF UndoDir, UndoCount, UndoFile, UndoFileRaises, TakeNewest
  <2> QED
    BY <2>1, <2>2, <2>3, LogFrame
<1> QED
  BY <1>2, <1>3, <1>4, <1>5

\* A file whose deletion is pending stays forsaken.
LEMMA ForsakenStays ==
  ASSUME TypeInv, TypeInv', CountsBalance, LogsFromEntries, NEW f \in Files, Forsaken(f),
         DeletePending(f), [Next]_vars, "uninstall" \notin CrashIn
  PROVE  Forsaken(f)'
<1>1. \A a \in Apps : (a = app' /\ uninstaller') \/ RefsIn(Log(a)', f) = 0
  BY NobodyKept
<1>2. Shared(f) => slack'[f] <= 0 /\ Owed(f)' = 0
  BY NothingOwed
<1>3. pc' \in InstallPhases => EntryOf(app', f) = {}
  <2>1. CASE \E a \in Apps : StartInstall(a)
    <3>1. PICK a \in Apps : StartInstall(a)
      BY <2>1
    <3>2. app' = a /\ \A i \in DOMAIN Entries[a] : Entries[a][i].file # f
      BY <3>1 DEF StartInstall, PreviousInstallCompleted, DeletePending
    <3> QED
      BY <3>2 DEF EntryOf
  <2>2. CASE \E a \in Apps : StartUninstall(a)
    BY <2>2 DEF StartUninstall, InstallPhases, EntryPhases
  <2>3. CASE pc' \in InstallPhases => pc \in InstallPhases /\ app' = app
    BY <2>3 DEF Forsaken
  <2> QED
    BY <2>1, <2>2, <2>3, PhaseSteps
<1> QED
  BY <1>1, <1>2, <1>3 DEF Forsaken, Shared

\* Deletions wait only for files that nobody refers to.
LEMMA DeletesStep ==
  ASSUME TypeInv, TypeInv', CountsBalance, KeptInv, SharedConsistently, [Next]_vars,
         "uninstall" \notin CrashIn
  PROVE  DeletesPending'
<1>0. LogsFromEntries /\ LastReference /\ DeletesPending
  BY DEF KeptInv
<1> SUFFICES ASSUME NEW f \in Files, DeletePending(f)' PROVE Forsaken(f)'
  BY ForsakensNext
<1>1. CASE DeletePending(f)
  BY <1>0, <1>1, ForsakenStays, Forsakens
<1>2. CASE UndoFileInUse /\ uninstaller /\ f = Newest.file
  <2>1. /\ pc = "step3" /\ pc' = "step3" /\ list # <<>> /\ Newest.typ = "file"
        /\ UNCHANGED <<app, uninstaller, dat, slack>>
    BY <1>2 DEF UndoFileInUse, TakeNewest, process
  <2>2. NobodyElse(f) /\ (Shared(f) => Owed(f) = 0)
    BY <1>0, <1>2, <2>1, GoingIsNobodys DEF DestGoes
  <2>3. Owed(f)' <= Owed(f) /\ Owed(f)' \in Nat
    BY <1>2, OwedLess, OwedNext
  <2>4. Shared(f) => Owed(f)' = 0
    BY <2>2, <2>3
  <2>5. \A a \in Apps : Log(a)' = Log(a)
    BY <2>1 DEF Log
  <2> QED
    BY <2>1, <2>2, <2>4, <2>5 DEF Forsaken, NobodyElse, Shared, InstallPhases, EntryPhases
<1> QED
  BY <1>1, <1>2, NewDeletePending

\* Every step keeps what KeptInv says of records, last references and pending deletions.
LEMMA KeptStep ==
  ASSUME TypeInv, TypeInv', CountsBalance, KeptInv, SharedConsistently, [Next]_vars,
         "uninstall" \notin CrashIn
  PROVE  KeptInv'
BY EntryLogsStep, LastReferenceStep, DeletesStep DEF KeptInv

\* KeptInv holds initially.
LEMMA KeptInit ==
  ASSUME Init
  PROVE  KeptInv
<1>1. list = <<>> /\ pend = <<>> /\ pc = "idle" /\ \A a \in Apps : Log(a) = <<>>
  BY DEF Init, Log, Records
<1> QED
  BY <1>1, EmptySeq DEF KeptInv, LogsFromEntries, LastReference, DeletesPending, UndoPhases

\* Only a pending deletion takes a file at the restart.
LEMMA RestartTakes ==
  ASSUME TypeInv, Restart, NEW f \in Files, fs[f] # Absent, fs'[f] = Absent
  PROVE  DeletePending(f)
<1> SUFFICES ASSUME ~DeletePending(f) PROVE FALSE
  OBVIOUS
<1> DEFINE w0 == [fs |-> fs, temps |-> temps, dirs |-> dirs]
           W == {w \in Machine : w.fs[f] # Absent}
<1>1. w0 \in W
  BY DEF TypeInv, DiskType, Machine
<1>2. pend \in Seq(PendingOp) /\ \A i \in DOMAIN pend : pend[i] \in PendingOp
  BY DEF TypeInv, LogType
<1>3. ASSUME NEW w \in W, NEW i \in DOMAIN pend PROVE Pending(w, pend[i]) \in W
  <2> DEFINE op == pend[i]
  <2>1. op \in PendingOp /\ Pending(w, op) \in Machine
    BY <1>2, PendingMachine
  <2>2. CASE op.op = "replace" /\ op.tmp \in w.temps
    <3>1. Pending(w, op) = [w EXCEPT !.fs[op.file] = op.tmp.ses, !.temps = @ \ {op.tmp}]
      BY <2>2 DEF Pending
    <3>2. op.tmp.ses # Absent
      BY <2>1, <2>2, TransactionAssumption DEF PendingOp, Temp, Absent
    <3> QED
      BY <2>1, <3>1, <3>2 DEF Machine
  <2>3. CASE op.op = "delete"
    <3>1. op.file # f
      BY <2>3 DEF DeletePending
    <3>2. Pending(w, op) = [w EXCEPT !.fs[op.file] = Absent]
      BY <2>3 DEF Pending
    <3> QED
      BY <2>1, <3>1, <3>2 DEF Machine
  <2>4. CASE op.op = "rmdir" /\ EmptyIn(op.dir, w.fs, w.temps, w.dirs)
    <3>1. Pending(w, op) = [w EXCEPT !.dirs = @ \ {op.dir}]
      BY <2>4 DEF Pending
    <3> QED
      BY <2>1, <3>1 DEF Machine
  <2>5. CASE /\ ~(op.op = "replace" /\ op.tmp \in w.temps) /\ op.op # "delete"
             /\ ~(op.op = "rmdir" /\ EmptyIn(op.dir, w.fs, w.temps, w.dirs))
    <3>1. Pending(w, op) = w
      BY <2>5 DEF Pending
    <3> QED
      BY <3>1
  <2> QED
    BY <2>2, <2>3, <2>4, <2>5
<1>4. FoldLeft(Pending, w0, pend) \in W
  <2> HIDE DEF w0, W
  <2> QED
    BY <1>1, <1>2, <1>3, PendingKeeps
<1>5. fs' = FoldLeft(Pending, w0, pend).fs
  BY DEF Restart
<1> QED
  BY <1>4, <1>5

\* A step that takes a shared file takes one that is nobody else's.
LEMMA SharedKeptStep ==
  ASSUME TypeInv, CountsBalance, KeptInv, SharedConsistently, [Next]_vars,
         NEW f \in Files, fs[f] # Absent, fs'[f] = Absent, pc # "delete"
  PROVE  NobodyElse(f)
<1>0. LogsFromEntries /\ LastReference /\ DeletesPending /\ fs \in [Files -> Content]
  BY DEF KeptInv, TypeInv, DiskType
<1>1. CASE UndoFile
  <2>1. pc = "step3" /\ list # <<>> /\ Newest.typ = "file"
    BY <1>1 DEF UndoFile, TakeNewest
  <2>2. fs' = IF DestGoes(Newest) THEN [fs EXCEPT ![Newest.file] = Absent] ELSE fs
    BY <1>1 DEF UndoFile
  <2>3. DestGoes(Newest) /\ Newest.file = f
    BY <1>0, <2>2
  <2> QED
    BY <1>0, <2>1, <2>3, GoingIsNobodys
<1>2. CASE Restart
  <2>1. Forsaken(f)
    BY <1>0, <1>2, RestartTakes, Forsakens
  <2> QED
    BY <2>1 DEF Forsaken, NobodyElse
<1>3. CASE MoveIntoPlace
  <2>1. fs' = [fs EXCEPT ![Cur.file] = ses] /\ ses \in 1..MaxSessions
    BY <1>3 DEF MoveIntoPlace, TypeInv, Control, InstallPhases, EntryPhases
  <2>2. ses # Absent
    BY <2>1, TransactionAssumption DEF Absent
  <2> QED
    BY <1>0, <2>1, <2>2
<1>4. CASE DeleteExisting
  BY <1>4 DEF DeleteExisting
<1>5. CASE UNCHANGED <<disk, litter>> \/ CreateDirs \/ ExtractToTemp \/ EntryRaises \/ Cancel
           \/ UndoDir \/ ProcessDirsNotRemoved \/ Crash
  BY <1>5 DEF disk, CreateDirs, ExtractToTemp, EntryRaises, Cancel, UndoDir,
     ProcessDirsNotRemoved, Crash
<1> QED
  BY <1>1, <1>2, <1>3, <1>4, <1>5, DiskFrame

\* Deletions that wait, records and last references in every state.
THEOREM ReferencesKept ==
  "uninstall" \notin CrashIn /\ SharedConsistently => (Spec => []KeptInv)
<1>1. ASSUME "uninstall" \notin CrashIn, SharedConsistently PROVE Spec => []KeptInv
  <2>1. TypeInv /\ TypeInv' /\ CountsBalance /\ KeptInv /\ [Next]_vars => KeptInv'
    BY <1>1, KeptStep
  <2>2. Spec => []CountsBalance
    BY <1>1, CountsBalanced
  <2> QED
    BY <2>1, <2>2, KeptInit, TypesKept, PTL DEF Spec
<1> QED
  BY <1>1

\* A file under a reference count is only removed when nobody else refers to
\* it.
THEOREM SharedFilesAreKept ==
  "uninstall" \notin CrashIn /\ SharedConsistently => (Spec => SharedFileKept)
<1>1. ASSUME "uninstall" \notin CrashIn, SharedConsistently PROVE Spec => SharedFileKept
  <2>1. TypeInv /\ CountsBalance /\ KeptInv /\ [Next]_vars
        => [\A f \in Files :
             fs[f] # Absent /\ fs'[f] = Absent /\ pc # "delete" =>
               /\ \A a \in Apps : (a = app /\ uninstaller) \/ RefsIn(Log(a), f) = 0
               /\ (\E a \in Apps : Flagged(a, f, "shared")) => slack[f] <= 0]_vars
    BY <1>1, SharedKeptStep DEF NobodyElse, Shared
  <2>2. Spec => []CountsBalance /\ []KeptInv
    BY <1>1, CountsBalanced, ReferencesKept
  <2> QED
    BY <2>1, <2>2, TypesKept, PTL DEF Spec, SharedFileKept
<1> QED
  BY <1>1

-----------------------------------------------------------------------------
(* What a session has done to the machine it found.                        *)

\* A script whose [Files] entries name every destination once.
ListedOnce ==
  \A a \in Apps : \A i, j \in DOMAIN Entries[a] :
    Entries[a][i].file = Entries[a][j].file => i = j

\* Shared files are not assemblies.
NoSharedAssembly ==
  \A a \in Apps : \A i \in DOMAIN Entries[a] :
    "shared" \in Entries[a][i].opts => "gacinstall" \notin Entries[a][i].opts

Installing == pc \in InstallPhases \cup {"rollback"}
RollingBack == pc \in UndoPhases /\ ~uninstaller
InSession == Installing \/ RollingBack

\* The entries whose files have not been looked at.
Ahead(i) == /\ i \in DOMAIN Entries[app]
            /\ \/ pc \in {"dirs", "reserve"}
               \/ pc \in EntryPhases /\ (i > idx \/ (i = idx /\ ~checked))

UntouchedAhead ==
  \A i \in DOMAIN Entries[app] :
    Ahead(i) => fs[Entries[app][i].file] = start.fs[Entries[app][i].file]
CheckedOnce ==
  pc \in EntryPhases /\ checked => (existed <=> start.fs[Cur.file] # Absent)
CheckedWhen ==
  /\ pc \in EntryPhases \ {"entry"} => checked
  /\ checked => pc \in EntryPhases
RecordsNewFiles ==
  InSession => \A i \in DOMAIN list :
    list[i].typ = "file" /\ ~list[i].existed => start.fs[list[i].file] = Absent
AlwaysUninstalled(d) ==
  \E i \in DOMAIN ExtraDirs[app] : ExtraDirs[app][i] = [dir |-> d, opts |-> {"alwaysuninstall"}]
RecordsNewDirs ==
  InSession => \A i \in DOMAIN list :
    list[i].typ = "dir" => list[i].dir \notin start.dirs \/ AlwaysUninstalled(list[i].dir)
KeepsDirs == Installing => start.dirs \subseteq dirs

SparesInv ==
  /\ UntouchedAhead /\ CheckedOnce /\ CheckedWhen /\ RecordsNewFiles
  /\ RecordsNewDirs /\ KeepsDirs

\* A session is entered only at its start; then it keeps its application and
\* the machine it found.
LEMMA SessionSteps ==
  ASSUME TypeInv, [Next]_vars, InSession'
  PROVE  \/ \E a \in Apps : StartInstall(a)
         \/ /\ InSession /\ UNCHANGED <<start, app, uninstaller>>
            /\ Installing' => Installing
<1> USE DEF InSession, Installing, RollingBack, InstallPhases, EntryPhases, UndoPhases
<1>1. CASE \E a \in Apps : StartUninstall(a)
  BY <1>1 DEF StartUninstall
<1>2. CASE UNCHANGED vars \/ CreateDirs \/ GenerateUninstallInfoFilename \/ BeginEntry
           \/ ExtractToTemp \/ DeleteExisting \/ MoveIntoPlace \/ ReplaceOnRestart \/ ShareEntry
           \/ FinishEntry \/ EntryRaises \/ AskRetry \/ AskIgnore \/ Cancel
  BY <1>2 DEF vars, process, undo, history, CreateDirs, GenerateUninstallInfoFilename, BeginEntry,
     ExtractToTemp, DeleteExisting, MoveIntoPlace, ReplaceOnRestart, ShareEntry,
     FinishEntry, EntryRaises, AskRetry, AskIgnore, Cancel
<1>3. CASE Rollback \/ Step2 \/ EndStep2 \/ UndoDir \/ UndoCount \/ UndoFile \/ UndoFileRaises
           \/ UndoFileInUse
  <2>1. UNCHANGED <<start, app, uninstaller>> /\ pc' \in {"step2", "step3"}
        /\ pc \in {"rollback", "step2", "step3"}
    BY <1>3 DEF process, undo, history, Rollback, Step2, EndStep2, UndoDir, UndoCount, UndoFile,
       UndoFileRaises, UndoFileInUse, TakeNewest
  <2> QED
    BY <2>1
<1>4. CASE SaveLog \/ EndRollback \/ EndUninstall \/ Crash
  BY <1>4 DEF SaveLog, EndRollback, EndUninstall, Crash, EndProcess
<1>5. CASE DeleteUninstallDataFiles \/ ProcessDirsNotRemoved \/ Restart
  BY <1>5 DEF DeleteUninstallDataFiles, ProcessDirsNotRemoved, Restart
<1> QED
  BY <1>1, <1>2, <1>3, <1>4, <1>5 DEF Next

\* The file of an entry in hand is not that of an entry ahead.
LEMMA OthersAhead ==
  ASSUME TypeInv, ListedOnce, CheckedWhen, pc \in EntryPhases \ {"entry"}, NEW i, Ahead(i)
  PROVE  i > idx /\ Entries[app][i].file # Cur.file
<1>1. i \in DOMAIN Entries[app] /\ i > idx
  BY DEF Ahead, CheckedWhen, EntryPhases
<1>2. app \in Apps /\ idx \in 1..Len(Entries[app])
  BY CurType
<1>3. idx \in DOMAIN Entries[app] /\ idx # i
  BY <1>1, <1>2, TransactionAssumption
<1> QED
  BY <1>1, <1>2, <1>3 DEF ListedOnce, Cur

\* Entries that are ahead of the process after a step were so before it.
LEMMA AheadSteps ==
  ASSUME TypeInv, [Next]_vars, Installing', Installing, NEW i, Ahead(i)'
  PROVE  Ahead(i) /\ Entries[app'] = Entries[app]
<1>0. idx \in Nat /\ \A j \in DOMAIN Entries[app] : j \in Nat
  <2>1. app \in Apps /\ idx \in Nat
    BY DEF TypeInv, ProcessType
  <2>2. Entries[app] \in Seq([file : Files, opts : SUBSET FileOptions])
    BY <2>1, TransactionAssumption
  <2> QED
    BY <2>1, <2>2
<1> USE DEF Ahead, Installing, InstallPhases, EntryPhases
<1>1. CASE UNCHANGED vars
  BY <1>1 DEF vars, process, entry
<1>2. CASE CreateDirs \/ GenerateUninstallInfoFilename
  BY <1>2 DEF CreateDirs, GenerateUninstallInfoFilename
<1>3. CASE BeginEntry
  BY <1>0, <1>3 DEF BeginEntry, CheckDestFile, process
<1>4. CASE ExtractToTemp \/ DeleteExisting \/ MoveIntoPlace \/ ReplaceOnRestart \/ ShareEntry
           \/ EntryRaises \/ AskRetry
  BY <1>4 DEF ExtractToTemp, DeleteExisting, MoveIntoPlace, ReplaceOnRestart, ShareEntry,
     EntryRaises, AskRetry, process, entry
<1>5. CASE FinishEntry \/ AskIgnore
  <2>1. /\ pc \in EntryPhases /\ app' = app
        /\ pc' = "save" \/ (pc' = "entry" /\ idx' = idx + 1)
    BY <1>5 DEF FinishEntry, AskIgnore, NextEntry
  <2>2. i \in DOMAIN Entries[app] /\ (i > idx + 1 \/ i = idx + 1) /\ i \in Nat
    BY <1>0, <2>1
  <2> QED
    BY <1>0, <2>1, <2>2
<1>6. CASE Cancel \/ SaveLog \/ EndRollback \/ EndUninstall \/ Crash \/ Rollback \/ Step2 \/ EndStep2
  BY <1>6 DEF Cancel, SaveLog, EndRollback, EndUninstall, Crash, EndProcess, Rollback, Step2, EndStep2
<1>7. CASE \/ UndoDir \/ UndoCount \/ UndoFile \/ UndoFileRaises \/ UndoFileInUse
           \/ DeleteUninstallDataFiles \/ ProcessDirsNotRemoved \/ Restart
           \/ \E a \in Apps : StartInstall(a) \/ StartUninstall(a)
  BY <1>7 DEF UndoDir, UndoCount, UndoFile, UndoFileRaises, UndoFileInUse, TakeNewest,
     DeleteUninstallDataFiles, ProcessDirsNotRemoved, Restart, StartInstall, StartUninstall
<1> QED
  BY <1>1, <1>2, <1>3, <1>4, <1>5, <1>6, <1>7 DEF Next

\* Files are not touched before their entry's turn.
LEMMA UntouchedStep ==
  ASSUME TypeInv, ListedOnce, CheckedWhen, UntouchedAhead, [Next]_vars
  PROVE  UntouchedAhead'
<1> SUFFICES ASSUME NEW i \in DOMAIN Entries[app'], Ahead(i)'
             PROVE  fs'[Entries[app'][i].file] = start'.fs[Entries[app'][i].file]
  BY DEF UntouchedAhead
<1>1. Installing' /\ InSession'
  BY DEF Ahead, InSession, Installing, InstallPhases
<1>2. CASE \E a \in Apps : StartInstall(a)
  <2>1. fs' = fs /\ start'.fs = fs
    BY <1>2 DEF StartInstall, Snapshot, disk
  <2> QED
    BY <2>1
<1>3. CASE InSession /\ UNCHANGED <<start, app, uninstaller>> /\ Installing
  <2>1. Ahead(i)
    BY <1>1, <1>3, AheadSteps
  <2>2. fs[Entries[app][i].file] = start.fs[Entries[app][i].file]
    BY <2>1 DEF UntouchedAhead, Ahead
  <2>3. fs'[Entries[app][i].file] = fs[Entries[app][i].file]
    <3>1. CASE DeleteExisting \/ MoveIntoPlace
      <4>1. pc \in EntryPhases \ {"entry"} /\ \E v : fs' = [fs EXCEPT ![Cur.file] = v]
        BY <3>1 DEF DeleteExisting, MoveIntoPlace, EntryPhases
      <4>2. Entries[app][i].file # Cur.file
        BY <2>1, <4>1, OthersAhead
      <4>3. fs \in [Files -> Content]
        BY DEF TypeInv, DiskType
      <4> QED
        BY <4>1, <4>2, <4>3
    <3>2. CASE UndoFile \/ Restart
      BY <1>3, <3>2 DEF UndoFile, TakeNewest, Restart, Installing, InstallPhases, EntryPhases
    <3>3. CASE UNCHANGED <<disk, litter>> \/ CreateDirs \/ ExtractToTemp \/ EntryRaises \/ Cancel
               \/ UndoDir \/ ProcessDirsNotRemoved \/ Crash
      BY <3>3 DEF disk, CreateDirs, ExtractToTemp, EntryRaises, Cancel, UndoDir,
         ProcessDirsNotRemoved, Crash
    <3> QED
      BY <3>1, <3>2, <3>3, DiskFrame
  <2> QED
    BY <1>3, <2>2, <2>3
<1> QED
  BY <1>1, <1>2, <1>3, SessionSteps

\* DestFileExistedBefore is about the machine the session found.
LEMMA CheckedStep ==
  ASSUME TypeInv, CheckedWhen, CheckedOnce, UntouchedAhead, [Next]_vars
  PROVE  CheckedWhen' /\ CheckedOnce'
<1>0. fs \in [Files -> Content] /\ (pc \in EntryPhases => idx \in DOMAIN Entries[app])
  BY CurType, TransactionAssumption DEF TypeInv, DiskType
<1> USE DEF CheckedWhen, CheckedOnce, EntryPhases
<1>1. CASE UNCHANGED vars
  BY <1>1 DEF vars, process, entry, history, Cur
<1>2. CASE (\E a \in Apps : StartInstall(a) \/ StartUninstall(a)) \/ CreateDirs
           \/ GenerateUninstallInfoFilename
  BY <1>2 DEF StartInstall, StartUninstall, CreateDirs, GenerateUninstallInfoFilename, entry
<1>3. CASE BeginEntry
  <2>1. pc = "entry" /\ CheckDestFile(Cur.file) /\ UNCHANGED <<app, idx, start>>
        /\ pc' \in {"share", "temp"}
    BY <1>3 DEF BeginEntry, process, history
  <2>2. ~checked => fs[Cur.file] = start.fs[Cur.file]
    BY <1>0, <2>1 DEF UntouchedAhead, Ahead, Cur
  <2>3. checked' /\ existed' = IF checked THEN existed ELSE fs[Cur.file] # Absent
    BY <2>1 DEF CheckDestFile
  <2>4. Cur' = Cur
    BY <2>1 DEF Cur
  <2> QED
    BY <2>1, <2>2, <2>3, <2>4
<1>4. CASE ExtractToTemp \/ DeleteExisting \/ MoveIntoPlace \/ ReplaceOnRestart \/ ShareEntry
           \/ EntryRaises \/ AskRetry
  <2>1. UNCHANGED <<app, idx, start, checked, existed>> /\ pc \in EntryPhases \ {"entry"}
        /\ pc' \in EntryPhases
    BY <1>4 DEF ExtractToTemp, DeleteExisting, MoveIntoPlace, ReplaceOnRestart, ShareEntry,
       EntryRaises, AskRetry, process, entry, history
  <2> QED
    BY <2>1 DEF Cur
<1>5. CASE FinishEntry \/ AskIgnore \/ Cancel
  BY <1>5 DEF FinishEntry, AskIgnore, Cancel, NextEntry, ClearEntry
<1>6. CASE SaveLog \/ EndRollback \/ EndUninstall \/ Crash
  BY <1>6 DEF SaveLog, EndRollback, EndUninstall, Crash, EndProcess, ClearEntry
<1>7. CASE Rollback \/ Step2 \/ EndStep2 \/ DeleteUninstallDataFiles \/ ProcessDirsNotRemoved
           \/ Restart
  BY <1>7 DEF Rollback, Step2, EndStep2, DeleteUninstallDataFiles, ProcessDirsNotRemoved,
     Restart, entry
<1>8. CASE UndoDir \/ UndoCount \/ UndoFile \/ UndoFileRaises \/ UndoFileInUse
  BY <1>8 DEF UndoDir, UndoCount, UndoFile, UndoFileRaises, UndoFileInUse, TakeNewest, entry
<1> QED
  BY <1>1, <1>2, <1>3, <1>4, <1>5, <1>6, <1>7, <1>8 DEF Next

\* Directories stay while a session installs.
LEMMA KeepsDirsStep ==
  ASSUME TypeInv, KeepsDirs, [Next]_vars
  PROVE  KeepsDirs'
<1> SUFFICES ASSUME Installing' PROVE start'.dirs \subseteq dirs'
  BY DEF KeepsDirs
<1>1. CASE \E a \in Apps : StartInstall(a)
  BY <1>1 DEF StartInstall, Snapshot, disk
<1>2. CASE Installing /\ UNCHANGED start
  <2>1. start.dirs \subseteq dirs
    BY <1>2 DEF KeepsDirs
  <2>2. dirs \subseteq dirs'
    <3>1. CASE CreateDirs
      <4>1. Wanted(app)[idx].dir \in Dirs
        BY <3>1, AskedDir DEF CreateDirs
      <4> QED
        BY <3>1, <4>1, MadeDir DEF CreateDirs
    <3>2. CASE ExtractToTemp
      <4>1. DirOf[Cur.file] \in Dirs
        BY <3>2, AskedDir DEF ExtractToTemp
      <4> QED
        BY <3>2, <4>1, MadeDir DEF ExtractToTemp
    <3>3. CASE UndoDir \/ UndoFile \/ ProcessDirsNotRemoved \/ Restart
      BY <1>2, <3>3 DEF UndoDir, UndoFile, TakeNewest, ProcessDirsNotRemoved, Restart,
         Installing, InstallPhases, EntryPhases
    <3>4. CASE UNCHANGED <<disk, litter>> \/ DeleteExisting \/ MoveIntoPlace \/ EntryRaises
               \/ Cancel \/ Crash
      BY <3>4 DEF disk, DeleteExisting, MoveIntoPlace, EntryRaises, Cancel, Crash
    <3> QED
      BY <3>1, <3>2, <3>3, <3>4, DiskFrame
  <2> QED
    BY <1>2, <2>1, <2>2
<1> QED
  BY <1>1, <1>2, SessionSteps DEF InSession

\* What MakeDir records is new, or asked for with uninsalwaysuninstall.
LEMMA MadeDirIsNew ==
  ASSUME NEW d \in Dirs, NEW o, MakeParent(d, o) \/ MakeLast(d, o)
  PROVE  \E e \in Dirs :
           \/ list' = list
           \/ /\ list' = Append(list, DirRec(e))
              /\ e \notin dirs \/ (e = d /\ "alwaysuninstall" \in o /\ "neveruninstall" \notin o)
<1>1. Path[d] \in SUBSET Dirs
  BY PathFacts
<1>2. CASE MakeParent(d, o)
  BY <1>1, <1>2 DEF MakeParent
<1>3. CASE MakeLast(d, o)
  BY <1>3 DEF MakeLast
<1> QED
  BY <1>2, <1>3

\* The records by which a rollback takes nothing that was there before.
SparingRecs ==
  {r \in UndoRec : /\ r.typ = "file" /\ ~r.existed => start.fs[r.file] = Absent
                   /\ r.typ = "dir" => r.dir \notin start.dirs \/ AlwaysUninstalled(r.dir)}

\* A record of a file that says truly whether the file existed is a sparing one.
LEMMA SparingFile ==
  ASSUME NEW f \in Files, NEW t \in Temp \cup {NoTmp}, NEW x \in BOOLEAN,
         NEW o \in SUBSET FileOptions, x <=> start.fs[f] # Absent
  PROVE  FileRec(f, t, x, o) \in SparingRecs
BY RecordKinds DEF SparingRecs

\* Only such records are made.
LEMMA SparingRecords ==
  ASSUME TypeInv, CheckedWhen, CheckedOnce, KeepsDirs, [Next]_vars, Installing, Installing'
  PROVE  list' = list \/ \E r \in SparingRecs : list' = Append(list, r)
<1>0. start.dirs \subseteq dirs /\ app \in Apps
  BY DEF KeepsDirs, TypeInv, ProcessType
<1>1. CASE CreateDirs
  <2> DEFINE w == Wanted(app)[idx]
  <2>1. w.dir \in Dirs /\ pc = "dirs" /\ idx \in 1..Len(Wanted(app))
    BY <1>1, AskedDir DEF CreateDirs, TypeInv, Control
  <2>2. PICK e \in Dirs :
           \/ list' = list
           \/ /\ list' = Append(list, DirRec(e))
              /\ e \notin dirs
                 \/ (e = w.dir /\ "alwaysuninstall" \in w.opts /\ "neveruninstall" \notin w.opts)
    BY <1>1, <2>1, MadeDirIsNew DEF CreateDirs
  <2>3. ASSUME e = w.dir, "alwaysuninstall" \in w.opts, "neveruninstall" \notin w.opts
        PROVE  AlwaysUninstalled(e)
    <3>1. /\ Wanted(app) \in Seq([dir : Dirs, opts : SUBSET DirOptions])
          /\ Len(Wanted(app)) = Len(ExtraDirs[app]) + 1
          /\ Wanted(app)[1] = [dir |-> AppDir[app], opts |-> {}]
          /\ \A i \in 2..Len(Wanted(app)) : Wanted(app)[i] = ExtraDirs[app][i - 1]
      BY <1>0, WantedType
    <3>2. ExtraDirs[app] \in Seq([dir : Dirs, opts : SUBSET DirOptions])
      BY <1>0, TransactionAssumption
    <3>3. DOMAIN ExtraDirs[app] = 1..Len(ExtraDirs[app]) /\ Len(ExtraDirs[app]) \in Nat
      BY <3>2, LenProperties
    <3>4. idx # 1
      BY <2>3, <3>1
    <3>5. idx - 1 \in DOMAIN ExtraDirs[app] /\ idx \in 2..Len(Wanted(app))
      BY <2>1, <3>1, <3>3, <3>4
    <3>6. w = ExtraDirs[app][idx - 1]
      BY <3>1, <3>5
    <3>7. w \in [dir : Dirs, opts : SUBSET DirOptions]
      BY <2>1, <3>1, ElementOfSeq
    <3>8. w = [dir |-> e, opts |-> {"alwaysuninstall"}]
      <4>1. w.opts = {"alwaysuninstall"}
        BY <2>3, <3>7 DEF DirOptions
      <4> HIDE DEF w
      <4> QED
        BY <2>3, <3>7, <4>1
    <3> QED
      BY <3>5, <3>6, <3>8 DEF AlwaysUninstalled
  <2>4. list' = list \/ DirRec(e) \in SparingRecs
    BY <1>0, <2>2, <2>3, RecordKinds DEF SparingRecs
  <2> QED
    BY <2>2, <2>4
<1>2. CASE ExtractToTemp
  <2>1. DirOf[Cur.file] \in Dirs /\ "alwaysuninstall" \notin Cur.opts
    BY <1>2, AskedDir, CurType DEF ExtractToTemp, EntryPhases, FileOptions
  <2>2. PICK e \in Dirs :
           \/ list' = list
           \/ list' = Append(list, DirRec(e)) /\ e \notin dirs
    BY <1>2, <2>1, MadeDirIsNew DEF ExtractToTemp
  <2>3. e \notin dirs => DirRec(e) \in SparingRecs
    BY <1>0, RecordKinds DEF SparingRecs
  <2> QED
    BY <2>2, <2>3
<1>3. CASE MoveIntoPlace \/ ReplaceOnRestart \/ ShareEntry
  <2>1. /\ pc \in EntryPhases \ {"entry"} /\ Cur.file \in Files /\ Cur.opts \in SUBSET FileOptions
        /\ existed \in BOOLEAN /\ tmp \in Temp \cup {NoTmp}
    BY <1>3, CurType DEF MoveIntoPlace, ReplaceOnRestart, ShareEntry, EntryPhases, TypeInv,
       EntryType
  <2>2. existed <=> start.fs[Cur.file] # Absent
    BY <2>1 DEF CheckedWhen, CheckedOnce
  <2>3. \A t \in {NoTmp, tmp} : FileRec(Cur.file, t, existed, Cur.opts) \in SparingRecs
    BY <2>1, <2>2, SparingFile
  <2>4. CountRec(Cur.file) \in SparingRecs
    BY <2>1, RecordKinds DEF SparingRecs
  <2> QED
    BY <1>3, <2>3, <2>4 DEF MoveIntoPlace, ReplaceOnRestart, ShareEntry, RecordInstalled
<1>4. CASE (\E a \in Apps : StartInstall(a) \/ StartUninstall(a)) \/ SaveLog \/ Step2 \/ Crash
           \/ UndoDir \/ UndoCount \/ UndoFile \/ UndoFileRaises \/ UndoFileInUse
  BY <1>4 DEF StartInstall, StartUninstall, SaveLog, Crash, EndProcess, Step2, UndoDir, UndoCount,
     UndoFile, UndoFileRaises, UndoFileInUse, TakeNewest, Installing, InstallPhases, EntryPhases
<1>5. CASE UNCHANGED list
  BY <1>5
<1>6. CASE GenerateUninstallInfoFilename \/ Rollback \/ DeleteUninstallDataFiles
           \/ ProcessDirsNotRemoved \/ Restart
  BY <1>6 DEF GenerateUninstallInfoFilename, Rollback, DeleteUninstallDataFiles,
     ProcessDirsNotRemoved, Restart
<1> QED
  BY <1>1, <1>2, <1>3, <1>4, <1>5, <1>6, LogFrame

\* The two invariants about records are about SparingRecs.
LEMMA Sparing ==
  TypeInv => (RecordsNewFiles /\ RecordsNewDirs <=> (InSession => list \in Seq(SparingRecs)))
<1> SUFFICES ASSUME TypeInv
             PROVE  RecordsNewFiles /\ RecordsNewDirs <=> (InSession => list \in Seq(SparingRecs))
  OBVIOUS
<1>1. list \in Seq(UndoRec) /\ SparingRecs \in SUBSET UndoRec
  BY DEF TypeInv, LogType, SparingRecs
<1>2. \A i \in DOMAIN list : list[i] \in UndoRec
  BY <1>1
<1>3. list \in Seq(SparingRecs) <=> \A i \in DOMAIN list : list[i] \in SparingRecs
  BY <1>1, RecordsIn
<1> QED
  BY <1>2, <1>3 DEF SparingRecs, RecordsNewFiles, RecordsNewDirs

\* Sparing, in the next state.
LEMMA SparingNext ==
  TypeInv' => (RecordsNewFiles' /\ RecordsNewDirs' <=> (InSession' => list' \in Seq(SparingRecs')))
<1>1. (TypeInv => (RecordsNewFiles /\ RecordsNewDirs
                   <=> (InSession => list \in Seq(SparingRecs))))'
  BY Sparing, PTL
<1> QED
  BY <1>1

\* Every step keeps the list one of sparing records.
LEMMA SparingStep ==
  ASSUME TypeInv, TypeInv', SparesInv, [Next]_vars
  PROVE  RecordsNewFiles' /\ RecordsNewDirs'
<1> SUFFICES ASSUME InSession' PROVE list' \in Seq(SparingRecs')
  BY SparingNext
<1>1. CASE \E a \in Apps : StartInstall(a)
  BY <1>1, EmptySeq DEF StartInstall
<1>2. CASE /\ InSession /\ UNCHANGED <<start, app, uninstaller>>
           /\ Installing' => Installing
  <2>1. list \in Seq(SparingRecs)
    BY <1>2, Sparing DEF SparesInv
  <2>2. SparingRecs' = SparingRecs
    BY <1>2 DEF SparingRecs, AlwaysUninstalled
  <2>3. CASE Installing'
    <3>1. list' = list \/ \E r \in SparingRecs : list' = Append(list, r)
      BY <1>2, <2>3, SparingRecords DEF SparesInv
    <3> QED
      BY <2>1, <2>2, <3>1, AppendFacts
  <2>4. CASE ~Installing'
    <3>1. \/ list' = list \/ list' = <<>>
          \/ list # <<>> /\ list' = Front(list)
          \/ idx \in 1..Len(list) /\ list' = RemoveAt(list, idx)
      BY <1>2, <2>4, ListChanges DEF StartUninstall, Installing, InSession, RollingBack, Control,
         TypeInv, UndoPhases, InstallPhases, EntryPhases
    <3>2. list' \in Seq(SparingRecs)
      <4> HIDE DEF SparingRecs
      <4>1. list # <<>> => Front(list) \in Seq(SparingRecs)
        BY <2>1, FrontFacts
      <4>2. idx \in 1..Len(list) => RemoveAt(list, idx) \in Seq(SparingRecs)
        BY <2>1, RemoveAtFacts
      <4> QED
        BY <2>1, <3>1, <4>1, <4>2, EmptySeq
    <3> QED
      BY <2>2, <3>2
  <2> QED
    BY <2>3, <2>4
<1> QED
  BY <1>1, <1>2, SessionSteps

\* Every step keeps what SparesInv says of the session and the machine it found.
LEMMA SparesStep ==
  ASSUME TypeInv, TypeInv', ListedOnce, SparesInv, [Next]_vars
  PROVE  SparesInv'
BY UntouchedStep, CheckedStep, KeepsDirsStep, SparingStep DEF SparesInv

\* SparesInv holds initially.
LEMMA SparesInit ==
  ASSUME Init
  PROVE  SparesInv
<1>1. pc = "idle" /\ ~checked /\ ~uninstaller /\ list = <<>>
  BY DEF Init
<1> QED
  BY <1>1 DEF SparesInv, UntouchedAhead, Ahead, CheckedOnce, CheckedWhen, RecordsNewFiles,
     RecordsNewDirs, KeepsDirs, InSession, Installing, RollingBack, InstallPhases, EntryPhases,
     UndoPhases

\* What a rollback takes was not there before.
LEMMA SparedStep ==
  ASSUME TypeInv, SparesInv, [Next]_vars, pc = "step3", ~uninstaller
  PROVE  /\ \A f \in Files : fs[f] # Absent /\ fs'[f] = Absent => start.fs[f] = Absent
         /\ \A d \in start.dirs \cap dirs : d \in dirs' \/ AlwaysUninstalled(d)
<1>0. InSession /\ RecordsNewFiles /\ RecordsNewDirs /\ fs \in [Files -> Content]
  BY DEF InSession, RollingBack, UndoPhases, SparesInv, TypeInv, DiskType
<1>1. CASE UndoDir
  <2>1. list # <<>> /\ Newest.typ = "dir" /\ fs' = fs
        /\ (dirs' = dirs \/ dirs' = dirs \ {Newest.dir})
    BY <1>1 DEF UndoDir, TakeNewest
  <2>2. Len(list) \in DOMAIN list /\ Newest = list[Len(list)]
    BY <2>1, NewestType
  <2>3. Newest.dir \notin start.dirs \/ AlwaysUninstalled(Newest.dir)
    BY <1>0, <2>1, <2>2 DEF RecordsNewDirs
  <2> QED
    BY <2>1, <2>3
<1>2. CASE UndoFile
  <2>1. list # <<>> /\ Newest.typ = "file" /\ dirs' = dirs
        /\ (fs' = fs \/ (DestGoes(Newest) /\ fs' = [fs EXCEPT ![Newest.file] = Absent]))
    BY <1>2 DEF UndoFile, TakeNewest
  <2>2. Len(list) \in DOMAIN list /\ Newest = list[Len(list)]
    BY <2>1, NewestType
  <2>3. DestGoes(Newest) => start.fs[Newest.file] = Absent
    BY <1>0, <2>1, <2>2 DEF RecordsNewFiles, DestGoes
  <2> QED
    BY <1>0, <2>1, <2>3
<1>3. CASE CreateDirs \/ ExtractToTemp \/ DeleteExisting \/ MoveIntoPlace \/ EntryRaises \/ Cancel
           \/ ProcessDirsNotRemoved \/ Restart
  BY <1>3 DEF CreateDirs, ExtractToTemp, DeleteExisting, MoveIntoPlace, EntryRaises, Cancel,
     ProcessDirsNotRemoved, Restart
<1>4. CASE UNCHANGED <<disk, litter>> \/ Crash
  BY <1>4 DEF disk, Crash
<1> QED
  BY <1>1, <1>2, <1>3, <1>4, DiskFrame

\* What a session knows of the machine it found.
THEOREM SessionsSpare == ListedOnce => (Spec => []SparesInv)
<1>1. ASSUME ListedOnce PROVE Spec => []SparesInv
  <2>1. TypeInv /\ TypeInv' /\ SparesInv /\ [Next]_vars => SparesInv'
    BY <1>1, SparesStep
  <2> QED
    BY <2>1, SparesInit, TypesKept, PTL DEF Spec
<1> QED
  BY <1>1

\* A rollback takes no file and no directory that was there before.
THEOREM RollbackSpares == ListedOnce => (Spec => RollbackSparesOthers)
<1>1. ASSUME ListedOnce PROVE Spec => RollbackSparesOthers
  <2>1. TypeInv /\ SparesInv /\ [Next]_vars
        => [pc = "step3" /\ ~uninstaller =>
             /\ \A f \in Files : fs[f] # Absent /\ fs'[f] = Absent => start.fs[f] = Absent
             /\ \A d \in start.dirs \cap dirs : d \in dirs' \/ \E i \in DOMAIN ExtraDirs[app] :
                  ExtraDirs[app][i] = [dir |-> d, opts |-> {"alwaysuninstall"}]]_vars
    BY SparedStep DEF AlwaysUninstalled
  <2> QED
    BY <1>1, <2>1, SessionsSpare, TypesKept, PTL DEF Spec, RollbackSparesOthers
<1> QED
  BY <1>1

-----------------------------------------------------------------------------
(* The uninstaller's directories.                                          *)

LoggedList == Records(start.dat[app])
\* The log names every directory before those in it that exist.
ParentsFirst ==
  \A i \in DOMAIN LoggedList, e \in (LoggedDirs \cap start.dirs) \ {Root} :
    LoggedList[i].typ = "dir" /\ Parent[e] = LoggedList[i].dir =>
      \E k \in DOMAIN LoggedList : k > i /\ LoggedList[k] = DirRec(e)

Recorded(d) == \E i \in DOMAIN list : list[i] = DirRec(d)
Retries(d) == \E j \in DOMAIN notRemoved : notRemoved[j] = d
Uninstalling == uninstaller /\ pc \in UndoPhases
\* Only logged directories that exist are worked on.
DirsFromLog ==
  Uninstalling => /\ dirs \subseteq start.dirs
                  /\ \A i \in DOMAIN list : list[i].typ = "dir" => list[i].dir \in LoggedDirs
\* Each of them is still to be undone, or to be tried again.
DirsPending ==
  Uninstalling => \A d \in LoggedDirs \cap dirs : Recorded(d) \/ Retries(d)
\* Those within one are undone before it, or tried again.
ChildrenNewer ==
  Uninstalling => \A i \in DOMAIN list, e \in (LoggedDirs \cap dirs) \ {Root} :
    list[i].typ = "dir" /\ Parent[e] = list[i].dir =>
      Retries(e) \/ \E k \in DOMAIN list : k > i /\ list[k] = DirRec(e)
ChildrenRetried ==
  Uninstalling => \A i \in DOMAIN notRemoved, e \in (LoggedDirs \cap dirs) \ {Root} :
    Parent[e] = notRemoved[i] => Retries(e)
\* None is tried again before one within it.
RetryOrder ==
  uninstaller => \A i, j \in DOMAIN notRemoved :
    i < j /\ notRemoved[j] # Root => Parent[notRemoved[j]] # notRemoved[i]
\* One that was tried again is in use, and not by one that will be.
RetriedStay ==
  pc = "retrydirs" => \A d \in LoggedDirs \cap dirs :
    \/ Retries(d)
    \/ /\ ~IsEmptyDir(d)
       /\ \A j \in DOMAIN notRemoved : notRemoved[j] # Root => Parent[notRemoved[j]] # d
DirsInv ==
  ParentsFirst => /\ DirsFromLog /\ DirsPending /\ ChildrenNewer /\ ChildrenRetried
                  /\ RetryOrder /\ RetriedStay

\* The directories of t are those of s in the same order.
KeepsOrder(t, s) ==
  /\ \A i \in DOMAIN t : \E m \in DOMAIN s :
       /\ t[i] = s[m]
       /\ \A x \in DOMAIN s : x > m /\ s[x].typ = "dir" => \E y \in DOMAIN t : y > i /\ t[y] = s[x]
  /\ \A x \in DOMAIN s : s[x].typ = "dir" => \E y \in DOMAIN t : t[y] = s[x]

\* Taking out a record of something else keeps their order.
LEMMA RemovalKeepsOrder ==
  ASSUME NEW s \in Seq(UndoRec), NEW k \in 1..Len(s), s[k].typ # "dir"
  PROVE  KeepsOrder(RemoveAt(s, k), s)
<1> DEFINE t == RemoveAt(s, k)
           n == Len(s)
<1>1. /\ n \in Nat \ {0} /\ DOMAIN s = 1..n /\ DOMAIN t = 1..(n - 1)
      /\ \A i \in 1..(n - 1) : t[i] = IF i < k THEN s[i] ELSE s[i + 1]
  BY RemoveAtFacts
<1> HIDE DEF t, n
<1>2. ASSUME NEW x \in 1..n, s[x].typ = "dir"
      PROVE  \E y \in 1..(n - 1) : t[y] = s[x] /\ y = IF x < k THEN x ELSE x - 1
  <2>0. x # k /\ k \in 1..n
    BY <1>2 DEF n
  <2>1. CASE x < k
    <3>1. x \in 1..(n - 1) /\ t[x] = s[x]
      BY <1>1, <2>0, <2>1
    <3> QED
      BY <2>1, <3>1
  <2>2. CASE x > k
    <3>1. x - 1 \in 1..(n - 1) /\ ~(x - 1 < k) /\ (x - 1) + 1 = x
      BY <1>1, <2>0, <2>2
    <3>2. t[x - 1] = s[x]
      BY <1>1, <3>1
    <3> QED
      BY <2>0, <2>2, <3>1, <3>2
  <2> QED
    BY <2>0, <2>1, <2>2
<1>3. ASSUME NEW i \in 1..(n - 1)
      PROVE  \E m \in 1..n :
               /\ t[i] = s[m]
               /\ \A x \in 1..n : x > m /\ s[x].typ = "dir" => \E y \in 1..(n - 1) : y > i /\ t[y] = s[x]
  <2> DEFINE m == IF i < k THEN i ELSE i + 1
  <2>1. m \in 1..n /\ t[i] = s[m]
    BY <1>1, <1>3
  <2>2. ASSUME NEW x \in 1..n, x > m, s[x].typ = "dir"
        PROVE  \E y \in 1..(n - 1) : y > i /\ t[y] = s[x]
    <3>1. PICK y \in 1..(n - 1) : t[y] = s[x] /\ y = IF x < k THEN x ELSE x - 1
      BY <1>2, <2>2
    <3>2. k \in Nat /\ x # k
      BY <2>2 DEF n
    <3>3. y > i
      BY <1>3, <2>2, <3>1, <3>2
    <3> QED
      BY <3>1, <3>3
  <2> HIDE DEF m
  <2> QED
    BY <2>1, <2>2
<1>4. KeepsOrder(t, s)
  <2>1. DOMAIN t = 1..(n - 1) /\ DOMAIN s = 1..n
    BY <1>1
  <2> HIDE DEF t, n
  <2>2. \A x \in 1..n : s[x].typ = "dir" => \E y \in 1..(n - 1) : t[y] = s[x]
    BY <1>2
  <2>3. \A i \in 1..(n - 1) : \E m \in 1..n :
          /\ t[i] = s[m]
          /\ \A x \in 1..n : x > m /\ s[x].typ = "dir" => \E y \in 1..(n - 1) : y > i /\ t[y] = s[x]
    BY <1>3
  <2>4. \A i \in DOMAIN t : \E m \in DOMAIN s :
          /\ t[i] = s[m]
          /\ \A x \in DOMAIN s : x > m /\ s[x].typ = "dir" => \E y \in DOMAIN t : y > i /\ t[y] = s[x]
    <3> TAKE i \in DOMAIN t
    <3>1. PICK m \in 1..n :
            /\ t[i] = s[m]
            /\ \A x \in 1..n : x > m /\ s[x].typ = "dir" => \E y \in 1..(n - 1) : y > i /\ t[y] = s[x]
      BY <2>1, <2>3
    <3>2. ASSUME NEW x \in DOMAIN s, x > m, s[x].typ = "dir"
          PROVE  \E y \in DOMAIN t : y > i /\ t[y] = s[x]
      <4>1. x \in 1..n
        BY <2>1
      <4>2. PICK y \in 1..(n - 1) : y > i /\ t[y] = s[x]
        BY <3>1, <3>2, <4>1
      <4> QED
        BY <2>1, <4>2
    <3>3. m \in DOMAIN s
      BY <2>1
    <3> QED
      BY <3>1, <3>2, <3>3, Zenon
  <2>5. \A x \in DOMAIN s : s[x].typ = "dir" => \E y \in DOMAIN t : t[y] = s[x]
    BY <2>1, <2>2, Zenon
  <2> QED
    BY <2>4, <2>5, Zenon DEF KeepsOrder
<1> QED
  BY <1>4 DEF t

\* Dropping a last record that is not of a directory keeps the order of directories.
LEMMA FrontKeepsOrder ==
  ASSUME NEW s \in Seq(UndoRec), s # <<>>, s[Len(s)].typ # "dir"
  PROVE  KeepsOrder(Front(s), s)
<1> DEFINE t == Front(s)
           n == Len(s)
<1>1. /\ n \in Nat \ {0} /\ DOMAIN s = 1..n /\ DOMAIN t = 1..(n - 1)
      /\ \A i \in 1..(n - 1) : t[i] = s[i]
  BY FrontFacts
<1>2. s[n].typ # "dir"
  OBVIOUS
<1> HIDE DEF t, n
<1>3. \A x \in 1..n : s[x].typ = "dir" => x \in 1..(n - 1)
  BY <1>1, <1>2
<1>4. \A i \in 1..(n - 1) : i \in 1..n
  BY <1>1
<1>5. KeepsOrder(t, s)
  BY <1>1, <1>3, <1>4 DEF KeepsOrder
<1> QED
  BY <1>5 DEF t

\* A list keeps its own order.
LEMMA SameKeepsOrder ==
  ASSUME NEW s
  PROVE  KeepsOrder(s, s)
BY DEF KeepsOrder

\* Steps of the uninstaller that neither try nor remove a directory.
LEMMA QuietDirs ==
  ASSUME TypeInv, DirsInv, Uninstalling, pc' \in UndoPhases,
         UNCHANGED <<app, start, dirs, notRemoved, uninstaller>>,
         KeepsOrder(list', list)
  PROVE  DirsInv'
<1>1. ParentsFirst' = ParentsFirst /\ LoggedDirs' = LoggedDirs
  BY DEF ParentsFirst, LoggedList, LoggedDirs
<1> SUFFICES ASSUME ParentsFirst
             PROVE  /\ DirsFromLog' /\ DirsPending' /\ ChildrenNewer' /\ ChildrenRetried'
                    /\ RetryOrder' /\ RetriedStay'
  BY <1>1 DEF DirsInv
<1>2. /\ DirsFromLog /\ DirsPending /\ ChildrenNewer /\ ChildrenRetried /\ RetryOrder
  BY DEF DirsInv
<1>3. \A d : Retries(d)' = Retries(d)
  BY DEF Retries
<1>4. \A d \in Dirs : Recorded(d) => Recorded(d)'
  <2> TAKE d \in Dirs
  <2> HAVE Recorded(d)
  <2>1. PICK x \in DOMAIN list : list[x] = DirRec(d)
    BY DEF Recorded
  <2>2. list[x].typ = "dir"
    BY <2>1, RecordKinds
  <2> QED
    BY <2>1, <2>2 DEF KeepsOrder, Recorded
<1>5. DirsFromLog'
  BY <1>1, <1>2 DEF DirsFromLog, KeepsOrder
<1>6. DirsPending'
  BY <1>1, <1>2, <1>3, <1>4 DEF DirsPending, TypeInv, DiskType
<1>7. ChildrenNewer'
  <2> SUFFICES ASSUME NEW i \in DOMAIN list', NEW e \in (LoggedDirs \cap dirs) \ {Root},
                      list'[i].typ = "dir", Parent[e] = list'[i].dir, ~Retries(e)
               PROVE  \E k \in DOMAIN list' : k > i /\ list'[k] = DirRec(e)
    BY <1>1, <1>3 DEF ChildrenNewer
  <2>1. PICK m \in DOMAIN list :
          /\ list'[i] = list[m]
          /\ \A x \in DOMAIN list :
               x > m /\ list[x].typ = "dir" => \E y \in DOMAIN list' : y > i /\ list'[y] = list[x]
    BY DEF KeepsOrder
  <2>2. PICK k \in DOMAIN list : k > m /\ list[k] = DirRec(e)
    BY <1>2, <2>1 DEF ChildrenNewer
  <2>3. e \in Dirs /\ list[k].typ = "dir"
    BY <2>2, RecordKinds DEF TypeInv, DiskType
  <2> QED
    BY <2>1, <2>2, <2>3
<1>8. ChildrenRetried' /\ RetryOrder'
  BY <1>1, <1>2, <1>3 DEF ChildrenRetried, RetryOrder
<1>9. RetriedStay'
  BY DEF RetriedStay, UndoPhases
<1> QED
  BY <1>5, <1>6, <1>7, <1>8, <1>9

\* The uninstaller takes a log: all of it is still to be undone.
LEMMA StartUninstallDirs ==
  ASSUME TypeInv, TypeInv', \E a \in Apps : StartUninstall(a), ParentsFirst'
  PROVE  /\ DirsFromLog' /\ DirsPending' /\ ChildrenNewer' /\ ChildrenRetried'
         /\ RetryOrder' /\ RetriedStay'
<1>1. PICK a \in Apps : StartUninstall(a)
  OBVIOUS
<1>2. /\ notRemoved' = <<>> /\ pc' = "step2" /\ dirs' = dirs /\ app' = a
      /\ list' = Log(a) /\ start' = Snapshot /\ dat' = dat
  BY <1>1 DEF StartUninstall, TypeInv, Control, UndoPhases, disk
<1>3. list' = LoggedList' /\ start'.dirs = dirs'
  BY <1>2 DEF LoggedList, Snapshot, Log
<1>4. list' \in Seq(UndoRec)
  BY DEF TypeInv, LogType
<1>5. \A i \in DOMAIN list' : list'[i].typ = "dir" => list'[i].dir \in LoggedDirs'
  BY <1>3 DEF LoggedDirs, LoggedList
<1>6. \A d \in LoggedDirs' : Recorded(d)'
  <2> TAKE d \in LoggedDirs'
  <2>1. PICK i \in DOMAIN list' : list'[i].typ = "dir" /\ list'[i].dir = d
    BY <1>3 DEF LoggedDirs, LoggedList
  <2>2. list'[i] \in UndoRec
    BY <1>4
  <2>3. list'[i] = DirRec(d)
    BY <2>1, <2>2, RecordKinds
  <2> QED
    BY <2>3 DEF Recorded
<1>7. ChildrenNewer'
  BY <1>3 DEF ChildrenNewer, ParentsFirst
<1>8. \A i \in DOMAIN notRemoved' : FALSE
  BY <1>2, EmptySeq
<1> QED
  BY <1>2, <1>3, <1>5, <1>6, <1>7, <1>8
     DEF DirsFromLog, DirsPending, ChildrenRetried, RetryOrder, RetriedStay

\* The list of directories to try again, with one more.
LEMMA RetryFacts ==
  ASSUME TypeInv, NEW d \in Dirs, uninstaller, notRemoved' = RetryLater(d)
  PROVE  /\ \A x : Retries(x)' <=> Retries(x) \/ x = d
         /\ \A j \in DOMAIN notRemoved' :
              \/ j \in DOMAIN notRemoved /\ notRemoved'[j] = notRemoved[j]
              \/ /\ notRemoved'[j] = d /\ ~Retries(d)
                 /\ \A i \in DOMAIN notRemoved : i < j
         /\ \A i \in DOMAIN notRemoved : i \in DOMAIN notRemoved' /\ notRemoved'[i] = notRemoved[i]
<1>1. notRemoved \in Seq(Dirs)
  BY DEF TypeInv, UndoType
<1>2. Contains(notRemoved, d) <=> Retries(d)
  BY <1>1 DEF Contains, Retries
<1>3. CASE Retries(d)
  <2>1. notRemoved' = notRemoved
    BY <1>2, <1>3 DEF RetryLater
  <2> QED
    BY <1>3, <2>1 DEF Retries
<1>4. CASE ~Retries(d)
  <2>1. notRemoved' = Append(notRemoved, d)
    BY <1>2, <1>4 DEF RetryLater
  <2> DEFINE n == Len(notRemoved)
  <2>2. /\ n \in Nat /\ DOMAIN notRemoved = 1..n /\ DOMAIN notRemoved' = 1..(n + 1)
        /\ \A i \in 1..n : notRemoved'[i] = notRemoved[i]
        /\ notRemoved'[n + 1] = d
    BY <1>1, <2>1, AppendFacts
  <2> HIDE DEF n
  <2>3. \A j \in 1..(n + 1) : j \in 1..n \/ (j = n + 1 /\ \A i \in 1..n : i < j)
    BY <2>2
  <2>4. \A i \in 1..n : i \in 1..(n + 1)
    BY <2>2
  <2>5. n + 1 \in 1..(n + 1)
    BY <2>2
  <2>6. \A x : Retries(x)' <=> Retries(x) \/ x = d
    BY <2>2, <2>3, <2>4, <2>5 DEF Retries
  <2> QED
    BY <1>4, <2>2, <2>3, <2>4, <2>6
<1> QED
  BY <1>3, <1>4

\* A directory goes, or is to be tried again.
LEMMA UndoDirDirs ==
  ASSUME TypeInv, TypeInv', DirsInv, UndoDir, uninstaller
  PROVE  DirsInv'
<1>d. PICK d \in Dirs : d = Newest.dir /\ Newest = DirRec(d)
  <2>1. list \in Seq(UndoRec) /\ list # <<>> /\ Newest.typ = "dir"
    BY DEF UndoDir, TakeNewest, TypeInv, LogType
  <2>2. Newest \in UndoRec
    BY <2>1, FrontFacts, NewestType
  <2> QED
    BY <2>1, <2>2, RecordKinds
<1> DEFINE n == Len(list)
<1>1. /\ pc = "step3" /\ pc' = "step3" /\ list # <<>> /\ Newest.typ = "dir" /\ list' = Front(list)
      /\ UNCHANGED <<app, start, uninstaller>>
  BY DEF UndoDir, TakeNewest, process
<1>2. ParentsFirst' = ParentsFirst /\ LoggedDirs' = LoggedDirs
  BY <1>1 DEF ParentsFirst, LoggedList, LoggedDirs
<1> SUFFICES ASSUME ParentsFirst
             PROVE  /\ DirsFromLog' /\ DirsPending' /\ ChildrenNewer' /\ ChildrenRetried'
                    /\ RetryOrder' /\ RetriedStay'
  BY <1>2 DEF DirsInv
<1>3. /\ DirsFromLog /\ DirsPending /\ ChildrenNewer /\ ChildrenRetried /\ RetryOrder
      /\ Uninstalling
  BY <1>1 DEF DirsInv, Uninstalling, UndoPhases
<1>4. /\ n \in Nat /\ n \in DOMAIN list /\ DOMAIN list = 1..n /\ DOMAIN list' = 1..(n - 1)
      /\ \A i \in 1..(n - 1) : list'[i] = list[i]
      /\ list[n] = Newest
  BY <1>1, FrontFacts, NewestType DEF TypeInv, LogType
<1>5. d \in Dirs /\ Newest = DirRec(d) /\ d \in LoggedDirs /\ list[n].typ = "dir"
  BY <1>d, <1>1, <1>3, <1>4, RecordKinds DEF DirsFromLog
<1>6. \A x \in Dirs : x # d => DirRec(x) # Newest
  BY <1>5, RecordKinds
<1>7. dirs \in SUBSET Dirs
  BY DEF TypeInv, DiskType
<1>n. n \in Nat
  BY <1>4
<1>8. \A i \in 1..n : i \in 1..(n - 1) \/ i = n
  <2> HIDE DEF n
  <2> QED
    BY <1>n
<1>9. \A i \in 1..(n - 1) : i \in 1..n /\ ~(n < i)
  <2> HIDE DEF n
  <2> QED
    BY <1>n
<1>10. \/ dirs' = dirs \ {d} /\ UNCHANGED notRemoved
       \/ d \in dirs /\ notRemoved' = RetryLater(d) /\ UNCHANGED dirs
  BY <1>d DEF UndoDir
<1>11. \A x : Retries(x) => Retries(x)'
  BY <1>5, <1>10, RetryFacts DEF Retries
<1>u. uninstaller
  OBVIOUS
<1>12. d \notin dirs' \/ Retries(d)'
  <2>1. CASE d \in dirs /\ notRemoved' = RetryLater(d)
    BY <1>5, <1>u, <2>1, RetryFacts
  <2>2. CASE dirs' = dirs \ {d}
    BY <2>2
  <2> QED
    BY <1>10, <2>1, <2>2
<1>13. dirs' \subseteq dirs
  BY <1>10
<1> HIDE DEF n
<1>14. DirsFromLog'
  BY <1>2, <1>3, <1>4, <1>9, <1>13, <1>1 DEF DirsFromLog
<1>15. DirsPending'
  <2> SUFFICES ASSUME NEW x \in LoggedDirs \cap dirs', ~Retries(x)'
               PROVE  Recorded(x)'
    BY <1>2 DEF DirsPending
  <2>1. PICK k \in 1..n : list[k] = DirRec(x)
    BY <1>3, <1>4, <1>11, <1>13 DEF DirsPending, Recorded
  <2>2. x # d /\ x \in Dirs
    BY <1>7, <1>12, <1>13
  <2>3. k # n
    BY <1>4, <1>6, <2>1, <2>2
  <2> QED
    BY <1>4, <1>8, <2>1, <2>3 DEF Recorded
<1>16. ChildrenNewer'
  <2> SUFFICES ASSUME NEW i \in 1..(n - 1), NEW e \in (LoggedDirs \cap dirs') \ {Root},
                      list'[i].typ = "dir", Parent[e] = list'[i].dir, ~Retries(e)'
               PROVE  \E k \in 1..(n - 1) : k > i /\ list'[k] = DirRec(e)
    BY <1>2, <1>4 DEF ChildrenNewer
  <2>1. PICK k \in 1..n : k > i /\ list[k] = DirRec(e)
    BY <1>3, <1>4, <1>9, <1>11, <1>13 DEF ChildrenNewer
  <2>2. e # d /\ e \in Dirs
    BY <1>7, <1>12, <1>13
  <2>3. k # n
    BY <1>4, <1>6, <2>1, <2>2
  <2> QED
    BY <1>4, <1>8, <2>1, <2>3
<1>17. ASSUME NEW e \in (LoggedDirs \cap dirs) \ {Root}, Parent[e] = d PROVE Retries(e)
  <2>1. \A k \in 1..n : ~(k > n)
    BY <1>n
  <2>2. list[n].typ = "dir" /\ list[n].dir = d /\ n \in DOMAIN list
    BY <1>d, <1>4, <1>5
  <2>3. Retries(e) \/ \E k \in DOMAIN list : k > n /\ list[k] = DirRec(e)
    BY <1>3, <1>17, <2>2 DEF ChildrenNewer
  <2> QED
    BY <1>4, <2>1, <2>3
<1>18. ChildrenRetried'
  <2> SUFFICES ASSUME NEW i \in DOMAIN notRemoved', NEW e \in (LoggedDirs \cap dirs') \ {Root},
                      Parent[e] = notRemoved'[i]
               PROVE  Retries(e)'
    BY <1>2 DEF ChildrenRetried
  <2>1. (i \in DOMAIN notRemoved /\ notRemoved'[i] = notRemoved[i]) \/ notRemoved'[i] = d
    BY <1>3, <1>5, <1>10, RetryFacts DEF Uninstalling
  <2> QED
    BY <1>3, <1>11, <1>13, <1>17, <2>1 DEF ChildrenRetried
<1>19. RetryOrder'
  <2> SUFFICES ASSUME NEW i \in DOMAIN notRemoved', NEW j \in DOMAIN notRemoved',
                      i < j, notRemoved'[j] # Root
               PROVE  Parent[notRemoved'[j]] # notRemoved'[i]
    BY DEF RetryOrder
  <2>1. CASE UNCHANGED notRemoved
    BY <1>3, <2>1 DEF RetryOrder, Uninstalling
  <2>2. CASE d \in dirs /\ notRemoved' = RetryLater(d)
    <3>0. notRemoved' \in Seq(Dirs)
      BY DEF TypeInv, UndoType
    <3>1. i \in Nat /\ j \in Nat
      BY <3>0
    <3>2. \/ j \in DOMAIN notRemoved /\ notRemoved'[j] = notRemoved[j]
          \/ /\ notRemoved'[j] = d /\ ~Retries(d)
             /\ \A k \in DOMAIN notRemoved : k < j
      BY <1>3, <1>5, <2>2, RetryFacts DEF Uninstalling
    <3>3. \/ i \in DOMAIN notRemoved /\ notRemoved'[i] = notRemoved[i]
          \/ \A k \in DOMAIN notRemoved : k < i
      BY <1>3, <1>5, <2>2, RetryFacts DEF Uninstalling
    <3>4. i \in DOMAIN notRemoved /\ notRemoved'[i] = notRemoved[i]
      <4>1. CASE \A k \in DOMAIN notRemoved : k < i
        <5>1. ~(j < i) /\ j # i
          BY <3>1
        <5>2. notRemoved'[j] = d /\ ~Retries(d)
          BY <3>2, <4>1, <5>1
        <5>3. \A k \in DOMAIN notRemoved' : k \in DOMAIN notRemoved \/ \A m \in DOMAIN notRemoved : m < k
          BY <1>3, <1>5, <2>2, RetryFacts DEF Uninstalling
        <5>4. notRemoved' = Append(notRemoved, d)
          <6>1. ~Contains(notRemoved, d)
            BY <5>2 DEF Contains, Retries, TypeInv, UndoType
          <6> QED
            BY <1>3, <2>2, <6>1 DEF RetryLater, Uninstalling
        <5>5. i \in 1..(Len(notRemoved) + 1) /\ j \in 1..(Len(notRemoved) + 1)
              /\ Len(notRemoved) \in Nat /\ DOMAIN notRemoved = 1..Len(notRemoved)
          BY <1>5, <5>4, AppendFacts DEF TypeInv, UndoType
        <5>6. i \in DOMAIN notRemoved
          BY <3>1, <5>5
        <5> QED
          BY <3>1, <4>1, <5>6
      <4> QED
        BY <3>3, <4>1
    <3>5. CASE j \in DOMAIN notRemoved /\ notRemoved'[j] = notRemoved[j]
      BY <1>3, <3>4, <3>5 DEF RetryOrder, Uninstalling
    <3>6. CASE notRemoved'[j] = d /\ ~Retries(d)
      BY <1>3, <1>5, <2>2, <3>4, <3>6 DEF ChildrenRetried
    <3> QED
      BY <3>2, <3>5, <3>6
  <2> QED
    BY <1>10, <2>1, <2>2
<1>20. RetriedStay'
  BY <1>1 DEF RetriedStay
<1> QED
  BY <1>14, <1>15, <1>16, <1>18, <1>19, <1>20

\* The steps an uninstaller takes.
LEMMA UninstallerSteps ==
  ASSUME TypeInv, [Next]_vars, uninstaller'
  PROVE  \/ UNCHANGED vars
         \/ \E a \in Apps : StartUninstall(a)
         \/ /\ uninstaller
            /\ \/ Step2 \/ EndStep2 \/ UndoDir \/ UndoCount \/ UndoFile \/ UndoFileRaises
               \/ UndoFileInUse \/ DeleteUninstallDataFiles \/ ProcessDirsNotRemoved
<1>1. \A a \in Apps : ~StartInstall(a)
  BY DEF StartInstall, undo, TypeInv, Control
<1>2. ~(CreateDirs \/ GenerateUninstallInfoFilename \/ BeginEntry \/ ExtractToTemp
        \/ DeleteExisting \/ MoveIntoPlace \/ ReplaceOnRestart \/ ShareEntry
        \/ FinishEntry \/ EntryRaises \/ AskRetry \/ AskIgnore \/ Cancel \/ SaveLog \/ Rollback)
  <2>1. pc \in InstallPhases \cup {"rollback"} => ~uninstaller
    BY DEF TypeInv, Control
  <2> QED
    BY <2>1 DEF CreateDirs, GenerateUninstallInfoFilename, BeginEntry, ExtractToTemp,
         DeleteExisting, MoveIntoPlace, ReplaceOnRestart, ShareEntry, FinishEntry, EntryRaises,
         AskRetry, AskIgnore, Cancel, SaveLog, Rollback, EndProcess, InstallPhases, EntryPhases, undo
<1>3. ~(EndRollback \/ EndUninstall \/ Restart \/ Crash)
  BY DEF EndRollback, EndUninstall, Restart, Crash, EndProcess, undo, TypeInv, Control
<1>4. Step2 \/ EndStep2 \/ UndoDir \/ UndoCount \/ UndoFile \/ UndoFileRaises \/ UndoFileInUse
      \/ DeleteUninstallDataFiles \/ ProcessDirsNotRemoved => uninstaller
  BY DEF Step2, EndStep2, UndoDir, UndoCount, UndoFile, UndoFileRaises, UndoFileInUse,
         DeleteUninstallDataFiles, ProcessDirsNotRemoved, TakeNewest, undo
<1> QED
  BY <1>1, <1>2, <1>3, <1>4 DEF Next

\* Nothing is asked of a process that is not an uninstaller.
LEMMA NoUninstallerDirs ==
  ASSUME TypeInv', ~uninstaller'
  PROVE  DirsInv'
BY DEF DirsInv, DirsFromLog, DirsPending, ChildrenNewer, ChildrenRetried, RetryOrder,
       RetriedStay, Uninstalling, TypeInv, Control

\* The whole log is undone: what is left of its directories is to be tried again.
LEMMA DeleteDataDirs ==
  ASSUME TypeInv, TypeInv', DirsInv, DeleteUninstallDataFiles
  PROVE  DirsInv'
<1>1. /\ pc = "step3" /\ pc' = "retrydirs" /\ list = <<>> /\ uninstaller
      /\ UNCHANGED <<app, start, dirs, notRemoved, uninstaller>>
  BY DEF DeleteUninstallDataFiles, disk, process, undo, history
<1>2. ParentsFirst' = ParentsFirst /\ LoggedDirs' = LoggedDirs
  BY <1>1 DEF ParentsFirst, LoggedList, LoggedDirs
<1>3. \A d : Retries(d)' = Retries(d)
  BY <1>1 DEF Retries
<1>4. \A d : ~Recorded(d)
  BY <1>1, EmptySeq DEF Recorded
<1> SUFFICES ASSUME ParentsFirst
             PROVE  RetryOrder' /\ RetriedStay'
  BY <1>1, <1>2 DEF DirsInv, DirsFromLog, DirsPending, ChildrenNewer, ChildrenRetried,
                    Uninstalling, UndoPhases
<1>5. RetryOrder'
  BY <1>1 DEF DirsInv, RetryOrder
<1>6. RetriedStay'
  BY <1>1, <1>2, <1>3, <1>4 DEF DirsInv, DirsPending, Uninstalling, UndoPhases, RetriedStay
<1> QED
  BY <1>5, <1>6

\* The oldest of the directories to try again is tried.
LEMMA ProcessDirs ==
  ASSUME TypeInv, TypeInv', DirsInv, ProcessDirsNotRemoved
  PROVE  DirsInv'
<1> DEFINE n == Len(notRemoved)
<1>1. /\ pc = "retrydirs" /\ pc' = "retrydirs" /\ notRemoved # <<>>
      /\ notRemoved' = Tail(notRemoved)
      /\ UNCHANGED <<fs, temps, dat, litter, app, start, uninstaller>>
      /\ notRemoved \in Seq(Dirs) /\ uninstaller
  BY DEF ProcessDirsNotRemoved, process, history, TypeInv, UndoType, Control
<1>2. ParentsFirst' = ParentsFirst /\ LoggedDirs' = LoggedDirs
  BY <1>1 DEF ParentsFirst, LoggedList, LoggedDirs
<1> SUFFICES ASSUME ParentsFirst
             PROVE  RetryOrder' /\ RetriedStay'
  BY <1>1, <1>2 DEF DirsInv, DirsFromLog, DirsPending, ChildrenNewer, ChildrenRetried,
                    Uninstalling, UndoPhases
<1>3. PICK h \in Dirs : h = Head(notRemoved) /\ h = notRemoved[1]
  BY <1>1
<1>4. \/ h \in dirs /\ ~IsEmptyDir(h) /\ dirs' = dirs
      \/ dirs' = dirs \ {h}
  BY <1>3 DEF ProcessDirsNotRemoved
<1>5. /\ n \in Nat \ {0} /\ DOMAIN notRemoved = 1..n /\ DOMAIN notRemoved' = 1..(n - 1)
      /\ \A i \in 1..(n - 1) : notRemoved'[i] = notRemoved[i + 1]
  BY <1>1, TailFacts
<1>n. n \in Nat \ {0}
  BY <1>5
<1> HIDE DEF n
<1>6. \A i \in 1..(n - 1) : i + 1 \in 1..n /\ 1 < i + 1
  BY <1>n
<1>7. \A j \in 1..n : j = 1 \/ (j - 1 \in 1..(n - 1) /\ (j - 1) + 1 = j)
  BY <1>n
<1>8. 1 \in 1..n
  BY <1>n
<1>9. RetryOrder'
  <2> SUFFICES ASSUME NEW i \in 1..(n - 1), NEW j \in 1..(n - 1), i < j, notRemoved'[j] # Root
               PROVE  Parent[notRemoved'[j]] # notRemoved'[i]
    BY <1>5 DEF RetryOrder
  <2>1. i + 1 \in 1..n /\ j + 1 \in 1..n /\ i + 1 < j + 1
    BY <1>n
  <2> QED
    BY <1>1, <1>5, <2>1 DEF DirsInv, RetryOrder
<1>10. \A j \in 1..(n - 1) : notRemoved'[j] # Root => Parent[notRemoved'[j]] # h
  BY <1>1, <1>3, <1>5, <1>6, <1>8 DEF DirsInv, RetryOrder
<1>11. ASSUME NEW d \in LoggedDirs \cap dirs'
       PROVE  \/ Retries(d)'
              \/ /\ ~IsEmptyDir(d)'
                 /\ \A j \in DOMAIN notRemoved' : notRemoved'[j] # Root => Parent[notRemoved'[j]] # d
  <2>1. d \in LoggedDirs \cap dirs
    BY <1>4
  <2>2. CASE dirs' = dirs /\ d = h /\ ~IsEmptyDir(h)
    <3>1. ~IsEmptyDir(d)'
      BY <1>1, <2>2 DEF IsEmptyDir, EmptyIn
    <3> QED
      BY <1>5, <1>10, <2>2, <3>1
  <2>3. CASE Retries(d) /\ d # h
    <3>1. PICK j \in 1..n : notRemoved[j] = d
      BY <1>5, <2>3 DEF Retries
    <3>2. j - 1 \in 1..(n - 1) /\ (j - 1) + 1 = j
      BY <1>3, <1>7, <2>3, <3>1
    <3>3. notRemoved'[j - 1] = d
      BY <1>5, <3>1, <3>2
    <3> QED
      BY <1>5, <3>2, <3>3 DEF Retries
  <2>4. CASE ~Retries(d)
    <3>1. /\ ~IsEmptyDir(d)
          /\ \A j \in 1..n : notRemoved[j] # Root => Parent[notRemoved[j]] # d
      BY <1>1, <1>5, <2>1, <2>4 DEF DirsInv, RetriedStay
    <3>2. h # Root => Parent[h] # d
      BY <1>3, <1>8, <3>1
    <3>3. \A e \in dirs \ {Root} : Parent[e] = d => e \in dirs'
      BY <1>4, <3>2
    <3>4. ~IsEmptyDir(d)'
      BY <1>1, <3>1, <3>3 DEF IsEmptyDir, EmptyIn
    <3> QED
      BY <1>5, <1>6, <3>1, <3>4
  <2> QED
    BY <1>4, <2>2, <2>3, <2>4
<1>12. RetriedStay'
  BY <1>2, <1>11 DEF RetriedStay
<1> QED
  BY <1>9, <1>12

\* Every step keeps what DirsInv says of the uninstaller's directories.
LEMMA DirsStep ==
  ASSUME TypeInv, TypeInv', DirsInv, [Next]_vars
  PROVE  DirsInv'
<1>1. CASE ~uninstaller'
  BY <1>1, NoUninstallerDirs
<1>2. CASE UNCHANGED vars
  <2>1. UNCHANGED <<dirs, fs, temps, dat, litter, app, start, list, notRemoved, uninstaller, pc>>
    BY <1>2 DEF vars, disk, process, undo, history
  <2>2. /\ LoggedDirs' = LoggedDirs /\ ParentsFirst' = ParentsFirst /\ Uninstalling' = Uninstalling
        /\ \A d : Recorded(d)' = Recorded(d) /\ Retries(d)' = Retries(d)
                  /\ IsEmptyDir(d)' = IsEmptyDir(d)
    BY <2>1 DEF LoggedDirs, ParentsFirst, LoggedList, Uninstalling, Recorded, Retries, IsEmptyDir,
                EmptyIn
  <2> QED
    BY <2>1, <2>2 DEF DirsInv, DirsFromLog, DirsPending, ChildrenNewer, ChildrenRetried,
                      RetryOrder, RetriedStay
<1>3. CASE \E a \in Apps : StartUninstall(a)
  BY <1>3, StartUninstallDirs DEF DirsInv
<1>4. CASE uninstaller /\ (Step2 \/ EndStep2)
  <2>1. /\ Uninstalling /\ pc' \in UndoPhases
        /\ UNCHANGED <<app, start, dirs, notRemoved, uninstaller>>
    BY <1>4 DEF Step2, EndStep2, Uninstalling, UndoPhases, disk, process, undo, history
  <2>2. KeepsOrder(list', list)
    <3>1. CASE list' = list
      BY <3>1, SameKeepsOrder
    <3>2. CASE CountedInStep2(list[idx]) /\ list' = RemoveAt(list, idx) /\ pc = "step2" /\ idx > 0
      <4>1. list \in Seq(UndoRec) /\ idx \in 1..Len(list) /\ list[idx].typ # "dir"
        BY <3>2, NewestType DEF CountedInStep2, TypeInv, LogType
      <4> QED
        BY <3>2, <4>1, RemovalKeepsOrder
    <3> QED
      BY <1>4, <3>1, <3>2 DEF Step2, EndStep2
  <2> QED
    BY <2>1, <2>2, QuietDirs
<1>5. CASE uninstaller /\ (UndoCount \/ UndoFile \/ UndoFileRaises \/ UndoFileInUse)
  <2>1. /\ Uninstalling /\ pc' \in UndoPhases
        /\ UNCHANGED <<app, start, dirs, notRemoved, uninstaller>>
        /\ list # <<>> /\ list[Len(list)].typ # "dir" /\ list' = Front(list)
    BY <1>5 DEF UndoCount, UndoFile, UndoFileRaises, UndoFileInUse, TakeNewest, Newest,
                Uninstalling, UndoPhases, disk, process
  <2>2. KeepsOrder(list', list)
    BY <2>1, FrontKeepsOrder DEF TypeInv, LogType
  <2> QED
    BY <2>1, <2>2, QuietDirs
<1>6. CASE uninstaller /\ UndoDir
  BY <1>6, UndoDirDirs
<1>7. CASE DeleteUninstallDataFiles
  BY <1>7, DeleteDataDirs
<1>8. CASE ProcessDirsNotRemoved
  BY <1>8, ProcessDirs
<1> QED
  BY <1>1, <1>2, <1>3, <1>4, <1>5, <1>6, <1>7, <1>8, UninstallerSteps

\* DirsInv holds initially.
LEMMA DirsInit ==
  ASSUME Init
  PROVE  DirsInv
BY DEF Init, DirsInv, DirsFromLog, DirsPending, ChildrenNewer, ChildrenRetried, RetryOrder,
       RetriedStay, Uninstalling

\* Where the uninstaller is with the directories of its log, at every moment.
THEOREM DirsTried == Spec => []DirsInv
<1>1. Init => DirsInv
  BY DirsInit
<1>2. TypeInv /\ TypeInv' /\ DirsInv /\ [Next]_vars => DirsInv'
  BY DirsStep
<1> QED
  BY <1>1, <1>2, TypesKept, PTL DEF Spec

\* If its log names parents before the directories in them, an uninstaller leaves no directory
\* of the log empty.
THEOREM NoEmptyDirIsLeft == Spec => [](ParentsFirst => UninstallLeavesNoEmptyDir)
<1>1. DirsInv => (ParentsFirst => UninstallLeavesNoEmptyDir)
  <2> SUFFICES ASSUME DirsInv, ParentsFirst, pc = "retrydirs", notRemoved = <<>>,
                      NEW d \in LoggedDirs \cap dirs
               PROVE  ~IsEmptyDir(d)
    BY DEF UninstallLeavesNoEmptyDir
  <2>1. ~Retries(d)
    BY EmptySeq DEF Retries
  <2> QED
    BY <2>1 DEF DirsInv, RetriedStay
<1> QED
  BY <1>1, DirsTried, PTL

-----------------------------------------------------------------------------
(* Whose directories are whose.                                            *)

NoneAlways ==
  \A a \in Apps : \A i \in DOMAIN ExtraDirs[a] : "alwaysuninstall" \notin ExtraDirs[a][i].opts
Names(s, d) == \E i \in DOMAIN s : s[i] = DirRec(d)
\* Two records, the first the older: not of one directory, and not of one in the other.
Follows(r, s) ==
  r.typ = "dir" /\ s.typ = "dir" =>
    r.dir # s.dir /\ (r.dir # Root => Parent[r.dir] # s.dir)
InOrder(s) == \A i, j \in DOMAIN s : i < j => Follows(s[i], s[j])

DirsClosed == Root \in dirs /\ \A d \in dirs \ {Root} : Parent[d] \in dirs
LogsInOrder ==
  /\ \A a \in Apps : InOrder(Log(a))
  /\ InOrder(list)
  /\ ~uninstaller => \A i \in DOMAIN Log(app), j \in DOMAIN list : Follows(Log(app)[i], list[j])
\* No directory is in two logs.
OneOwner ==
  /\ \A a, b \in Apps, d \in Dirs : Names(Log(a), d) /\ Names(Log(b), d) => a = b
  /\ \A a \in Apps, d \in Dirs :
       Names(list, d) \/ Retries(d) => ~Names(Log(a), d) \/ (a = app /\ uninstaller)
  /\ \A d \in Dirs : Names(list, d) => ~Retries(d)
  /\ \A i, j \in DOMAIN notRemoved : notRemoved[i] = notRemoved[j] => i = j
\* Logged directories exist, those that are being undone excepted.
OwnedExist ==
  /\ \A a \in Apps, d \in Dirs : Names(Log(a), d) => d \in dirs \/ (a = app /\ uninstaller)
  /\ \A d \in Dirs : Names(list, d) => d \in dirs
\* Those to be removed on restart are in no log.
PendingUnowned ==
  \A j \in DOMAIN pend : pend[j].op = "rmdir" =>
    LET d == pend[j].dir
    IN  d \in dirs /\ ~Names(list, d) /\ ~Retries(d) /\ \A a \in Apps : ~Names(Log(a), d)
OwnedInv == DirsClosed /\ LogsInOrder /\ OneOwner /\ OwnedExist /\ PendingUnowned

\* The directories of t are among those of s, in their order.
ThinsDirs(t, s) ==
  \A i, j \in DOMAIN t : t[i].typ = "dir" /\ t[j].typ = "dir" =>
    \E m, n \in DOMAIN s : t[i] = s[m] /\ t[j] = s[n] /\ (i < j => m < n)

\* A list in order has thinner ones in order, which name nothing else.
LEMMA ThinnerInOrder ==
  ASSUME NEW s, NEW t, ThinsDirs(t, s)
  PROVE  /\ InOrder(s) => InOrder(t)
         /\ \A d \in Dirs : Names(t, d) => Names(s, d)
         /\ \A i \in DOMAIN t : t[i].typ = "dir" => \E m \in DOMAIN s : t[i] = s[m]
<1>1. InOrder(s) => InOrder(t)
  <2> SUFFICES ASSUME InOrder(s), NEW i \in DOMAIN t, NEW j \in DOMAIN t, i < j,
                      t[i].typ = "dir", t[j].typ = "dir"
               PROVE  Follows(t[i], t[j])
    BY DEF InOrder, Follows
  <2>1. PICK m \in DOMAIN s, n \in DOMAIN s : t[i] = s[m] /\ t[j] = s[n] /\ m < n
    BY DEF ThinsDirs
  <2> QED
    BY <2>1 DEF InOrder
<1>2. \A i \in DOMAIN t : t[i].typ = "dir" => \E m \in DOMAIN s : t[i] = s[m]
  BY DEF ThinsDirs
<1>3. \A d \in Dirs : Names(t, d) => Names(s, d)
  BY <1>2, RecordKinds DEF Names
<1> QED
  BY <1>1, <1>2, <1>3

\* Taking a record out, or adding one of something else, thins a list.
LEMMA Thinner ==
  ASSUME NEW s \in Seq(UndoRec)
  PROVE  /\ ThinsDirs(s, s)
         /\ s # <<>> => ThinsDirs(Front(s), s)
         /\ \A k \in 1..Len(s) : ThinsDirs(RemoveAt(s, k), s)
         /\ \A r \in UndoRec : r.typ # "dir" => ThinsDirs(Append(s, r), s)
<1> DEFINE n == Len(s)
<1>n. n \in Nat /\ DOMAIN s = 1..n
  BY LenProperties
<1> HIDE DEF n
<1>1. ThinsDirs(s, s)
  BY DEF ThinsDirs
<1>2. ASSUME s # <<>> PROVE ThinsDirs(Front(s), s)
  <2>1. DOMAIN Front(s) = 1..(n - 1) /\ \A i \in 1..(n - 1) : Front(s)[i] = s[i]
    BY <1>2, FrontFacts DEF n
  <2>2. \A i \in 1..(n - 1) : i \in 1..n
    BY <1>n
  <2> QED
    BY <1>n, <2>1, <2>2 DEF ThinsDirs
<1>3. ASSUME NEW k \in 1..n PROVE ThinsDirs(RemoveAt(s, k), s)
  <2> DEFINE t == RemoveAt(s, k)
             m(i) == IF i < k THEN i ELSE i + 1
  <2>1. DOMAIN t = 1..(n - 1) /\ \A i \in 1..(n - 1) : t[i] = IF i < k THEN s[i] ELSE s[i + 1]
    BY <1>3, RemoveAtFacts DEF n
  <2>2. \A i \in 1..(n - 1) : m(i) \in 1..n
    BY <1>n
  <2>3. \A i, j \in 1..(n - 1) : i < j => m(i) < m(j)
    BY <1>n
  <2>4. \A i \in 1..(n - 1) : t[i] = s[m(i)]
    BY <2>1
  <2> HIDE DEF t, m
  <2>5. ThinsDirs(t, s)
    BY <1>n, <2>1, <2>2, <2>3, <2>4 DEF ThinsDirs
  <2> QED
    BY <2>5 DEF t
<1>4. ASSUME NEW r \in UndoRec, r.typ # "dir" PROVE ThinsDirs(Append(s, r), s)
  <2> DEFINE t == Append(s, r)
  <2>1. DOMAIN t = 1..(n + 1) /\ t[n + 1] = r /\ \A i \in 1..n : t[i] = s[i]
    BY AppendFacts DEF n
  <2> HIDE DEF t
  <2>2. \A i \in 1..(n + 1) : i \in 1..n \/ i = n + 1
    BY <1>n
  <2>3. \A i \in DOMAIN t : t[i].typ = "dir" => i \in 1..n /\ t[i] = s[i]
    BY <1>4, <2>1, <2>2
  <2>4. ThinsDirs(t, s)
    BY <1>n, <2>3 DEF ThinsDirs
  <2> QED
    BY <2>4 DEF t
<1> QED
  BY <1>1, <1>2, <1>3, <1>4 DEF n

\* A new directory follows all that exist.
LEMMA NewDirFollows ==
  ASSUME NEW D \in SUBSET Dirs, \A d \in D \ {Root} : Parent[d] \in D,
         NEW e \in Dirs, e \notin D, NEW r \in UndoRec, r.typ = "dir" => r.dir \in D
  PROVE  Follows(r, DirRec(e))
BY RecordKinds DEF Follows

\* A record that follows all others may be appended.
LEMMA AppendInOrder ==
  ASSUME NEW s \in Seq(UndoRec), NEW r \in UndoRec, InOrder(s),
         \A i \in DOMAIN s : Follows(s[i], r)
  PROVE  InOrder(Append(s, r))
<1> DEFINE n == Len(s)
           t == Append(s, r)
<1>1. /\ n \in Nat /\ DOMAIN s = 1..n /\ DOMAIN t = 1..(n + 1)
      /\ t[n + 1] = r /\ \A i \in 1..n : t[i] = s[i]
  BY AppendFacts
<1>n. n \in Nat
  BY <1>1
<1> HIDE DEF n, t
<1>2. \A i, j \in 1..(n + 1) : i < j => i \in 1..n /\ (j \in 1..n \/ j = n + 1)
  BY <1>n
<1>3. InOrder(t)
  BY <1>1, <1>2 DEF InOrder
<1> QED
  BY <1>3 DEF t

\* Two logs in order may be joined when one follows the other.
LEMMA ConcatInOrder ==
  ASSUME NEW s \in Seq(UndoRec), NEW t \in Seq(UndoRec), InOrder(s), InOrder(t),
         \A i \in DOMAIN s, j \in DOMAIN t : Follows(s[i], t[j])
  PROVE  /\ InOrder(s \o t)
         /\ \A d : Names(s \o t, d) <=> Names(s, d) \/ Names(t, d)
<1> DEFINE m == Len(s)
           n == Len(t)
           u == s \o t
<1>1. /\ m \in Nat /\ n \in Nat /\ DOMAIN s = 1..m /\ DOMAIN t = 1..n /\ DOMAIN u = 1..(m + n)
      /\ \A i \in 1..(m + n) : u[i] = IF i <= m THEN s[i] ELSE t[i - m]
  BY ConcatFacts
<1>n. m \in Nat /\ n \in Nat
  BY <1>1
<1> HIDE DEF m, n, u
<1>2. \A i \in 1..(m + n) : \/ i <= m /\ i \in 1..m
                            \/ ~(i <= m) /\ i - m \in 1..n
  BY <1>n
<1>3. \A i, j \in 1..(m + n) : i < j /\ ~(i <= m) => ~(j <= m) /\ i - m < j - m
  BY <1>n
<1>4. ASSUME NEW i \in 1..(m + n), NEW j \in 1..(m + n), i < j
      PROVE  Follows(u[i], u[j])
  <2>1. CASE i <= m /\ j <= m
    BY <1>1, <1>2, <1>4, <2>1 DEF InOrder
  <2>2. CASE i <= m /\ ~(j <= m)
    BY <1>1, <1>2, <1>4, <2>2
  <2>3. CASE ~(i <= m)
    BY <1>1, <1>2, <1>3, <1>4, <2>3 DEF InOrder
  <2> QED
    BY <2>1, <2>2, <2>3
<1>5. InOrder(u)
  BY <1>1, <1>4 DEF InOrder
<1>6. \A i \in 1..m : i \in 1..(m + n) /\ i <= m
  BY <1>n
<1>7. \A i \in 1..n : m + i \in 1..(m + n) /\ ~(m + i <= m) /\ (m + i) - m = i
  BY <1>n
<1>8. \A d : Names(u, d) <=> Names(s, d) \/ Names(t, d)
  BY <1>1, <1>2, <1>6, <1>7 DEF Names
<1> QED
  BY <1>5, <1>8 DEF u

\* A directory whose removal is pending is a directory.
LEMMA PendingDirs ==
  ASSUME TypeInv, NEW j \in DOMAIN pend, pend[j].op = "rmdir"
  PROVE  pend[j].dir \in Dirs
<1>1. pend[j] \in PendingOp
  BY ElementOfSeq DEF TypeInv, LogType
<1> QED
  BY <1>1 DEF PendingOp

\* Steps that neither make nor remove a logged directory.
LEMMA QuietOwned ==
  ASSUME TypeInv, OwnedInv, UNCHANGED <<dirs, notRemoved, app, uninstaller>>,
         \A a \in Apps : Log(a)' = Log(a), ThinsDirs(list', list),
         \A j \in DOMAIN pend' : pend'[j].op = "rmdir" => \E k \in DOMAIN pend : pend[k] = pend'[j]
  PROVE  OwnedInv'
<1>1. \A d : Retries(d)' = Retries(d)
  BY DEF Retries
<1>2. /\ InOrder(list')
      /\ \A d \in Dirs : Names(list', d) => Names(list, d)
      /\ \A i \in DOMAIN list' : list'[i].typ = "dir" => \E m \in DOMAIN list : list'[i] = list[m]
  BY ThinnerInOrder DEF OwnedInv, LogsInOrder
<1>3. app \in Apps /\ app' = app /\ \A a \in Apps : Records(dat'[a]) = Records(dat[a])
  BY DEF TypeInv, ProcessType, Log
<1>4. DirsClosed'
  BY DEF OwnedInv, DirsClosed
<1>5. LogsInOrder'
  <2>1. ASSUME ~uninstaller, NEW i \in DOMAIN Log(app), NEW j \in DOMAIN list'
        PROVE  Follows(Log(app)[i], list'[j])
    BY <1>2, <2>1 DEF OwnedInv, LogsInOrder, Follows
  <2> QED
    BY <1>2, <1>3, <2>1 DEF OwnedInv, LogsInOrder, Log
<1>6. OneOwner'
  BY <1>1, <1>2, <1>3 DEF OwnedInv, OneOwner, Log
<1>7. OwnedExist'
  BY <1>2, <1>3 DEF OwnedInv, OwnedExist, Log
<1>8. PendingUnowned'
  <2> SUFFICES ASSUME NEW j \in DOMAIN pend', pend'[j].op = "rmdir"
               PROVE  /\ pend'[j].dir \in dirs' /\ ~Names(list', pend'[j].dir)
                      /\ \A m \in DOMAIN notRemoved : notRemoved[m] # pend'[j].dir
                      /\ \A a \in Apps : ~Names(Log(a), pend'[j].dir)
    BY <1>3 DEF PendingUnowned, Retries, Log
  <2>1. PICK k \in DOMAIN pend : pend[k] = pend'[j]
    OBVIOUS
  <2>2. PICK d \in Dirs : d = pend[k].dir
    BY <2>1, PendingDirs
  <2>3. d \in dirs /\ ~Names(list, d) /\ ~Retries(d) /\ \A a \in Apps : ~Names(Log(a), d)
    BY <2>1, <2>2 DEF OwnedInv, PendingUnowned
  <2>4. d \in dirs' /\ ~Names(list', d)
    BY <1>2, <2>3
  <2> QED
    BY <2>1, <2>2, <2>3, <2>4 DEF Retries
<1> QED
  BY <1>4, <1>5, <1>6, <1>7, <1>8 DEF OwnedInv

\* A session makes a directory, and may record it if it is new.
LEMMA MakeOwned ==
  ASSUME TypeInv, TypeInv', OwnedInv, ~uninstaller, notRemoved = <<>>,
         UNCHANGED <<notRemoved, app, uninstaller, pend, dat>>,
         NEW e \in Dirs, dirs' = dirs \cup {e}, e \in dirs \/ Parent[e] \in dirs,
         list' = list \/ (list' = Append(list, DirRec(e)) /\ e \notin dirs)
  PROVE  OwnedInv'
<1>0. \A d : ~Retries(d) /\ ~Retries(d)'
  BY EmptySeq DEF Retries
<1>1. /\ app \in Apps /\ \A a \in Apps : Log(a) \in Seq(UndoRec)
      /\ list \in Seq(UndoRec) /\ dirs \in SUBSET Dirs
  BY RecordsType DEF Log, TypeInv, LogType, ProcessType, DiskType
<1>2. /\ \A i \in DOMAIN Log(app) : Log(app)[i] \in UndoRec
                                    /\ (Log(app)[i].typ = "dir" => Log(app)[i].dir \in dirs)
      /\ \A i \in DOMAIN list : list[i] \in UndoRec /\ (list[i].typ = "dir" => list[i].dir \in dirs)
  <2>1. \A s \in {Log(app), list} : \A i \in DOMAIN s : s[i].typ = "dir" =>
          s[i] = DirRec(s[i].dir) /\ s[i].dir \in Dirs
    BY <1>1, RecordKinds, ElementOfSeq
  <2>2. \A d \in Dirs : Names(Log(app), d) \/ Names(list, d) => d \in dirs
    BY <1>1 DEF OwnedInv, OwnedExist
  <2> QED
    BY <1>1, <2>1, <2>2, ElementOfSeq DEF Names
<1>3. DirsClosed'
  BY DEF OwnedInv, DirsClosed
<1>4. CASE list' = list
  <2>1. LogsInOrder' /\ OneOwner' /\ OwnedExist'
    BY <1>0, <1>4 DEF OwnedInv, LogsInOrder, OneOwner, OwnedExist, Log
  <2>2. PendingUnowned'
    BY <1>0, <1>4 DEF OwnedInv, PendingUnowned, Log
  <2> QED
    BY <1>3, <2>1, <2>2 DEF OwnedInv
<1>5. CASE list' = Append(list, DirRec(e)) /\ e \notin dirs
  <2>1. /\ \A i \in DOMAIN Log(app) : Follows(Log(app)[i], DirRec(e))
        /\ \A i \in DOMAIN list : Follows(list[i], DirRec(e))
    BY <1>1, <1>2, <1>5, NewDirFollows DEF OwnedInv, DirsClosed
  <2>2. InOrder(list')
    BY <1>1, <1>5, <2>1, AppendInOrder, RecordKinds DEF OwnedInv, LogsInOrder
  <2>3. \A j \in DOMAIN list' : list'[j] = DirRec(e) \/ \E m \in DOMAIN list : list'[j] = list[m]
    <3> DEFINE n == Len(list)
    <3>1. /\ n \in Nat /\ DOMAIN list = 1..n /\ DOMAIN list' = 1..(n + 1)
          /\ list'[n + 1] = DirRec(e) /\ \A i \in 1..n : list'[i] = list[i]
      BY <1>1, <1>5, RecordKinds, AppendFacts
    <3>2. n \in Nat
      BY <3>1
    <3> HIDE DEF n
    <3>3. \A i \in 1..(n + 1) : i \in 1..n \/ i = n + 1
      BY <3>2
    <3> QED
      BY <3>1, <3>3
  <2>4. \A d \in Dirs : Names(list', d) => Names(list, d) \/ d = e
    BY <2>3, RecordKinds DEF Names
  <2>5. LogsInOrder'
    <3>1. \A i \in DOMAIN Log(app), j \in DOMAIN list' : Follows(Log(app)[i], list'[j])
      BY <2>1, <2>3 DEF OwnedInv, LogsInOrder
    <3> QED
      BY <2>2, <3>1 DEF OwnedInv, LogsInOrder, Log
  <2>6. \A a \in Apps : ~Names(Log(a), e)
    BY <1>5 DEF OwnedInv, OwnedExist
  <2>7. OneOwner'
    BY <1>0, <2>4, <2>6 DEF OwnedInv, OneOwner, Log
  <2>8. OwnedExist'
    BY <2>4 DEF OwnedInv, OwnedExist, Log
  <2>9. PendingUnowned'
    <3> SUFFICES ASSUME NEW j \in DOMAIN pend, pend[j].op = "rmdir"
                 PROVE  /\ pend[j].dir \in dirs' /\ ~Names(list', pend[j].dir)
                        /\ \A a \in Apps : ~Names(Log(a), pend[j].dir)
      BY <1>0 DEF PendingUnowned, Log
    <3>1. /\ pend[j].dir \in dirs /\ ~Names(list, pend[j].dir)
          /\ \A a \in Apps : ~Names(Log(a), pend[j].dir)
      BY DEF OwnedInv, PendingUnowned
    <3> QED
      BY <1>1, <1>5, <2>4, <3>1
  <2> QED
    BY <1>3, <2>5, <2>7, <2>8, <2>9 DEF OwnedInv
<1> QED
  BY <1>4, <1>5

\* What MakeDir makes lies in a directory that exists.
LEMMA MadeDirLies ==
  ASSUME NEW d \in Dirs, NEW o, MakeParent(d, o) \/ MakeLast(d, o), Root \in dirs,
         "alwaysuninstall" \notin o
  PROVE  \E e \in Dirs : /\ dirs' = dirs \cup {e}
                         /\ e \in dirs \/ Parent[e] \in dirs
                         /\ list' = list \/ (list' = Append(list, DirRec(e)) /\ e \notin dirs)
<1>1. Path[d] \in SUBSET Dirs
  BY PathFacts
<1>2. CASE MakeParent(d, o)
  BY <1>1, <1>2 DEF MakeParent
<1>3. CASE MakeLast(d, o)
  <2>1. d \in dirs \/ Parent[d] \in dirs
    <3>1. CASE d # Root
      <4>1. Parent[d] \in Path[d] \ {d}
        BY <3>1, PathFacts, ParentDiffers
      <4> QED
        BY <1>3, <4>1 DEF MakeLast
    <3> QED
      BY <3>1
  <2> QED
    BY <1>3, <2>1 DEF MakeLast
<1> QED
  BY <1>2, <1>3

\* A directory goes, or is to be tried again.
LEMMA UndoDirOwned ==
  ASSUME TypeInv, TypeInv', OwnedInv, UndoDir
  PROVE  OwnedInv'
<1>1. /\ pc = "step3" /\ list # <<>> /\ Newest.typ = "dir" /\ list' = Front(list)
      /\ UNCHANGED <<app, uninstaller, dat, pend>>
  BY DEF UndoDir, TakeNewest, process
<1>2. /\ app \in Apps /\ list \in Seq(UndoRec) /\ dirs \in SUBSET Dirs
      /\ notRemoved \in Seq(Dirs)
  BY DEF TypeInv, ProcessType, LogType, DiskType, UndoType
<1>d. PICK d \in Dirs : d = Newest.dir /\ Newest = DirRec(d)
  BY <1>1, NewestType, RecordKinds
<1>3. Names(list, d)
  BY <1>d, <1>1, NewestType DEF Names
<1>4. /\ InOrder(list') /\ \A x \in Dirs : Names(list', x) => Names(list, x)
      /\ \A i \in DOMAIN list' : list'[i].typ = "dir" => \E m \in DOMAIN list : list'[i] = list[m]
  BY <1>1, <1>2, Thinner, ThinnerInOrder DEF OwnedInv, LogsInOrder
<1>5. ~Names(list', d)
  <2> DEFINE n == Len(list)
  <2>1. /\ DOMAIN list = 1..n /\ DOMAIN list' = 1..(n - 1)
        /\ \A i \in 1..(n - 1) : list'[i] = list[i]
        /\ list[n] = DirRec(d) /\ n \in Nat \ {0}
    BY <1>1, <1>2, <1>d, FrontFacts, NewestType
  <2>2. n \in Nat \ {0}
    BY <2>1
  <2> HIDE DEF n
  <2>3. \A i \in 1..(n - 1) : i \in 1..n /\ n \in 1..n /\ i < n
    BY <2>2
  <2>4. \A i \in 1..(n - 1) : Follows(list[i], DirRec(d))
    BY <2>1, <2>3 DEF OwnedInv, LogsInOrder, InOrder
  <2> QED
    BY <2>1, <2>4, RecordKinds DEF Names, Follows
<1>6. /\ \A a \in Apps : Names(Log(a), d) => a = app /\ uninstaller
      /\ ~Retries(d)
      /\ \A j \in DOMAIN pend : pend[j].op = "rmdir" => pend[j].dir # d
  BY <1>2, <1>3 DEF OwnedInv, OneOwner, PendingUnowned
<1>7. \/ /\ dirs' = dirs \ {d} /\ UNCHANGED notRemoved
         /\ d \in dirs => IsEmptyDir(d)
      \/ dirs' = dirs /\ notRemoved' = RetryLater(d)
  BY <1>d DEF UndoDir
<1>8. LogsInOrder'
  <2>1. ASSUME ~uninstaller, NEW i \in DOMAIN Log(app), NEW j \in DOMAIN list'
        PROVE  Follows(Log(app)[i], list'[j])
    BY <1>4, <2>1 DEF OwnedInv, LogsInOrder, Follows
  <2> QED
    BY <1>1, <1>4, <2>1 DEF OwnedInv, LogsInOrder, Log
<1>9. CASE dirs' = dirs \ {d} /\ UNCHANGED notRemoved /\ (d \in dirs => IsEmptyDir(d))
  <2>0. \A x : Retries(x)' = Retries(x)
    BY <1>9 DEF Retries
  <2>1. DirsClosed'
    BY <1>9, <1>2 DEF OwnedInv, DirsClosed, IsEmptyDir, EmptyIn
  <2>2. OneOwner'
    BY <1>1, <1>4, <1>9, <2>0 DEF OwnedInv, OneOwner, Log
  <2>3. OwnedExist'
    BY <1>1, <1>4, <1>5, <1>6, <1>9 DEF OwnedInv, OwnedExist, Log
  <2>4. PendingUnowned'
    BY <1>1, <1>6, <1>9, <2>0, PendingDirs, <1>4 DEF OwnedInv, PendingUnowned, Log, Retries
  <2> QED
    BY <1>8, <2>1, <2>2, <2>3, <2>4 DEF OwnedInv
<1>10. CASE dirs' = dirs /\ notRemoved' = RetryLater(d)
  <2>1. DirsClosed'
    BY <1>10 DEF OwnedInv, DirsClosed
  <2>2. CASE ~uninstaller
    <3>1. notRemoved' = notRemoved
      BY <1>10, <2>2 DEF RetryLater
    <3>2. OneOwner' /\ OwnedExist'
      BY <1>1, <1>4, <1>10, <3>1 DEF OwnedInv, OneOwner, OwnedExist, Log, Retries
    <3>3. PendingUnowned'
      BY <1>1, <1>4, <1>10, <3>1, PendingDirs DEF OwnedInv, PendingUnowned, Log, Retries
    <3> QED
      BY <1>8, <2>1, <3>2, <3>3 DEF OwnedInv
  <2>3. CASE uninstaller
    <3>0. /\ \A x : Retries(x)' <=> Retries(x) \/ x = d
          /\ \A j \in DOMAIN notRemoved' :
               \/ j \in DOMAIN notRemoved /\ notRemoved'[j] = notRemoved[j]
               \/ /\ notRemoved'[j] = d /\ ~Retries(d)
                  /\ \A i \in DOMAIN notRemoved : i < j
          /\ \A i \in DOMAIN notRemoved : notRemoved'[i] = notRemoved[i]
      BY <1>10, <2>3, RetryFacts
    <3>1. \A i, j \in DOMAIN notRemoved' : notRemoved'[i] = notRemoved'[j] => i = j
      <4> SUFFICES ASSUME NEW i \in DOMAIN notRemoved', NEW j \in DOMAIN notRemoved',
                          notRemoved'[i] = notRemoved'[j]
                   PROVE  i = j
        OBVIOUS
      <4>1. CASE notRemoved'[i] # d
        BY <3>0, <4>1 DEF OwnedInv, OneOwner
      <4>2. CASE notRemoved'[i] = d
        <5>1. i \notin DOMAIN notRemoved /\ j \notin DOMAIN notRemoved
          BY <1>6, <3>0, <4>2 DEF Retries
        <5>2. notRemoved' = Append(notRemoved, d)
          BY <1>2, <1>6, <1>10, <2>3 DEF RetryLater, Contains, Retries
        <5>3. /\ DOMAIN notRemoved = 1..Len(notRemoved) /\ Len(notRemoved) \in Nat
              /\ DOMAIN notRemoved' = 1..(Len(notRemoved) + 1)
          BY <1>2, <5>2, AppendFacts
        <5> DEFINE n == Len(notRemoved)
        <5>4. n \in Nat /\ i \in 1..(n + 1) /\ j \in 1..(n + 1) /\ i \notin 1..n /\ j \notin 1..n
          BY <5>1, <5>3
        <5> HIDE DEF n
        <5> QED
          BY <5>4
      <4> QED
        BY <4>1, <4>2
    <3>2. OneOwner'
      <4>1. \A a \in Apps, x \in Dirs :
              Names(list', x) \/ Retries(x) \/ x = d => ~Names(Log(a), x) \/ (a = app /\ uninstaller)
        BY <1>4, <1>6 DEF OwnedInv, OneOwner
      <4>2. \A x \in Dirs : Names(list', x) => ~Retries(x) /\ x # d
        BY <1>4, <1>5 DEF OwnedInv, OneOwner
      <4> QED
        BY <1>1, <3>0, <3>1, <4>1, <4>2 DEF OwnedInv, OneOwner, Log
    <3>3. OwnedExist'
      BY <1>1, <1>4, <1>10 DEF OwnedInv, OwnedExist, Log
    <3>4. PendingUnowned'
      <4> SUFFICES ASSUME NEW j \in DOMAIN pend, pend[j].op = "rmdir"
                   PROVE  /\ pend[j].dir \in dirs /\ ~Names(list', pend[j].dir)
                          /\ \A m \in DOMAIN notRemoved' : notRemoved'[m] # pend[j].dir
                          /\ \A a \in Apps : ~Names(Log(a), pend[j].dir)
        BY <1>1, <1>10 DEF PendingUnowned, Log, Retries
      <4>1. /\ pend[j].dir \in dirs /\ ~Names(list, pend[j].dir) /\ pend[j].dir \in Dirs
            /\ ~Retries(pend[j].dir) /\ \A a \in Apps : ~Names(Log(a), pend[j].dir)
        BY PendingDirs DEF OwnedInv, PendingUnowned
      <4>2. \A m \in DOMAIN notRemoved' : notRemoved'[m] # pend[j].dir
        BY <1>6, <3>0, <4>1 DEF Retries
      <4> QED
        BY <1>4, <4>1, <4>2
    <3> QED
      BY <1>8, <2>1, <3>2, <3>3, <3>4 DEF OwnedInv
  <2> QED
    BY <2>2, <2>3
<1> QED
  BY <1>7, <1>9, <1>10

\* The oldest of the directories to try again goes, or is left to the restart.
LEMMA ProcessDirsOwned ==
  ASSUME TypeInv, TypeInv', OwnedInv, ProcessDirsNotRemoved
  PROVE  OwnedInv'
<1> DEFINE n == Len(notRemoved)
<1>1. /\ pc = "retrydirs" /\ notRemoved # <<>> /\ notRemoved' = Tail(notRemoved)
      /\ UNCHANGED <<app, uninstaller, dat, list>> /\ uninstaller /\ list = <<>> /\ dat[app] = NoLog
      /\ app \in Apps /\ dirs \in SUBSET Dirs /\ notRemoved \in Seq(Dirs)
  BY DEF ProcessDirsNotRemoved, process, TypeInv, UndoType, Control, ProcessType, DiskType
<1>2. PICK h \in Dirs : h = Head(notRemoved) /\ h = notRemoved[1]
  BY <1>1
<1>3. /\ n \in Nat \ {0} /\ DOMAIN notRemoved = 1..n /\ DOMAIN notRemoved' = 1..(n - 1)
      /\ \A i \in 1..(n - 1) : notRemoved'[i] = notRemoved[i + 1]
  BY <1>1, TailFacts
<1>n. n \in Nat \ {0}
  BY <1>3
<1> HIDE DEF n
<1>4. /\ \A i \in 1..(n - 1) : i + 1 \in 1..n /\ i + 1 # 1
      /\ \A i, j \in 1..(n - 1) : i + 1 = j + 1 => i = j
      /\ 1 \in 1..n
  BY <1>n
<1>5. \A x : ~Names(list, x)
  BY <1>1, EmptySeq DEF Names
<1>6. ~Names(Log(app), h) /\ \A a \in Apps : ~Names(Log(a), h)
  <2>1. \A x : ~Names(Log(app), x)
    BY <1>1, EmptySeq DEF Names, Log, Records
  <2>2. Retries(h)
    BY <1>2, <1>3, <1>4 DEF Retries
  <2> QED
    BY <1>1, <2>1, <2>2 DEF OwnedInv, OneOwner
<1>7. \A i \in 1..(n - 1) : notRemoved'[i] # h
  BY <1>2, <1>3, <1>4 DEF OwnedInv, OneOwner
<1>8. \A x : Retries(x)' => Retries(x)
  BY <1>3, <1>4 DEF Retries
<1>9. \/ dirs' = dirs \ {h} /\ pend' = pend /\ (h \in dirs => IsEmptyDir(h))
      \/ h \in dirs /\ dirs' = dirs /\ pend' = pend
      \/ h \in dirs /\ dirs' = dirs /\ pend' = Append(pend, [op |-> "rmdir", dir |-> h])
  BY <1>2 DEF ProcessDirsNotRemoved
<1>10. DirsClosed'
  BY <1>1, <1>9 DEF OwnedInv, DirsClosed, IsEmptyDir, EmptyIn
<1>11. LogsInOrder'
  BY <1>1 DEF OwnedInv, LogsInOrder, Log
<1>12. OneOwner'
  <2>1. \A i, j \in 1..(n - 1) : notRemoved'[i] = notRemoved'[j] => i = j
    BY <1>3, <1>4 DEF OwnedInv, OneOwner
  <2> QED
    BY <1>1, <1>3, <1>8, <2>1 DEF OwnedInv, OneOwner, Log
<1>13. OwnedExist'
  BY <1>1, <1>5, <1>6, <1>9 DEF OwnedInv, OwnedExist, Log
<1>14. ASSUME NEW j \in DOMAIN pend, pend[j].op = "rmdir"
       PROVE  /\ pend[j].dir \in dirs' /\ \A m \in 1..(n - 1) : notRemoved'[m] # pend[j].dir
              /\ \A a \in Apps : ~Names(Log(a), pend[j].dir)
  <2>1. /\ pend[j].dir \in dirs /\ ~Retries(pend[j].dir)
        /\ \A a \in Apps : ~Names(Log(a), pend[j].dir)
    BY <1>14 DEF OwnedInv, PendingUnowned
  <2>2. \A m \in 1..n : notRemoved[m] # pend[j].dir
    BY <1>3, <2>1 DEF Retries
  <2> QED
    BY <1>2, <1>3, <1>4, <1>9, <2>1, <2>2
<1>15. PendingUnowned'
  <2>1. CASE pend' = pend
    BY <1>1, <1>3, <1>5, <1>14, <2>1 DEF PendingUnowned, Retries, Log
  <2>2. CASE h \in dirs /\ dirs' = dirs /\ pend' = Append(pend, [op |-> "rmdir", dir |-> h])
    <3> DEFINE o == [op |-> "rmdir", dir |-> h]
    <3>0. o \in PendingOp /\ pend \in Seq(PendingOp)
      BY DEF PendingOp, TypeInv, LogType
    <3>1. /\ Len(pend) \in Nat /\ DOMAIN pend = 1..Len(pend)
          /\ DOMAIN pend' = 1..(Len(pend) + 1)
          /\ \A i \in 1..Len(pend) : pend'[i] = pend[i]
          /\ pend'[Len(pend) + 1] = o
      BY <2>2, <3>0, AppendFacts
    <3>2. o.dir = h
      OBVIOUS
    <3> HIDE DEF o
    <3>3. \A j \in DOMAIN pend' : (j \in DOMAIN pend /\ pend'[j] = pend[j]) \/ pend'[j] = o
      <4> DEFINE k == Len(pend)
      <4>1. k \in Nat
        BY <3>1
      <4> HIDE DEF k
      <4>2. \A i \in 1..(k + 1) : i \in 1..k \/ i = k + 1
        BY <4>1
      <4> QED
        BY <3>1, <4>2 DEF k
    <3>4. ASSUME NEW j \in DOMAIN pend', pend'[j].op = "rmdir"
          PROVE  /\ pend'[j].dir \in dirs' /\ \A m \in 1..(n - 1) : notRemoved'[m] # pend'[j].dir
                 /\ \A a \in Apps : ~Names(Log(a), pend'[j].dir)
      <4>1. CASE j \in DOMAIN pend /\ pend'[j] = pend[j]
        BY <1>14, <3>4, <4>1
      <4>2. CASE pend'[j] = o
        BY <1>6, <1>7, <2>2, <3>2, <4>2
      <4> QED
        BY <3>3, <4>1, <4>2
    <3> QED
      BY <1>1, <1>3, <1>5, <3>4 DEF PendingUnowned, Retries, Log
  <2> QED
    BY <1>9, <2>1, <2>2
<1> QED
  BY <1>10, <1>11, <1>12, <1>13, <1>15 DEF OwnedInv

\* The restart takes directories nobody owns, and none with one in it.
LEMMA RestartOwned ==
  ASSUME TypeInv, OwnedInv, Restart
  PROVE  OwnedInv'
<1> DEFINE w0 == [fs |-> fs, temps |-> temps, dirs |-> dirs]
           Going(d) == \E j \in DOMAIN pend : pend[j].op = "rmdir" /\ pend[j].dir = d
           W == {w \in Machine : /\ Root \in w.dirs /\ \A d \in w.dirs \ {Root} : Parent[d] \in w.dirs
                                 /\ w.dirs \subseteq dirs
                                 /\ \A d \in dirs \ w.dirs : Going(d)}
<1>1. w0 \in W
  BY DEF TypeInv, DiskType, Machine, OwnedInv, DirsClosed
<1>2. pend \in Seq(PendingOp) /\ \A i \in DOMAIN pend : pend[i] \in PendingOp
  BY DEF TypeInv, LogType
<1>3. ASSUME NEW w \in W, NEW i \in DOMAIN pend PROVE Pending(w, pend[i]) \in W
  <2> DEFINE op == pend[i]
  <2>1. op \in PendingOp /\ Pending(w, op) \in Machine /\ w \in Machine
    BY <1>2, PendingMachine
  <2>2. CASE op.op = "rmdir" /\ EmptyIn(op.dir, w.fs, w.temps, w.dirs)
    <3>1. Pending(w, op) = [w EXCEPT !.dirs = @ \ {op.dir}]
      BY <2>2 DEF Pending
    <3>2. Pending(w, op).dirs = w.dirs \ {op.dir}
      BY <2>1, <3>1 DEF Machine
    <3>3. Going(op.dir) /\ op.dir # Root /\ \A e \in w.dirs \ {Root} : Parent[e] # op.dir
      BY <2>2 DEF EmptyIn
    <3> QED
      BY <2>1, <3>2, <3>3
  <2>3. CASE ~(op.op = "rmdir" /\ EmptyIn(op.dir, w.fs, w.temps, w.dirs))
    <3>1. Pending(w, op).dirs = w.dirs
      BY <2>1, <2>3 DEF Pending, Machine
    <3> QED
      BY <2>1, <3>1
  <2> QED
    BY <2>2, <2>3
<1>4. FoldLeft(Pending, w0, pend) \in W
  <2> HIDE DEF w0, W
  <2> QED
    BY <1>1, <1>2, <1>3, PendingKeeps
<1>5. /\ dirs' = FoldLeft(Pending, w0, pend).dirs /\ pend' = <<>> /\ list = <<>>
      /\ UNCHANGED <<dat, list, app, uninstaller, notRemoved>> /\ notRemoved = <<>> /\ ~uninstaller
  BY DEF Restart, process, undo, TypeInv, Control
<1>6. /\ DirsClosed' /\ \A d \in dirs \ dirs' : Going(d)
  <2> HIDE DEF w0
  <2> QED
    BY <1>4, <1>5 DEF DirsClosed
<1>7. \A d : ~Names(list, d)
  BY <1>5, EmptySeq DEF Names
<1>8. \A d, a : a \in Apps /\ Going(d) => ~Names(Log(a), d)
  BY DEF OwnedInv, PendingUnowned
<1>9. LogsInOrder' /\ OneOwner'
  BY <1>5 DEF OwnedInv, LogsInOrder, OneOwner, Log, Retries
<1>10. OwnedExist'
  BY <1>5, <1>6, <1>7, <1>8 DEF OwnedInv, OwnedExist, Log
<1>11. PendingUnowned'
  BY <1>5, EmptySeq DEF PendingUnowned
<1> QED
  BY <1>6, <1>9, <1>10, <1>11 DEF OwnedInv

\* What joins the pending operations is no removal of a directory.
LEMMA PendingMore ==
  ASSUME TypeInv, TypeInv', NEW o, o.op # "rmdir", pend' = pend \/ pend' = Append(pend, o)
  PROVE  \A j \in DOMAIN pend' : pend'[j].op = "rmdir" => \E k \in DOMAIN pend : pend[k] = pend'[j]
<1>1. CASE pend' = pend
  BY <1>1
<1>2. CASE pend' = Append(pend, o)
  <2> DEFINE n == Len(pend)
  <2>1. pend \in Seq(PendingOp)
    BY DEF TypeInv, LogType
  <2>2. pend \in Seq(PendingOp \cup {o}) /\ o \in PendingOp \cup {o}
    BY <2>1
  <2>3. /\ n \in Nat /\ DOMAIN pend = 1..n /\ DOMAIN pend' = 1..(n + 1)
        /\ \A i \in 1..n : pend'[i] = pend[i]
        /\ pend'[n + 1] = o
    BY <1>2, <2>2, AppendFacts
  <2>4. n \in Nat
    BY <2>3
  <2> HIDE DEF n
  <2>5. \A i \in 1..(n + 1) : i \in 1..n \/ i = n + 1
    BY <2>4
  <2> QED
    BY <2>3, <2>5
<1> QED
  BY <1>1, <1>2

\* What saving the list, and deleting the log, make of the logs.
LEMMA LogSaved ==
  ASSUME TypeInv, SaveLog
  PROVE  \A a \in Apps : Log(a)' = IF a = app THEN Log(app) \o list ELSE Log(a)
<1>0. /\ dat \in [Apps -> {NoLog, Reserved} \cup Seq(UndoRec)] /\ app \in Apps
      /\ Log(app) \in Seq(UndoRec) /\ list \in Seq(UndoRec)
  BY RecordsType DEF TypeInv, ProcessType, LogType, Log
<1>1. Log(app) \o list \in Seq(UndoRec)
  BY <1>0, ConcatFacts
<1> QED
  BY <1>0, <1>1, RecordsType DEF SaveLog, Log

\* The uninstaller deletes its own log, and no other.
LEMMA LogDeleted ==
  ASSUME TypeInv, DeleteUninstallDataFiles
  PROVE  \A a \in Apps : Records(dat'[a]) = IF a = app THEN <<>> ELSE Log(a)
BY DEF DeleteUninstallDataFiles, Log, Records, TypeInv, ProcessType, LogType

\* A process ends, or a session starts, with nothing in hand.
LEMMA ResetOwned ==
  ASSUME TypeInv, OwnedInv, UNCHANGED <<dirs, pend>>, ~uninstaller',
         list' = <<>>, notRemoved' = <<>>, \A a \in Apps : Log(a)' = Log(a),
         uninstaller => \A d : ~Names(Log(app), d), app' \in Apps
  PROVE  OwnedInv'
<1>1. /\ \A d : ~Names(list', d) /\ ~Retries(d)'
      /\ \A j \in DOMAIN list' : FALSE
      /\ \A j \in DOMAIN notRemoved' : FALSE
  BY EmptySeq DEF Names, Retries
<1>2. \A a \in Apps : Records(dat'[a]) = Records(dat[a])
  BY DEF Log
<1>3. DirsClosed'
  BY DEF OwnedInv, DirsClosed
<1>4. LogsInOrder' /\ OneOwner'
  BY <1>1, <1>2 DEF OwnedInv, LogsInOrder, OneOwner, InOrder, Log
<1>5. OwnedExist'
  BY <1>1, <1>2 DEF OwnedInv, OwnedExist, Log
<1>6. PendingUnowned'
  BY <1>1, <1>2 DEF OwnedInv, PendingUnowned, Log, Retries
<1> QED
  BY <1>3, <1>4, <1>5, <1>6 DEF OwnedInv

\* Every step keeps what OwnedInv says of whose directories are whose.
LEMMA OwnedStep ==
  ASSUME TypeInv, TypeInv', OwnedInv, NoneAlways, "uninstall" \notin CrashIn, [Next]_vars
  PROVE  OwnedInv'
<1>0. /\ app \in Apps /\ app' \in Apps /\ list \in Seq(UndoRec) /\ Control
      /\ \A a \in Apps : Log(a) \in Seq(UndoRec)
  BY RecordsType DEF Log, TypeInv, LogType, ProcessType
<1>t. ThinsDirs(list, list) /\ \A r \in UndoRec : r.typ # "dir" => ThinsDirs(Append(list, r), list)
  BY <1>0, Thinner
<1>1. CASE \E a \in Apps : StartInstall(a)
  <2>1. ~uninstaller /\ notRemoved = <<>>
    BY <1>0, <1>1 DEF StartInstall, Control
  <2> QED
    BY <1>0, <1>1, <2>1, ResetOwned DEF StartInstall, Log, disk, undo
<1>2. CASE \E a \in Apps : StartUninstall(a)
  <2>1. PICK a \in Apps : StartUninstall(a)
    BY <1>2
  <2>2. /\ ~uninstaller /\ notRemoved = <<>> /\ uninstaller' /\ list' = Log(a) /\ app' = a
        /\ UNCHANGED <<dirs, notRemoved, pend, dat>>
    BY <1>0, <2>1 DEF StartUninstall, Control, disk
  <2>3. \A d : ~Retries(d) /\ ~Retries(d)'
    BY <2>2, EmptySeq DEF Retries
  <2>4. DirsClosed' /\ LogsInOrder'
    BY <2>2 DEF OwnedInv, DirsClosed, LogsInOrder, Log
  <2>5. OneOwner' /\ OwnedExist'
    BY <1>0, <2>2, <2>3 DEF OwnedInv, OneOwner, OwnedExist, Log
  <2>6. PendingUnowned'
    BY <2>2 DEF OwnedInv, PendingUnowned, Log, Retries
  <2> QED
    BY <2>4, <2>5, <2>6 DEF OwnedInv
<1>3. CASE CreateDirs
  <2>1. ~uninstaller /\ notRemoved = <<>>
    BY <1>0, <1>3 DEF CreateDirs, Control, InstallPhases, UndoPhases
  <2>2. Wanted(app)[idx].dir \in Dirs
    BY <1>3, AskedDir DEF CreateDirs
  <2>3. "alwaysuninstall" \notin Wanted(app)[idx].opts
    <3>1. idx \in 1..Len(Wanted(app))
      BY <1>0, <1>3 DEF CreateDirs, Control
    <3>2. CASE idx = 1
      <4>1. Wanted(app)[idx] = [dir |-> AppDir[app], opts |-> {}]
        BY <1>0, <3>2, WantedType
      <4> QED
        BY <4>1
    <3>3. CASE idx # 1
      <4>1. /\ idx \in 2..Len(Wanted(app)) /\ idx - 1 \in 1..Len(ExtraDirs[app])
            /\ Wanted(app)[idx] = ExtraDirs[app][idx - 1]
        <5>1. Len(Wanted(app)) = Len(ExtraDirs[app]) + 1
              /\ \A i \in 2..Len(Wanted(app)) : Wanted(app)[i] = ExtraDirs[app][i - 1]
          BY <1>0, WantedType
        <5>2. Len(ExtraDirs[app]) \in Nat
          BY <1>0, TransactionAssumption
        <5> QED
          BY <3>1, <3>3, <5>1, <5>2
      <4> QED
        BY <1>0, <4>1, TransactionAssumption DEF NoneAlways
    <3> QED
      BY <3>2, <3>3
  <2>4. UNCHANGED <<notRemoved, app, uninstaller, pend, dat>>
    BY <1>3 DEF CreateDirs, undo
  <2> QED
    BY <1>3, <2>1, <2>2, <2>3, <2>4, MadeDirLies, MakeOwned DEF CreateDirs, OwnedInv, DirsClosed
<1>4. CASE ExtractToTemp
  <2>1. ~uninstaller /\ notRemoved = <<>>
    BY <1>0, <1>4 DEF ExtractToTemp, Control, InstallPhases, EntryPhases, UndoPhases
  <2>2. DirOf[Cur.file] \in Dirs
    BY <1>4, AskedDir DEF ExtractToTemp
  <2>3. "alwaysuninstall" \notin Cur.opts \cap DirOptions
    BY <1>4, CurType DEF ExtractToTemp, EntryPhases, FileOptions
  <2>4. UNCHANGED <<notRemoved, app, uninstaller, pend, dat>>
    BY <1>4 DEF ExtractToTemp, undo, process
  <2> QED
    BY <1>4, <2>1, <2>2, <2>3, <2>4, MadeDirLies, MakeOwned DEF ExtractToTemp, OwnedInv, DirsClosed
<1>5. CASE SaveLog
  <2>1. /\ ~uninstaller /\ notRemoved' = <<>> /\ ~uninstaller' /\ list' = <<>>
        /\ UNCHANGED <<dirs, pend, app>>
    BY <1>0, <1>5 DEF SaveLog, EndProcess, Control, InstallPhases, disk
  <2>2. \A a \in Apps : Log(a)' = IF a = app THEN Log(app) \o list ELSE Log(a)
    BY <1>5, LogSaved
  <2>3. /\ InOrder(Log(app) \o list)
        /\ \A d : Names(Log(app) \o list, d) <=> Names(Log(app), d) \/ Names(list, d)
    BY <1>0, <2>1, ConcatInOrder DEF OwnedInv, LogsInOrder
  <2>4. /\ \A d : ~Names(list', d) /\ ~Retries(d)'
        /\ \A j \in DOMAIN list' : FALSE
        /\ \A j \in DOMAIN notRemoved' : FALSE
    BY <2>1, EmptySeq DEF Names, Retries
  <2>5. /\ \A a \in Apps : InOrder(Records(dat'[a]))
        /\ \A a \in Apps, d \in Dirs :
             Names(Records(dat'[a]), d) => Names(Log(a), d) \/ (a = app /\ Names(list, d))
    BY <2>2, <2>3 DEF OwnedInv, LogsInOrder, Log
  <2>6. DirsClosed' /\ LogsInOrder'
    BY <2>1, <2>4, <2>5 DEF OwnedInv, DirsClosed, LogsInOrder, InOrder, Log
  <2>7. OneOwner'
    BY <1>0, <2>1, <2>4, <2>5 DEF OwnedInv, OneOwner, Log
  <2>8. OwnedExist'
    BY <1>0, <2>1, <2>4, <2>5 DEF OwnedInv, OwnedExist, Log
  <2>9. PendingUnowned'
    BY <2>1, <2>4, <2>5, PendingDirs DEF OwnedInv, PendingUnowned, Log, Retries
  <2> QED
    BY <2>6, <2>7, <2>8, <2>9 DEF OwnedInv
<1>6. CASE DeleteUninstallDataFiles
  <2>1. /\ uninstaller /\ UNCHANGED <<dirs, pend, app, uninstaller, list, notRemoved>>
    BY <1>6 DEF DeleteUninstallDataFiles, disk, process, undo
  <2>2. \A a \in Apps : Records(dat'[a]) = IF a = app THEN <<>> ELSE Log(a)
    BY <1>6, LogDeleted
  <2>3. (\A d : ~Names(<<>>, d)) /\ InOrder(<<>>)
    BY EmptySeq DEF Names, InOrder
  <2>4. \A a \in Apps, d \in Dirs : Names(Records(dat'[a]), d) => Names(Log(a), d)
    BY <2>2, <2>3
  <2>5. DirsClosed' /\ LogsInOrder'
    BY <2>1, <2>2, <2>3 DEF OwnedInv, DirsClosed, LogsInOrder, Log
  <2>6. OneOwner' /\ OwnedExist'
    BY <1>0, <2>1, <2>4 DEF OwnedInv, OneOwner, OwnedExist, Log, Retries
  <2>7. PendingUnowned'
    BY <2>1, <2>4, PendingDirs DEF OwnedInv, PendingUnowned, Log, Retries
  <2> QED
    BY <2>5, <2>6, <2>7 DEF OwnedInv
<1>7. CASE EndRollback \/ EndUninstall
  <2>1. /\ list' = <<>> /\ notRemoved' = <<>> /\ ~uninstaller' /\ UNCHANGED <<dirs, pend, dat, app>>
        /\ uninstaller => dat[app] = NoLog
    BY <1>0, <1>7 DEF EndRollback, EndUninstall, EndProcess, Control, disk
  <2>2. uninstaller => \A d : ~Names(Log(app), d)
    BY <2>1, EmptySeq DEF Log, Records, Names
  <2> QED
    BY <1>0, <2>1, <2>2, ResetOwned DEF Log
<1>8. CASE Crash
  <2>1. /\ list' = <<>> /\ notRemoved' = <<>> /\ ~uninstaller' /\ UNCHANGED <<dirs, pend, app>>
        /\ ~uninstaller
    BY <1>8 DEF Crash, EndProcess, disk
  <2>2. \A a \in Apps : Log(a)' = Log(a)
    <3>1. ~SaveLog /\ ~DeleteUninstallDataFiles
      BY <1>8 DEF Crash, Fault, SaveLog, DeleteUninstallDataFiles, TypeInv, ProcessType
    <3> QED
      BY <3>1, LogsChange
  <2> QED
    BY <1>0, <2>1, <2>2, ResetOwned
<1>9. CASE Restart
  BY <1>9, RestartOwned
<1>10. CASE UndoDir
  BY <1>10, UndoDirOwned
<1>11. CASE ProcessDirsNotRemoved
  BY <1>11, ProcessDirsOwned
<1>12. CASE UNCHANGED vars
  <2>1. UNCHANGED <<dirs, notRemoved, app, uninstaller, dat, list, pend>>
    BY <1>12 DEF vars, disk, process, undo
  <2> QED
    BY <1>t, <2>1, QuietOwned DEF Log
<1>13. CASE \/ GenerateUninstallInfoFilename \/ BeginEntry \/ DeleteExisting \/ FinishEntry
            \/ EntryRaises \/ AskRetry \/ AskIgnore \/ Cancel \/ Rollback \/ EndStep2
  <2>1. UNCHANGED <<dirs, notRemoved, app, uninstaller, list, pend>>
    BY <1>13 DEF GenerateUninstallInfoFilename, BeginEntry, DeleteExisting, FinishEntry,
         EntryRaises, AskRetry, AskIgnore, Cancel, Rollback, EndStep2, disk, process, undo
  <2>2. \A a \in Apps : Log(a)' = Log(a)
    <3>1. pc' # "idle" /\ ~DeleteUninstallDataFiles
      BY <1>13 DEF GenerateUninstallInfoFilename, BeginEntry, DeleteExisting, FinishEntry,
         EntryRaises, AskRetry, AskIgnore, Cancel, Rollback, EndStep2, NextEntry,
         DeleteUninstallDataFiles
    <3> QED
      BY <3>1, LogsChange DEF SaveLog, EndProcess
  <2> QED
    BY <1>t, <2>1, <2>2, QuietOwned
<1>14. CASE MoveIntoPlace \/ ReplaceOnRestart \/ ShareEntry
  <2>1. /\ UNCHANGED <<dirs, notRemoved, app, uninstaller, dat>> /\ pc \in EntryPhases
    BY <1>14 DEF MoveIntoPlace, ReplaceOnRestart, ShareEntry, disk, process, undo, EntryPhases
  <2>2. list' = list \/ \E r \in UndoRec : r.typ # "dir" /\ list' = Append(list, r)
    <3>1. /\ Cur.file \in Files /\ Cur.opts \in SUBSET FileOptions
          /\ existed \in BOOLEAN /\ tmp \in Temp \cup {NoTmp}
      BY <2>1, CurType DEF TypeInv, EntryType
    <3>2. /\ \A t \in {NoTmp, tmp} : /\ FileRec(Cur.file, t, existed, Cur.opts) \in UndoRec
                                     /\ FileRec(Cur.file, t, existed, Cur.opts).typ # "dir"
          /\ CountRec(Cur.file) \in UndoRec /\ CountRec(Cur.file).typ # "dir"
      BY <3>1, RecordKinds
    <3> QED
      BY <1>14, <3>2 DEF MoveIntoPlace, ReplaceOnRestart, ShareEntry, RecordInstalled
  <2>3. \A j \in DOMAIN pend' : pend'[j].op = "rmdir" => \E k \in DOMAIN pend : pend[k] = pend'[j]
    <3>1. pend' = pend \/ pend' = Append(pend, [op |-> "replace", file |-> Cur.file, tmp |-> tmp])
      BY <1>14 DEF MoveIntoPlace, ReplaceOnRestart, ShareEntry
    <3> QED
      BY <3>1, PendingMore
  <2> QED
    BY <1>t, <2>1, <2>2, <2>3, QuietOwned DEF Log
<1>15. CASE Step2
  <2>1. UNCHANGED <<dirs, notRemoved, app, uninstaller, dat, pend>>
    BY <1>15 DEF Step2, disk, undo
  <2>2. ThinsDirs(list', list)
    <3>1. idx \in 1..Len(list)
      BY <1>15, <1>0 DEF Step2, Control, TypeInv, ProcessType
    <3>2. list' = list \/ list' = RemoveAt(list, idx)
      BY <1>15 DEF Step2
    <3> QED
      BY <1>0, <1>t, <3>1, <3>2, Thinner
  <2> QED
    BY <2>1, <2>2, QuietOwned DEF Log
<1>16. CASE UndoCount \/ UndoFile \/ UndoFileRaises \/ UndoFileInUse
  <2>1. UNCHANGED <<dirs, notRemoved, app, uninstaller, dat>> /\ list # <<>> /\ list' = Front(list)
    BY <1>16 DEF UndoCount, UndoFile, UndoFileRaises, UndoFileInUse, TakeNewest, disk, process
  <2>2. ThinsDirs(list', list)
    BY <1>0, <2>1, Thinner
  <2>3. \A j \in DOMAIN pend' : pend'[j].op = "rmdir" => \E k \in DOMAIN pend : pend[k] = pend'[j]
    <3>1. pend' = pend \/ pend' = Append(pend, [op |-> "delete", file |-> Newest.file])
      BY <1>16 DEF UndoCount, UndoFile, UndoFileRaises, UndoFileInUse
    <3> QED
      BY <3>1, PendingMore
  <2> QED
    BY <2>1, <2>2, <2>3, QuietOwned DEF Log
<1> QED
  BY <1>1, <1>2, <1>3, <1>4, <1>5, <1>6, <1>7, <1>8, <1>9, <1>10, <1>11, <1>12, <1>13, <1>14,
     <1>15, <1>16 DEF Next

\* OwnedInv holds initially.
LEMMA OwnedInit ==
  ASSUME Init
  PROVE  OwnedInv
<1>1. /\ list = <<>> /\ notRemoved = <<>> /\ pend = <<>> /\ dat = [a \in Apps |-> NoLog] /\ app \in Apps
  BY DEF Init
<1>2. \A a \in Apps : Log(a) = <<>>
  BY <1>1 DEF Log, Records
<1>3. /\ \A d : ~Names(<<>>, d) /\ ~Retries(d)
      /\ \A j \in DOMAIN <<>> : FALSE
  BY <1>1, EmptySeq DEF Names, Retries
<1>4. DirsClosed
  BY DEF Init, DirsClosed
<1> QED
  BY <1>1, <1>2, <1>3, <1>4
     DEF OwnedInv, LogsInOrder, OneOwner, OwnedExist, PendingUnowned, InOrder

\* Logs in order name parents before the directories in them.
LEMMA OwnedParentsFirst ==
  ASSUME TypeInv, TypeInv', OwnedInv, [Next]_vars, uninstaller => ParentsFirst, uninstaller'
  PROVE  ParentsFirst'
<1>1. CASE uninstaller
  <2>1. ~\E a \in Apps : StartInstall(a) \/ StartUninstall(a)
    BY <1>1 DEF StartInstall, StartUninstall, TypeInv, Control
  <2>2. UNCHANGED <<start, app>>
    BY <2>1, StartFrame, UninstallerSteps DEF vars, history, process, Step2, EndStep2, UndoDir,
       UndoCount, UndoFile, UndoFileRaises, UndoFileInUse, TakeNewest, DeleteUninstallDataFiles,
       ProcessDirsNotRemoved
  <2> QED
    BY <1>1, <2>2 DEF ParentsFirst, LoggedList, LoggedDirs
<1>2. CASE ~uninstaller
  <2>1. PICK a \in Apps : StartUninstall(a)
    BY <1>2, UninstallerSteps DEF vars, undo
  <2>2. start' = Snapshot /\ app' = a
    BY <2>1 DEF StartUninstall
  <2>3. LoggedList' = Log(a) /\ start'.dirs = dirs /\ Log(a) \in Seq(UndoRec) /\ dirs \in SUBSET Dirs
    BY <2>2, RecordsType DEF LoggedList, Snapshot, Log, TypeInv, LogType, DiskType
  <2> DEFINE L == Log(a)
             n == Len(L)
  <2>4. ASSUME NEW i \in DOMAIN L, NEW e \in (LoggedDirs' \cap dirs) \ {Root},
               L[i].typ = "dir", Parent[e] = L[i].dir
        PROVE  \E k \in DOMAIN L : k > i /\ L[k] = DirRec(e)
    <3>1. PICK k \in DOMAIN L : L[k].typ = "dir" /\ L[k].dir = e
      BY <2>3 DEF LoggedDirs, LoggedList
    <3>2. L[k] = DirRec(e) /\ e \in Dirs
      BY <2>3, <3>1, RecordKinds, ElementOfSeq
    <3>3. i # k
      BY <2>4, <3>1, <3>2, ParentDiffers
    <3>4. ~(k < i)
      BY <2>4, <3>1 DEF OwnedInv, LogsInOrder, InOrder, Follows
    <3>5. i \in Nat /\ k \in Nat
      BY <2>3
    <3>6. k > i
      BY <3>3, <3>4, <3>5
    <3> QED
      BY <3>2, <3>6
  <2> QED
    BY <2>3, <2>4 DEF ParentsFirst
<1> QED
  BY <1>1, <1>2

\* Without uninsalwaysuninstall, and when no uninstaller is killed, every directory a log names
\* exists, is in one log only, and comes after the directory it is in.
THEOREM DirsOwned == NoneAlways /\ "uninstall" \notin CrashIn => (Spec => []OwnedInv)
<1>1. ASSUME NoneAlways, "uninstall" \notin CrashIn PROVE Spec => []OwnedInv
  <2>1. Init => OwnedInv
    BY OwnedInit
  <2>2. TypeInv /\ TypeInv' /\ OwnedInv /\ [Next]_vars => OwnedInv'
    BY <1>1, OwnedStep
  <2> QED
    BY <2>1, <2>2, TypesKept, PTL DEF Spec
<1> QED
  BY <1>1

\* Without uninsalwaysuninstall, and when no uninstaller is killed, none leaves a directory of
\* its log empty.
THEOREM UninstallsLeaveNoEmptyDir ==
  NoneAlways /\ "uninstall" \notin CrashIn => (Spec => []UninstallLeavesNoEmptyDir)
<1>1. ASSUME NoneAlways, "uninstall" \notin CrashIn PROVE Spec => []UninstallLeavesNoEmptyDir
  <2> DEFINE First == uninstaller => ParentsFirst
  <2>1. Init => First
    BY DEF Init
  <2>2. TypeInv /\ TypeInv' /\ OwnedInv /\ First /\ [Next]_vars => First'
    BY OwnedParentsFirst
  <2>3. Spec => []OwnedInv
    BY <1>1, DirsOwned
  <2>4. Spec => []First
    BY <2>1, <2>2, <2>3, TypesKept, PTL DEF Spec
  <2>5. TypeInv /\ First /\ (ParentsFirst => UninstallLeavesNoEmptyDir) => UninstallLeavesNoEmptyDir
    BY DEF UninstallLeavesNoEmptyDir, TypeInv, Control
  <2> QED
    BY <2>4, <2>5, NoEmptyDirIsLeft, TypesKept, PTL
<1> QED
  BY <1>1

-----------------------------------------------------------------------------
(* What is in a directory.                                                 *)

Sheltered ==
  /\ \A f \in Files : fs[f] # Absent => DirOf[f] \in dirs
  /\ \A t \in temps : DirOf[t.file] \in dirs
  /\ pc \in {"delete", "move", "share"} => DirOf[Cur.file] \in dirs

\* The record is of something in directory d.
Inside(rec, d) ==
  \/ rec.typ = "dir" /\ rec.dir # Root /\ Parent[rec.dir] = d
  \/ rec.typ = "file" /\ DirOf[rec.file] = d
NewDir(d) == d \notin start.dirs /\ ~NeverUninstalled(d)

NewDirsRecorded == Installing => \A d \in dirs : NewDir(d) => Recorded(d)
DirsFirst ==
  InSession => \A d \in Dirs, i \in DOMAIN list :
    NewDir(d) /\ Inside(list[i], d) => \E j \in 1..(i - 1) : list[j] = DirRec(d)
NewDirsEmptied ==
  RollingBack => \A d \in dirs : NewDir(d) => Recorded(d) \/ ~IsEmptyDir(d)

\* Which entries have not changed their counts.
Uncounted(i) == /\ i \in DOMAIN Entries[app]
                /\ \/ pc \in {"dirs", "reserve"}
                   \/ pc \in EntryPhases /\ (i > idx \/ (i = idx /\ pc # "finish"))
CountsAhead ==
  \A i \in DOMAIN Entries[app] : Uncounted(i) /\ "shared" \in Entries[app][i].opts =>
    LET f == Entries[app][i].file
    IN  count[f] = start.count[f] /\ \A j \in DOMAIN list : ~Holds(list[j], f)
HeldOnce ==
  InSession => \A f \in Files, i, j \in DOMAIN list :
    Holds(list[i], f) /\ Holds(list[j], f) => i = j
\* A new shared file has the one reference of its record.
CountedOnce ==
  InSession => \A i \in DOMAIN list :
    /\ CountedInStep2(list[i]) /\ ~GivenBack(i) /\ start.count[list[i].file] = 0
    => count[list[i].file] = 1

\* A record that makes a rollback delete file f, or temporary file t.
FileRecorded(f) ==
  \E i \in DOMAIN list : /\ list[i].typ = "file" /\ list[i].file = f
                         /\ list[i].tmp = NoTmp /\ ~list[i].existed
TempRecorded(t) ==
  \E i \in DOMAIN list : list[i].typ = "file" /\ list[i].tmp = t
MayBeKept(f) == Flagged(app, f, "neveruninstall") \/ start.count[f] > 0

NewFilesRecorded ==
  InSession => \A f \in Files : start.fs[f] = Absent /\ fs[f] # Absent =>
    \/ MayBeKept(f) \/ FileRecorded(f)
    \/ f \in excused /\ (Installing => Flagged(app, f, "shared"))
    \/ pc = "share" /\ Opt("shared") /\ f = Cur.file /\ tmp = NoTmp
NewTempsRecorded ==
  InSession => \A t \in temps \ start.temps :
    \/ MayBeKept(t.file) \/ TempRecorded(t) \/ t \in excused
    \/ left /\ t = tmp
    \/ pc = "share" /\ Opt("shared") /\ t = tmp
LeftWhen == left => pc \in {"delete", "move"}
DatKept ==
  InSession => dat = IF created /\ Installing THEN [start.dat EXCEPT ![app] = Reserved] ELSE start.dat
StartHadNoLog == Installing /\ created => start.dat[app] = NoLog

LeavesInv ==
  /\ Sheltered /\ NewDirsRecorded /\ DirsFirst /\ NewDirsEmptied
  /\ CountsAhead /\ HeldOnce /\ CountedOnce
  /\ NewFilesRecorded /\ NewTempsRecorded /\ LeftWhen /\ DatKept /\ StartHadNoLog

\* Files and temporary files are in directories that exist.
LEMMA ShelteredRestart ==
  ASSUME TypeInv, Sheltered, Restart
  PROVE  /\ \A f \in Files : fs'[f] # Absent => DirOf[f] \in dirs'
         /\ \A t \in temps' : DirOf[t.file] \in dirs'
<1> DEFINE w0 == [fs |-> fs, temps |-> temps, dirs |-> dirs]
           W == {w \in Machine : /\ \A f \in Files : w.fs[f] # Absent => DirOf[f] \in w.dirs
                                 /\ \A t \in w.temps : DirOf[t.file] \in w.dirs}
<1>1. w0 \in W
  BY DEF TypeInv, DiskType, Machine, Sheltered
<1>2. pend \in Seq(PendingOp) /\ \A i \in DOMAIN pend : pend[i] \in PendingOp
  BY DEF TypeInv, LogType
<1>3. ASSUME NEW w \in W, NEW i \in DOMAIN pend PROVE Pending(w, pend[i]) \in W
  <2> DEFINE op == pend[i]
  <2>1. op \in PendingOp /\ Pending(w, op) \in Machine /\ w \in Machine
    BY <1>2, PendingMachine
  <2>2. CASE op.op = "replace" /\ op.tmp \in w.temps
    <3>1. Pending(w, op) = [w EXCEPT !.fs[op.file] = op.tmp.ses, !.temps = @ \ {op.tmp}]
      BY <2>2 DEF Pending
    <3>2. DirOf[op.file] \in w.dirs
      BY <2>1, <2>2 DEF PendingOp
    <3> QED
      BY <2>1, <3>1, <3>2 DEF Machine
  <2>3. CASE op.op = "delete"
    <3>1. Pending(w, op) = [w EXCEPT !.fs[op.file] = Absent]
      BY <2>3 DEF Pending
    <3> QED
      BY <2>1, <3>1 DEF Machine
  <2>4. CASE op.op = "rmdir" /\ EmptyIn(op.dir, w.fs, w.temps, w.dirs)
    <3>1. Pending(w, op) = [w EXCEPT !.dirs = @ \ {op.dir}]
      BY <2>4 DEF Pending
    <3> QED
      BY <2>1, <2>4, <3>1 DEF Machine, EmptyIn
  <2>5. CASE /\ ~(op.op = "replace" /\ op.tmp \in w.temps) /\ op.op # "delete"
             /\ ~(op.op = "rmdir" /\ EmptyIn(op.dir, w.fs, w.temps, w.dirs))
    <3>1. Pending(w, op) = w
      BY <2>5 DEF Pending
    <3> QED
      BY <3>1
  <2> QED
    BY <2>2, <2>3, <2>4, <2>5
<1>4. FoldLeft(Pending, w0, pend) \in W
  <2> HIDE DEF w0, W
  <2> QED
    BY <1>1, <1>2, <1>3, PendingKeeps
<1>5. /\ fs' = FoldLeft(Pending, w0, pend).fs
      /\ temps' = FoldLeft(Pending, w0, pend).temps
      /\ dirs' = FoldLeft(Pending, w0, pend).dirs
  BY DEF Restart
<1> HIDE DEF w0
<1> QED
  BY <1>4, <1>5

\* Every step keeps files in directories that exist.
LEMMA ShelteredStep ==
  ASSUME TypeInv, TypeInv', Sheltered, [Next]_vars
  PROVE  Sheltered'
<1>0. /\ fs \in [Files -> Content] /\ temps \in SUBSET Temp /\ dirs \in SUBSET Dirs
      /\ \A f \in Files : fs[f] # Absent => DirOf[f] \in dirs
      /\ \A t \in temps : DirOf[t.file] \in dirs
      /\ pc \in {"delete", "move", "share"} => DirOf[Cur.file] \in dirs
  BY DEF Sheltered, TypeInv, DiskType
<1>1. /\ \A f \in Files : fs'[f] # Absent => DirOf[f] \in dirs'
      /\ \A t \in temps' : DirOf[t.file] \in dirs'
  <2>1. CASE CreateDirs
    <3>1. Wanted(app)[idx].dir \in Dirs
      BY <2>1, AskedDir DEF CreateDirs
    <3> QED
      BY <1>0, <2>1, <3>1, MadeDir DEF CreateDirs
  <2>2. CASE ExtractToTemp
    <3>1. DirOf[Cur.file] \in Dirs /\ FreshTemp(Cur.file).file = Cur.file
      BY <2>2, AskedDir, FreshType DEF ExtractToTemp, EntryPhases
    <3>2. dirs \subseteq dirs' /\ fs' = fs
      BY <2>2, <3>1, MadeDir DEF ExtractToTemp
    <3>3. temps' = temps \/ (temps' = temps \cup {FreshTemp(Cur.file)} /\ DirOf[Cur.file] \in dirs')
      BY <2>2 DEF ExtractToTemp, MakeLast
    <3> QED
      BY <1>0, <3>1, <3>2, <3>3
  <2>3. CASE DeleteExisting \/ MoveIntoPlace
    BY <1>0, <2>3 DEF DeleteExisting, MoveIntoPlace
  <2>4. CASE EntryRaises \/ Cancel
    BY <1>0, <2>4 DEF EntryRaises, Cancel, DropLeftOver
  <2>5. CASE UndoDir \/ ProcessDirsNotRemoved
    BY <1>0, <2>5 DEF UndoDir, ProcessDirsNotRemoved, IsEmptyDir, EmptyIn
  <2>6. CASE UndoFile
    BY <1>0, <2>6 DEF UndoFile
  <2>7. CASE Restart
    BY <2>7, ShelteredRestart
  <2>8. CASE UNCHANGED <<disk, litter>> \/ Crash
    BY <1>0, <2>8 DEF disk, Crash
  <2> QED
    BY <2>1, <2>2, <2>3, <2>4, <2>5, <2>6, <2>7, <2>8, DiskFrame
<1>2. pc' \in {"delete", "move", "share"} => DirOf[Cur'.file] \in dirs'
  <2> SUFFICES ASSUME pc' \in {"delete", "move", "share"} PROVE DirOf[Cur'.file] \in dirs'
    OBVIOUS
  <2>1. CASE UNCHANGED vars
    BY <1>0, <2>1 DEF vars, disk, process, Cur
  <2>2. CASE BeginEntry
    <3>1. Cur.file \in Files /\ UNCHANGED <<app, idx, dirs>> /\ fs[Cur.file] # Absent
      BY <2>2, CurType DEF BeginEntry, EntryPhases, process, disk
    <3> QED
      BY <1>0, <3>1 DEF Cur
  <2>3. CASE ExtractToTemp
    BY <2>3 DEF ExtractToTemp, MakeLast, process, Cur
  <2>4. CASE DeleteExisting \/ MoveIntoPlace \/ ReplaceOnRestart
    BY <1>0, <2>4 DEF DeleteExisting, MoveIntoPlace, ReplaceOnRestart, process, disk, Cur
  <2>5. CASE CreateDirs \/ GenerateUninstallInfoFilename \/ ShareEntry \/ FinishEntry \/ EntryRaises
             \/ AskRetry \/ AskIgnore \/ Cancel \/ SaveLog \/ Rollback \/ Step2 \/ EndStep2
             \/ \E a \in Apps : StartInstall(a) \/ StartUninstall(a)
    BY <2>5 DEF CreateDirs, GenerateUninstallInfoFilename, ShareEntry, FinishEntry, EntryRaises,
       AskRetry, AskIgnore, Cancel, SaveLog, Rollback, Step2, EndStep2, NextEntry, EndProcess,
       StartInstall, StartUninstall
  <2>6. CASE UndoDir \/ UndoCount \/ UndoFile \/ UndoFileRaises \/ UndoFileInUse \/ EndRollback
             \/ DeleteUninstallDataFiles \/ ProcessDirsNotRemoved \/ EndUninstall \/ Restart \/ Crash
    BY <2>6 DEF UndoDir, UndoCount, UndoFile, UndoFileRaises, UndoFileInUse, TakeNewest,
       EndRollback, DeleteUninstallDataFiles, ProcessDirsNotRemoved, EndUninstall, EndProcess,
       Restart, Crash
  <2> QED
    BY <2>1, <2>2, <2>3, <2>4, <2>5, <2>6 DEF Next
<1> QED
  BY <1>1, <1>2 DEF Sheltered

\* What MakeDir makes lies in a directory that exists, and is recorded unless it was there or
\* is never uninstalled.
LEMMA MadeDirKept ==
  ASSUME NEW d \in Dirs, NEW o, MakeParent(d, o) \/ MakeLast(d, o)
  PROVE  \E e \in Path[d] :
           /\ e \in Dirs /\ dirs' = dirs \cup {e}
           /\ e = Root \/ Parent[e] \in dirs
           /\ \/ list' = Append(list, DirRec(e))
              \/ list' = list /\ (e \in dirs \/ "neveruninstall" \in o)
<1>1. Path[d] \in SUBSET Dirs /\ d \in Path[d]
  BY PathFacts
<1>2. CASE MakeParent(d, o)
  BY <1>1, <1>2 DEF MakeParent
<1>3. CASE MakeLast(d, o)
  <2>1. d = Root \/ Parent[d] \in dirs
    <3>1. CASE d # Root
      <4>1. Parent[d] \in Path[d] \ {d}
        BY <3>1, PathFacts, ParentDiffers
      <4> QED
        BY <1>3, <4>1 DEF MakeLast
    <3> QED
      BY <3>1
  <2> QED
    BY <1>1, <1>3, <2>1 DEF MakeLast
<1> QED
  BY <1>2, <1>3

\* How a session that goes on changes the directories and its list.
LEMMA SessionMakes ==
  ASSUME TypeInv, [Next]_vars, Installing, Installing'
  PROVE  \/ dirs' = dirs /\ list' = list
         \/ /\ dirs' = dirs
            /\ \E r \in UndoRec :
                 /\ list' = Append(list, r) /\ r.typ # "dir"
                 /\ r.typ = "file" => pc \in {"delete", "move", "share"} /\ r.file = Cur.file
         \/ \E e \in Dirs :
              /\ dirs' = dirs \cup {e} /\ (e = Root \/ Parent[e] \in dirs)
              /\ \/ list' = Append(list, DirRec(e))
                 \/ list' = list /\ (e \in dirs \/ NeverUninstalled(e))
<1>0. app \in Apps
  BY DEF TypeInv, ProcessType
<1>1. CASE CreateDirs
  <2> DEFINE w == Wanted(app)[idx]
  <2>1. w.dir \in Dirs /\ idx \in 1..Len(Wanted(app))
    BY <1>1, AskedDir DEF CreateDirs, TypeInv, Control
  <2>2. PICK e \in Path[w.dir] :
           /\ e \in Dirs /\ dirs' = dirs \cup {e}
           /\ e = Root \/ Parent[e] \in dirs
           /\ \/ list' = Append(list, DirRec(e))
              \/ list' = list /\ (e \in dirs \/ "neveruninstall" \in w.opts)
    BY <1>1, <2>1, MadeDirKept DEF CreateDirs
  <2>3. ASSUME "neveruninstall" \in w.opts PROVE NeverUninstalled(e)
    <3>1. /\ Len(Wanted(app)) = Len(ExtraDirs[app]) + 1
          /\ Wanted(app)[1] = [dir |-> AppDir[app], opts |-> {}]
          /\ \A i \in 2..Len(Wanted(app)) : Wanted(app)[i] = ExtraDirs[app][i - 1]
      BY <1>0, WantedType
    <3>2. DOMAIN ExtraDirs[app] = 1..Len(ExtraDirs[app]) /\ Len(ExtraDirs[app]) \in Nat
      BY <1>0, LenProperties, TransactionAssumption
    <3>3. idx # 1
      BY <2>3, <3>1
    <3>4. idx - 1 \in DOMAIN ExtraDirs[app] /\ idx \in 2..Len(Wanted(app))
      BY <2>1, <3>1, <3>2, <3>3
    <3>5. w = ExtraDirs[app][idx - 1]
      BY <3>1, <3>4
    <3> QED
      BY <2>2, <2>3, <3>4, <3>5 DEF NeverUninstalled
  <2> HIDE DEF w
  <2> QED
    BY <2>2, <2>3
<1>2. CASE ExtractToTemp
  <2>1. DirOf[Cur.file] \in Dirs /\ pc \in EntryPhases
    BY <1>2, AskedDir DEF ExtractToTemp, EntryPhases
  <2>2. PICK e \in Path[DirOf[Cur.file]] :
           /\ e \in Dirs /\ dirs' = dirs \cup {e}
           /\ e = Root \/ Parent[e] \in dirs
           /\ \/ list' = Append(list, DirRec(e))
              \/ list' = list /\ (e \in dirs \/ "neveruninstall" \in Cur.opts \cap DirOptions)
    BY <1>2, <2>1, MadeDirKept DEF ExtractToTemp
  <2>3. ASSUME "neveruninstall" \in Cur.opts PROVE NeverUninstalled(e)
    <3>1. idx \in DOMAIN Entries[app]
      BY <2>1, CurType, TransactionAssumption
    <3> QED
      BY <2>2, <2>3, <3>1 DEF NeverUninstalled, Cur
  <2> QED
    BY <2>2, <2>3
<1>3. CASE MoveIntoPlace \/ ReplaceOnRestart \/ ShareEntry
  <2>1. /\ pc \in EntryPhases /\ Cur.file \in Files /\ Cur.opts \in SUBSET FileOptions
        /\ existed \in BOOLEAN /\ tmp \in Temp \cup {NoTmp}
    BY <1>3, CurType DEF MoveIntoPlace, ReplaceOnRestart, ShareEntry, EntryPhases, TypeInv,
       EntryType
  <2>2. /\ \A t \in {NoTmp, tmp} : /\ FileRec(Cur.file, t, existed, Cur.opts) \in UndoRec
                                   /\ FileRec(Cur.file, t, existed, Cur.opts).typ # "dir"
                                   /\ FileRec(Cur.file, t, existed, Cur.opts).file = Cur.file
        /\ CountRec(Cur.file) \in UndoRec /\ CountRec(Cur.file).typ = "count"
    BY <2>1, RecordKinds
  <2>3. dirs' = dirs /\ pc \in {"delete", "move", "share"}
    BY <1>3 DEF MoveIntoPlace, ReplaceOnRestart, ShareEntry, disk
  <2> QED
    BY <1>3, <2>2, <2>3 DEF MoveIntoPlace, ReplaceOnRestart, ShareEntry, RecordInstalled
<1>4. CASE \/ UNCHANGED vars \/ GenerateUninstallInfoFilename \/ BeginEntry \/ DeleteExisting
           \/ FinishEntry \/ EntryRaises \/ AskRetry \/ AskIgnore \/ Cancel
  BY <1>4 DEF vars, disk, GenerateUninstallInfoFilename, BeginEntry, DeleteExisting, FinishEntry,
     EntryRaises, AskRetry, AskIgnore, Cancel
<1>5. CASE (\E a \in Apps : StartInstall(a) \/ StartUninstall(a)) \/ SaveLog \/ Rollback \/ Step2
           \/ EndStep2 \/ UndoDir \/ UndoCount \/ UndoFile \/ UndoFileRaises \/ UndoFileInUse
  BY <1>5 DEF StartInstall, StartUninstall, SaveLog, Rollback, EndProcess, Step2, EndStep2, UndoDir,
     UndoCount, UndoFile, UndoFileRaises, UndoFileInUse, TakeNewest, Installing, InstallPhases,
     EntryPhases
<1>6. CASE EndRollback \/ DeleteUninstallDataFiles \/ ProcessDirsNotRemoved \/ EndUninstall
           \/ Restart \/ Crash
  BY <1>6 DEF EndRollback, DeleteUninstallDataFiles, ProcessDirsNotRemoved, EndUninstall, Restart,
     Crash, EndProcess, Installing, InstallPhases, EntryPhases
<1> QED
  BY <1>1, <1>2, <1>3, <1>4, <1>5, <1>6 DEF Next

\* The steps of a rollback.
LEMMA RollbackSteps ==
  ASSUME TypeInv, [Next]_vars, RollingBack'
  PROVE  \/ Rollback
         \/ RollingBack /\ UNCHANGED vars
         \/ /\ RollingBack
            /\ \/ Step2 \/ EndStep2 \/ UndoDir \/ UndoCount \/ UndoFile \/ UndoFileRaises
               \/ UndoFileInUse
<1> USE DEF RollingBack, UndoPhases
<1>1. CASE UNCHANGED vars
  BY <1>1 DEF vars, undo
<1>2. CASE (\E a \in Apps : StartInstall(a) \/ StartUninstall(a)) \/ CreateDirs
           \/ GenerateUninstallInfoFilename \/ BeginEntry \/ ExtractToTemp \/ DeleteExisting
           \/ MoveIntoPlace \/ ReplaceOnRestart
  BY <1>2 DEF StartInstall, StartUninstall, CreateDirs, GenerateUninstallInfoFilename, BeginEntry,
     ExtractToTemp, DeleteExisting, MoveIntoPlace, ReplaceOnRestart
<1>3. CASE ShareEntry \/ FinishEntry \/ EntryRaises \/ AskRetry \/ AskIgnore \/ Cancel \/ SaveLog
           \/ EndRollback \/ EndUninstall \/ Crash
  BY <1>3 DEF ShareEntry, FinishEntry, EntryRaises, AskRetry, AskIgnore, Cancel, SaveLog,
     EndRollback, EndUninstall, Crash, NextEntry, EndProcess
<1>4. CASE DeleteUninstallDataFiles \/ ProcessDirsNotRemoved \/ Restart
  BY <1>4 DEF DeleteUninstallDataFiles, ProcessDirsNotRemoved, Restart
<1>5. CASE Step2 \/ EndStep2 \/ UndoDir \/ UndoCount \/ UndoFile \/ UndoFileRaises \/ UndoFileInUse
  BY <1>5 DEF Step2, EndStep2, UndoDir, UndoCount, UndoFile, UndoFileRaises, UndoFileInUse,
     TakeNewest, undo
<1> QED
  BY <1>1, <1>2, <1>3, <1>4, <1>5 DEF Next

\* What a rollback does to its list, and with it.
LEMMA RollbackLists ==
  ASSUME TypeInv, RollingBack,
         Step2 \/ EndStep2 \/ UndoDir \/ UndoCount \/ UndoFile \/ UndoFileRaises \/ UndoFileInUse
  PROVE  \/ list' = list /\ (Step2 \/ EndStep2)
         \/ /\ Step2 /\ idx \in 1..Len(list) /\ list' = RemoveAt(list, idx)
            /\ CountedInStep2(list[idx]) /\ list[idx].typ = "file"
         \/ /\ list # <<>> /\ list' = Front(list)
            /\ UndoDir \/ UndoCount \/ UndoFile \/ UndoFileRaises \/ UndoFileInUse
<1>1. CASE Step2
  <2>1. idx \in 1..Len(list)
    BY <1>1 DEF Step2, TypeInv, ProcessType, Control
  <2> QED
    BY <1>1, <2>1 DEF Step2, CountedInStep2
<1>2. CASE EndStep2
  BY <1>2 DEF EndStep2
<1>3. CASE UndoDir \/ UndoCount \/ UndoFile \/ UndoFileRaises \/ UndoFileInUse
  BY <1>3 DEF UndoDir, UndoCount, UndoFile, UndoFileRaises, UndoFileInUse, TakeNewest
<1> QED
  BY <1>1, <1>2, <1>3

\* In a list, new directories come before what is in them.
FirstIn(s) ==
  \A d \in Dirs, i \in DOMAIN s :
    NewDir(d) /\ Inside(s[i], d) => \E j \in 1..(i - 1) : s[j] = DirRec(d)

\* A list stays so when what is appended finds its directory already recorded.
LEMMA FirstAppend ==
  ASSUME NEW s \in Seq(UndoRec), NEW r \in UndoRec, FirstIn(s),
         \A d \in Dirs : NewDir(d) /\ Inside(r, d) => Names(s, d)
  PROVE  FirstIn(Append(s, r))
<1> DEFINE n == Len(s)
           t == Append(s, r)
<1>1. /\ n \in Nat /\ DOMAIN s = 1..n /\ DOMAIN t = 1..(n + 1)
      /\ t[n + 1] = r /\ \A i \in 1..n : t[i] = s[i]
  BY AppendFacts
<1>n. n \in Nat
  BY <1>1
<1> HIDE DEF n, t
<1>2. /\ \A i \in 1..(n + 1) : i \in 1..n \/ i = n + 1
      /\ \A i \in 1..n : \A j \in 1..(i - 1) : j \in 1..n
      /\ \A j \in 1..n : j \in 1..((n + 1) - 1)
  BY <1>n
<1>3. ASSUME NEW d \in Dirs, NEW i \in 1..(n + 1), NewDir(d), Inside(t[i], d)
      PROVE  \E j \in 1..(i - 1) : t[j] = DirRec(d)
  <2>1. CASE i \in 1..n
    <3>1. PICK j \in 1..(i - 1) : s[j] = DirRec(d)
      BY <1>1, <1>3, <2>1 DEF FirstIn
    <3> QED
      BY <1>1, <1>2, <2>1, <3>1
  <2>2. CASE i = n + 1
    <3>1. PICK j \in 1..n : s[j] = DirRec(d)
      BY <1>1, <1>3, <2>2 DEF Names
    <3> QED
      BY <1>1, <1>2, <2>2, <3>1
  <2> QED
    BY <1>2, <2>1, <2>2
<1>4. FirstIn(t)
  BY <1>1, <1>3 DEF FirstIn
<1> QED
  BY <1>4 DEF t

\* It stays so when the newest record is dropped.
LEMMA FirstFront ==
  ASSUME NEW s \in Seq(UndoRec), s # <<>>, FirstIn(s)
  PROVE  FirstIn(Front(s))
<1> DEFINE n == Len(s)
           t == Front(s)
<1>1. /\ n \in Nat \ {0} /\ DOMAIN s = 1..n /\ DOMAIN t = 1..(n - 1)
      /\ \A i \in 1..(n - 1) : t[i] = s[i]
  BY FrontFacts
<1>n. n \in Nat \ {0}
  BY <1>1
<1> HIDE DEF n, t
<1>2. \A i \in 1..(n - 1) : i \in 1..n /\ \A j \in 1..(i - 1) : j \in 1..(n - 1)
  BY <1>n
<1>3. FirstIn(t)
  BY <1>1, <1>2 DEF FirstIn
<1> QED
  BY <1>3 DEF t

\* It stays so when a record that is not of a directory is taken out.
LEMMA FirstRemoval ==
  ASSUME NEW s \in Seq(UndoRec), NEW k \in 1..Len(s), s[k].typ # "dir", FirstIn(s)
  PROVE  FirstIn(RemoveAt(s, k)) /\ \A d \in Dirs : Names(s, d) => Names(RemoveAt(s, k), d)
<1> DEFINE n == Len(s)
           t == RemoveAt(s, k)
           p(j) == IF j < k THEN j ELSE j - 1
           m(i) == IF i < k THEN i ELSE i + 1
<1>1. /\ n \in Nat \ {0} /\ DOMAIN s = 1..n /\ DOMAIN t = 1..(n - 1)
      /\ \A i \in 1..(n - 1) : t[i] = IF i < k THEN s[i] ELSE s[i + 1]
  BY RemoveAtFacts
<1>n. n \in Nat \ {0} /\ k \in 1..n
  BY <1>1
<1>2. \A i \in 1..(n - 1) : t[i] = s[m(i)]
  BY <1>1
<1> HIDE DEF n, t
<1>3. \A j \in 1..n : j # k => p(j) \in 1..(n - 1) /\ m(p(j)) = j
  BY <1>n
<1>4. \A i \in 1..(n - 1) : m(i) \in 1..n /\ \A j \in 1..(m(i) - 1) : j \in 1..n /\ (j # k => p(j) \in 1..(i - 1))
  BY <1>n
<1> HIDE DEF m, p
<1>5. \A d \in Dirs : s[k] # DirRec(d)
  BY RecordKinds
<1>6. ASSUME NEW d \in Dirs, NEW j \in 1..n, s[j] = DirRec(d)
      PROVE  t[p(j)] = DirRec(d) /\ p(j) \in 1..(n - 1) /\ j # k
  BY <1>2, <1>3, <1>5, <1>6
<1>7. ASSUME NEW d \in Dirs, NEW i \in 1..(n - 1), NewDir(d), Inside(t[i], d)
      PROVE  \E j \in 1..(i - 1) : t[j] = DirRec(d)
  <2>1. m(i) \in 1..n /\ Inside(s[m(i)], d)
    BY <1>2, <1>4, <1>7
  <2>2. PICK j \in 1..(m(i) - 1) : s[j] = DirRec(d)
    BY <1>1, <1>7, <2>1 DEF FirstIn
  <2> QED
    BY <1>4, <1>6, <2>2
<1>8. FirstIn(t)
  BY <1>1, <1>7 DEF FirstIn
<1>9. \A d \in Dirs : Names(s, d) => Names(t, d)
  BY <1>1, <1>6 DEF Names
<1> QED
  BY <1>8, <1>9 DEF t

\* What an appended record adds to the directories that a list names.
LEMMA NamesAppend ==
  ASSUME NEW s \in Seq(UndoRec), NEW r \in UndoRec, NEW d
  PROVE  Names(s, d) \/ r = DirRec(d) => Names(Append(s, r), d)
<1> DEFINE n == Len(s)
<1>1. /\ n \in Nat /\ DOMAIN s = 1..n /\ DOMAIN Append(s, r) = 1..(n + 1)
      /\ Append(s, r)[n + 1] = r /\ \A i \in 1..n : Append(s, r)[i] = s[i]
  BY AppendFacts
<1>n. n \in Nat
  BY <1>1
<1> HIDE DEF n
<1>2. n + 1 \in 1..(n + 1) /\ \A i \in 1..n : i \in 1..(n + 1)
  BY <1>n
<1> QED
  BY <1>1, <1>2 DEF Names

\* What dropping the newest record takes from them.
LEMMA NamesFront ==
  ASSUME NEW s \in Seq(UndoRec), s # <<>>, NEW d, Names(s, d)
  PROVE  Names(Front(s), d) \/ s[Len(s)] = DirRec(d)
<1> DEFINE n == Len(s)
           t == Front(s)
<1>1. /\ n \in Nat \ {0} /\ DOMAIN s = 1..n /\ DOMAIN t = 1..(n - 1)
      /\ \A i \in 1..(n - 1) : t[i] = s[i]
  BY FrontFacts
<1>n. n \in Nat \ {0}
  BY <1>1
<1> HIDE DEF n, t
<1>2. \A i \in 1..n : i = n \/ i \in 1..(n - 1)
  BY <1>n
<1>3. Names(t, d) \/ s[n] = DirRec(d)
  BY <1>1, <1>2 DEF Names
<1> QED
  BY <1>3 DEF t, n

\* Which directories are new does not change in a session.
LEMMA NewDirFrame ==
  ASSUME UNCHANGED <<start, app>>
  PROVE  \A d : NewDir(d)' <=> NewDir(d)
BY DEF NewDir, NeverUninstalled

\* New directories are recorded when they are made.
LEMMA NewDirsRecordedStep ==
  ASSUME TypeInv, TypeInv', NewDirsRecorded, [Next]_vars
  PROVE  NewDirsRecorded'
<1> SUFFICES ASSUME Installing', NEW d \in dirs', NewDir(d)'
             PROVE  Names(list', d)
  BY DEF NewDirsRecorded, Recorded, Names
<1>1. CASE \E a \in Apps : StartInstall(a)
  BY <1>1 DEF StartInstall, Snapshot, disk, NewDir
<1>2. CASE Installing /\ UNCHANGED <<start, app>>
  <2>1. NewDir(d) /\ list \in Seq(UndoRec) /\ \A e \in dirs : NewDir(e) => Names(list, e)
    BY <1>2, NewDirFrame DEF NewDirsRecorded, Recorded, Names, TypeInv, LogType
  <2>2. ASSUME NEW r \in UndoRec, list' = Append(list, r)
        PROVE  (Names(list, d) \/ r = DirRec(d)) => Names(list', d)
    BY <2>1, <2>2, NamesAppend
  <2>3. CASE dirs' = dirs
    BY <1>2, <2>1, <2>2, <2>3, SessionMakes, RecordKinds
  <2>4. CASE dirs' # dirs
    <3>1. PICK e \in Dirs :
            /\ dirs' = dirs \cup {e}
            /\ list' = Append(list, DirRec(e)) \/ (list' = list /\ (e \in dirs \/ NeverUninstalled(e)))
      BY <1>2, <2>4, SessionMakes
    <3>2. d # e => Names(list, d)
      BY <2>1, <3>1
    <3>3. list' = list => Names(list, d)
      BY <2>1, <3>1, <3>2 DEF NewDir
    <3> QED
      BY <2>2, <3>1, <3>2, <3>3, RecordKinds
  <2> QED
    BY <2>3, <2>4
<1> QED
  BY <1>1, <1>2, SessionSteps DEF InSession, Installing, RollingBack, InstallPhases, EntryPhases,
     UndoPhases

\* What is recorded in a new directory is recorded after it.
LEMMA DirsFirstStep ==
  ASSUME TypeInv, TypeInv', Sheltered, NewDirsRecorded, DirsFirst, [Next]_vars
  PROVE  DirsFirst'
<1>0. DirsFirst' <=> (InSession' => FirstIn(list)')
  BY DEF DirsFirst, FirstIn
<1> SUFFICES ASSUME InSession' PROVE FirstIn(list)'
  BY <1>0
<1>1. CASE \E a \in Apps : StartInstall(a)
  <2>1. list' = <<>>
    BY <1>1 DEF StartInstall
  <2> QED
    BY <2>1, EmptySeq DEF FirstIn
<1>2. CASE /\ InSession /\ UNCHANGED <<start, app, uninstaller>>
           /\ Installing' => Installing
  <2>1. FirstIn(list) /\ list \in Seq(UndoRec)
    BY <1>2 DEF DirsFirst, FirstIn, TypeInv, LogType
  <2>2. FirstIn(list)' <=> FirstIn(list')
    BY <1>2, NewDirFrame DEF FirstIn, Inside
  <2>3. CASE Installing'
    <3>1. \A e \in dirs : NewDir(e) => Names(list, e)
      BY <1>2, <2>3 DEF NewDirsRecorded, Recorded, Names
    <3>2. CASE list' = list
      BY <2>1, <2>2, <3>2
    <3>3. CASE \E r \in UndoRec :
                 /\ list' = Append(list, r) /\ r.typ # "dir"
                 /\ r.typ = "file" => pc \in {"delete", "move", "share"} /\ r.file = Cur.file
      <4>1. PICK r \in UndoRec :
                 /\ list' = Append(list, r) /\ r.typ # "dir"
                 /\ r.typ = "file" => pc \in {"delete", "move", "share"} /\ r.file = Cur.file
        BY <3>3
      <4>2. \A d \in Dirs : NewDir(d) /\ Inside(r, d) => Names(list, d)
        BY <3>1, <4>1 DEF Inside, Sheltered
      <4> QED
        BY <2>1, <2>2, <4>1, <4>2, FirstAppend
    <3>4. CASE \E e \in Dirs : /\ e = Root \/ Parent[e] \in dirs
                               /\ list' = Append(list, DirRec(e))
      <4>1. PICK e \in Dirs : /\ e = Root \/ Parent[e] \in dirs
                              /\ list' = Append(list, DirRec(e))
        BY <3>4
      <4>2. \A d \in Dirs : NewDir(d) /\ Inside(DirRec(e), d) => Names(list, d)
        BY <3>1, <4>1, RecordKinds DEF Inside
      <4>3. DirRec(e) \in UndoRec
        BY RecordKinds
      <4> QED
        BY <2>1, <2>2, <4>1, <4>2, <4>3, FirstAppend
    <3> QED
      BY <1>2, <2>3, <3>2, <3>3, <3>4, SessionMakes
  <2>4. CASE RollingBack'
    <3>1. CASE Rollback \/ UNCHANGED vars
      BY <2>1, <2>2, <3>1 DEF Rollback, vars
    <3>2. CASE /\ RollingBack
               /\ \/ Step2 \/ EndStep2 \/ UndoDir \/ UndoCount \/ UndoFile \/ UndoFileRaises
                  \/ UndoFileInUse
      <4>1. \/ list' = list
            \/ idx \in 1..Len(list) /\ list' = RemoveAt(list, idx) /\ list[idx].typ = "file"
            \/ list # <<>> /\ list' = Front(list)
        BY <3>2, RollbackLists
      <4> QED
        BY <2>1, <2>2, <4>1, FirstRemoval, FirstFront
    <3> QED
      BY <2>4, <3>1, <3>2, RollbackSteps
  <2> QED
    BY <2>3, <2>4 DEF InSession
<1> QED
  BY <1>1, <1>2, SessionSteps

\* A directory without a record is not emptied by the undoing of others.
LEMMA UnrecordedStay ==
  ASSUME TypeInv, DirsFirst, RollingBack, NEW d \in dirs, NewDir(d), ~Names(list, d),
         ~IsEmptyDir(d), UndoDir \/ UndoFile
  PROVE  ~IsEmptyDir(d)'
<1>1. /\ list # <<>> /\ Len(list) \in DOMAIN list /\ Newest = list[Len(list)]
      /\ UNCHANGED <<dat, litter>> /\ dirs \in SUBSET Dirs /\ list \in Seq(UndoRec)
  BY NewestType DEF UndoDir, UndoFile, TakeNewest, TypeInv, DiskType, LogType
<1>2. ~Inside(Newest, d)
  <2>1. InSession /\ \A j \in 1..(Len(list) - 1) : j \in DOMAIN list
    BY <1>1, FrontFacts DEF InSession
  <2> QED
    BY <1>1, <2>1 DEF DirsFirst, Names
<1>3. CASE UndoDir
  <2>1. Newest.typ = "dir" /\ UNCHANGED <<fs, temps>>
    BY <1>3 DEF UndoDir, TakeNewest
  <2>2. dirs' = dirs \/ (dirs' = dirs \ {Newest.dir} /\ (Newest.dir \notin dirs \/ IsEmptyDir(Newest.dir)))
    BY <1>3 DEF UndoDir
  <2>3. \A e \in dirs \ {Root} : Parent[e] = d => e \in dirs'
    BY <1>2, <2>1, <2>2 DEF Inside
  <2> QED
    BY <1>1, <2>1, <2>3 DEF IsEmptyDir, EmptyIn
<1>4. CASE UndoFile
  <2>1. /\ Newest.typ = "file" /\ UNCHANGED dirs
        /\ fs' = fs \/ fs' = [fs EXCEPT ![Newest.file] = Absent]
        /\ temps' = temps \/ (temps' = temps \ {Newest.tmp} /\ Newest.tmp # NoTmp)
        /\ fs \in [Files -> Content]
    BY <1>4 DEF UndoFile, TakeNewest, TempGoes, TypeInv, DiskType
  <2>2. DirOf[Newest.file] # d
    BY <1>2, <2>1 DEF Inside
  <2>3. \A f \in Files : DirOf[f] = d => fs'[f] = fs[f]
    BY <2>1, <2>2
  <2>4. Newest.tmp # NoTmp => Newest.tmp.file = Newest.file
    <3>1. OwnTemp(list[Len(list)])
      BY <1>1 DEF TypeInv, OwnTemps
    <3> QED
      BY <1>1, <2>1, <3>1 DEF OwnTemp
  <2>5. \A t \in temps : DirOf[t.file] = d => t \in temps'
    BY <2>1, <2>2, <2>4
  <2> QED
    BY <1>1, <2>1, <2>3, <2>5 DEF IsEmptyDir, EmptyIn
<1> QED
  BY <1>3, <1>4

\* A rollback empties the new directories before it comes to their records.
LEMMA NewDirsEmptiedStep ==
  ASSUME TypeInv, TypeInv', NewDirsRecorded, DirsFirst, NewDirsEmptied, [Next]_vars
  PROVE  NewDirsEmptied'
<1> SUFFICES ASSUME RollingBack', NEW d \in dirs', NewDir(d)'
             PROVE  Names(list', d) \/ ~IsEmptyDir(d)'
  BY DEF NewDirsEmptied, Recorded, Names
<1>1. CASE Rollback
  <2>1. Installing /\ UNCHANGED <<list, disk, start, app>>
    BY <1>1 DEF Rollback, Installing, history
  <2> QED
    BY <2>1, NewDirFrame DEF NewDirsRecorded, Recorded, Names, disk
<1>2. CASE RollingBack /\ UNCHANGED vars
  <2>1. UNCHANGED <<list, disk, start, app, dat, litter>>
    BY <1>2 DEF vars, history, process
  <2> QED
    BY <1>2, <2>1, NewDirFrame DEF NewDirsEmptied, Recorded, Names, disk, IsEmptyDir, EmptyIn
<1>3. CASE /\ RollingBack
           /\ \/ Step2 \/ EndStep2 \/ UndoDir \/ UndoCount \/ UndoFile \/ UndoFileRaises
              \/ UndoFileInUse
  <2>1. UNCHANGED <<start, app, dat, litter>> /\ dirs' \subseteq dirs
    BY <1>3 DEF Step2, EndStep2, UndoDir, UndoCount, UndoFile, UndoFileRaises, UndoFileInUse,
       TakeNewest, process, history, disk
  <2>2. /\ d \in dirs /\ NewDir(d) /\ d \in Dirs /\ list \in Seq(UndoRec)
        /\ Names(list, d) \/ ~IsEmptyDir(d)
    BY <1>3, <2>1, NewDirFrame DEF NewDirsEmptied, Recorded, Names, TypeInv, DiskType, LogType
  <2>3. CASE ~Names(list, d)
    <3>1. CASE UndoDir \/ UndoFile
      BY <1>3, <2>2, <2>3, <3>1, UnrecordedStay
    <3>2. CASE Step2 \/ EndStep2 \/ UndoCount \/ UndoFileRaises \/ UndoFileInUse
      <4>1. UNCHANGED disk
        BY <3>2 DEF Step2, EndStep2, UndoCount, UndoFileRaises, UndoFileInUse
      <4> QED
        BY <2>1, <2>2, <2>3, <4>1 DEF disk, IsEmptyDir, EmptyIn
    <3> QED
      BY <1>3, <3>1, <3>2
  <2>4. CASE Names(list, d)
    <3>1. CASE list' = list
      BY <2>4, <3>1
    <3>2. CASE idx \in 1..Len(list) /\ list' = RemoveAt(list, idx) /\ list[idx].typ = "file"
      <4>1. Names(RemoveAt(list, idx), d)
        <5>1. list[idx].typ # "dir"
          BY <3>2
        <5>2. FirstIn(list)
          BY <1>3 DEF DirsFirst, FirstIn, InSession
        <5> QED
          BY <2>2, <2>4, <3>2, <5>1, <5>2, FirstRemoval
      <4> QED
        BY <3>2, <4>1
    <3>3. CASE /\ list # <<>> /\ list' = Front(list)
               /\ UndoDir \/ UndoCount \/ UndoFile \/ UndoFileRaises \/ UndoFileInUse
      <4>1. Names(Front(list), d) \/ Newest = DirRec(d)
        BY <2>2, <2>4, <3>3, NamesFront DEF Newest
      <4>2. CASE Newest = DirRec(d)
        <5>1. Newest.typ = "dir" /\ Newest.dir = d
          BY <2>2, <4>2, RecordKinds
        <5>2. UndoDir
          BY <3>3, <5>1 DEF UndoCount, UndoFile, UndoFileRaises, UndoFileInUse, TakeNewest
        <5>3. dirs' = dirs /\ ~IsEmptyDir(d) /\ UNCHANGED <<fs, temps>>
          BY <2>2, <5>1, <5>2 DEF UndoDir
        <5> QED
          BY <2>1, <5>3 DEF IsEmptyDir, EmptyIn
      <4> QED
        BY <3>3, <4>1, <4>2
    <3> QED
      BY <1>3, <3>1, <3>2, <3>3, RollbackLists
  <2> QED
    BY <2>3, <2>4
<1> QED
  BY <1>1, <1>2, <1>3, RollbackSteps

\* Where the records of a list are after one is appended.
LEMMA AppendPlaces ==
  ASSUME NEW s \in Seq(UndoRec), NEW r \in UndoRec
  PROVE  /\ \A j \in DOMAIN Append(s, r) : \/ j \in DOMAIN s /\ Append(s, r)[j] = s[j]
                                           \/ j = Len(s) + 1 /\ Append(s, r)[j] = r
         /\ \A j \in DOMAIN s : j \in DOMAIN Append(s, r) /\ Append(s, r)[j] = s[j]
         /\ \E j \in DOMAIN Append(s, r) : Append(s, r)[j] = r
<1> DEFINE n == Len(s)
           t == Append(s, r)
<1>1. /\ n \in Nat /\ DOMAIN s = 1..n /\ DOMAIN t = 1..(n + 1)
      /\ t[n + 1] = r /\ \A i \in 1..n : t[i] = s[i]
  BY AppendFacts
<1>n. n \in Nat
  BY <1>1
<1> HIDE DEF n, t
<1>2. /\ \A j \in 1..(n + 1) : j \in 1..n \/ j = n + 1
      /\ n + 1 \in 1..(n + 1) /\ \A j \in 1..n : j \in 1..(n + 1)
  BY <1>n
<1>3. /\ \A j \in DOMAIN t : (j \in DOMAIN s /\ t[j] = s[j]) \/ (j = n + 1 /\ t[j] = r)
      /\ \A j \in DOMAIN s : j \in DOMAIN t /\ t[j] = s[j]
      /\ \E j \in DOMAIN t : t[j] = r
  BY <1>1, <1>2
<1> QED
  BY <1>3 DEF t, n

\* Where they are after the newest is dropped.
LEMMA FrontPlaces ==
  ASSUME NEW s \in Seq(UndoRec), s # <<>>
  PROVE  /\ \A j \in DOMAIN Front(s) : j \in DOMAIN s /\ Front(s)[j] = s[j]
         /\ \A j \in DOMAIN s : j = Len(s) \/ (j \in DOMAIN Front(s) /\ Front(s)[j] = s[j])
<1> DEFINE n == Len(s)
           t == Front(s)
<1>1. /\ n \in Nat \ {0} /\ DOMAIN s = 1..n /\ DOMAIN t = 1..(n - 1)
      /\ \A i \in 1..(n - 1) : t[i] = s[i]
  BY FrontFacts
<1>n. n \in Nat \ {0}
  BY <1>1
<1> HIDE DEF n, t
<1>2. (\A i \in 1..n : i = n \/ i \in 1..(n - 1)) /\ \A i \in 1..(n - 1) : i \in 1..n
  BY <1>n
<1>3. /\ \A j \in DOMAIN t : j \in DOMAIN s /\ t[j] = s[j]
      /\ \A j \in DOMAIN s : j = n \/ (j \in DOMAIN t /\ t[j] = s[j])
  BY <1>1, <1>2
<1> QED
  BY <1>3 DEF t, n

\* The place of a record before another, at place k, was taken out.
Before(k, j) == IF j < k THEN j ELSE j + 1

\* Where they are after one is taken out.
LEMMA RemovalPlaces ==
  ASSUME NEW s \in Seq(UndoRec), NEW k \in 1..Len(s)
  PROVE  /\ \A j \in DOMAIN RemoveAt(s, k) :
              /\ Before(k, j) \in DOMAIN s /\ Before(k, j) # k
              /\ RemoveAt(s, k)[j] = s[Before(k, j)]
              /\ j < k => Before(k, j) = j
         /\ \A i, j \in DOMAIN RemoveAt(s, k) : Before(k, i) = Before(k, j) => i = j
         /\ \A m \in DOMAIN s : m = k \/ \E j \in DOMAIN RemoveAt(s, k) : RemoveAt(s, k)[j] = s[m]
<1> DEFINE n == Len(s)
           t == RemoveAt(s, k)
           p(m) == IF m < k THEN m ELSE m - 1
<1>1. /\ n \in Nat \ {0} /\ DOMAIN s = 1..n /\ DOMAIN t = 1..(n - 1)
      /\ \A i \in 1..(n - 1) : t[i] = IF i < k THEN s[i] ELSE s[i + 1]
  BY RemoveAtFacts
<1>n. n \in Nat \ {0} /\ k \in 1..n
  BY <1>1
<1>2. \A i \in 1..(n - 1) : t[i] = s[Before(k, i)]
  BY <1>1 DEF Before
<1> HIDE DEF n, t
<1>3. /\ \A j \in 1..(n - 1) : Before(k, j) \in 1..n /\ Before(k, j) # k /\ (j < k => Before(k, j) = j)
      /\ \A i, j \in 1..(n - 1) : Before(k, i) = Before(k, j) => i = j
      /\ \A m \in 1..n : m # k => p(m) \in 1..(n - 1) /\ Before(k, p(m)) = m
  BY <1>n DEF Before
<1> HIDE DEF p
<1>4. \A m \in 1..n : m # k => \E j \in 1..(n - 1) : t[j] = s[m]
  <2> SUFFICES ASSUME NEW m \in 1..n, m # k PROVE \E j \in 1..(n - 1) : t[j] = s[m]
    OBVIOUS
  <2> QED
    BY <1>2, <1>3
<1>5. /\ \A j \in DOMAIN t : /\ Before(k, j) \in DOMAIN s /\ Before(k, j) # k
                             /\ t[j] = s[Before(k, j)]
                             /\ j < k => Before(k, j) = j
      /\ \A i, j \in DOMAIN t : Before(k, i) = Before(k, j) => i = j
      /\ \A m \in DOMAIN s : m = k \/ \E j \in DOMAIN t : t[j] = s[m]
  BY <1>1, <1>2, <1>3, <1>4
<1> QED
  BY <1>5 DEF t

\* Entries that have not changed their counts after a step had not before it.
LEMMA UncountedSteps ==
  ASSUME TypeInv, NoSharedAssembly, [Next]_vars, Installing', Installing, NEW i, Uncounted(i)',
         "shared" \in Entries[app'][i].opts
  PROVE  Uncounted(i) /\ app' = app /\ (ShareEntry => i > idx)
<1>0. idx \in Nat /\ app \in Apps /\ \A j \in DOMAIN Entries[app] : j \in Nat
  <2>1. app \in Apps /\ idx \in Nat
    BY DEF TypeInv, ProcessType
  <2>2. Entries[app] \in Seq([file : Files, opts : SUBSET FileOptions])
    BY <2>1, TransactionAssumption
  <2> QED
    BY <2>1, <2>2
<1> USE DEF Uncounted, Installing, InstallPhases, EntryPhases
<1>1. CASE UNCHANGED vars
  BY <1>1 DEF vars, process, ShareEntry
<1>2. CASE CreateDirs \/ GenerateUninstallInfoFilename
  BY <1>2 DEF CreateDirs, GenerateUninstallInfoFilename, ShareEntry
<1>3. CASE BeginEntry \/ ExtractToTemp \/ DeleteExisting \/ MoveIntoPlace \/ ReplaceOnRestart
           \/ AskRetry
  BY <1>3 DEF BeginEntry, ExtractToTemp, DeleteExisting, MoveIntoPlace, ReplaceOnRestart,
     AskRetry, process, ShareEntry
<1>4. CASE ShareEntry
  BY <1>4 DEF ShareEntry, process
<1>5. CASE FinishEntry \/ AskIgnore
  <2>1. /\ pc \in {"finish", "ask"} /\ app' = app
        /\ pc' = "save" \/ (pc' = "entry" /\ idx' = idx + 1)
    BY <1>5 DEF FinishEntry, AskIgnore, NextEntry
  <2>2. i \in DOMAIN Entries[app] /\ (i > idx + 1 \/ i = idx + 1) /\ i \in Nat
    BY <1>0, <2>1
  <2>3. i > idx
    BY <1>0, <2>2
  <2> QED
    BY <2>1, <2>2, <2>3 DEF ShareEntry
<1>6. CASE EntryRaises
  <2>1. /\ pc \in {"temp", "delete", "move", "share", "finish"} /\ UNCHANGED <<app, idx>>
        /\ pc = "finish" => "gacinstall" \in Entries[app][idx].opts
        /\ pc' = "ask"
    BY <1>6 DEF EntryRaises, process, Opt, Cur
  <2>2. i \in DOMAIN Entries[app] /\ (i > idx \/ i = idx)
    BY <2>1
  <2>3. pc = "finish" => i # idx
    BY <1>0, <2>1, <2>2 DEF NoSharedAssembly
  <2>4. ~ShareEntry \/ pc = "share"
    BY DEF ShareEntry
  <2>5. pc' = "ask" /\ (ShareEntry => pc' = "finish")
    BY <1>6 DEF EntryRaises, ShareEntry
  <2> QED
    BY <2>1, <2>2, <2>3, <2>5
<1>7. CASE (\E a \in Apps : StartInstall(a) \/ StartUninstall(a)) \/ Cancel \/ SaveLog \/ Rollback
           \/ Step2 \/ EndStep2
  BY <1>7 DEF StartInstall, StartUninstall, Cancel, SaveLog, Rollback, EndProcess, Step2, EndStep2
<1>8. CASE UndoDir \/ UndoCount \/ UndoFile \/ UndoFileRaises \/ UndoFileInUse \/ EndRollback
           \/ DeleteUninstallDataFiles \/ ProcessDirsNotRemoved \/ EndUninstall \/ Restart \/ Crash
  BY <1>8 DEF UndoDir, UndoCount, UndoFile, UndoFileRaises, UndoFileInUse, TakeNewest,
     EndRollback, DeleteUninstallDataFiles, ProcessDirsNotRemoved, EndUninstall, EndProcess,
     Restart, Crash
<1> QED
  BY <1>1, <1>2, <1>3, <1>4, <1>5, <1>6, <1>7, <1>8 DEF Next

\* How a session that goes on changes counts, and the references in its list.
LEMMA SessionCounts ==
  ASSUME TypeInv, [Next]_vars, Installing, Installing'
  PROVE  \/ /\ count' = count
            /\ \/ list' = list
               \/ \E r \in UndoRec : list' = Append(list, r) /\ \A f : ~Holds(r, f)
         \/ /\ ShareEntry /\ Opt("shared") /\ Uncounted(idx) /\ app' = app
            /\ count' = Incremented(Cur.file, existed)
            /\ \E r \in UndoRec :
                 /\ list' = Append(list, r) /\ \A f : Holds(r, f) => f = Cur.file
                 /\ r.typ = "file" => r = FileRec(Cur.file, tmp, existed, Cur.opts)
<1>1. CASE CreateDirs \/ ExtractToTemp
  <2>1. \E d \in Dirs : \E o : MakeParent(d, o) \/ MakeLast(d, o)
    BY <1>1, AskedDir DEF CreateDirs, ExtractToTemp
  <2>2. count' = count /\ \A d \in Dirs : \A f : ~Holds(DirRec(d), f)
    BY <1>1, RecordKinds DEF CreateDirs, ExtractToTemp, Holds
  <2>3. \E e \in Dirs : list' = list \/ list' = Append(list, DirRec(e))
    BY <2>1, MadeDir
  <2> QED
    BY <2>2, <2>3, RecordKinds
<1>2. CASE MoveIntoPlace \/ ReplaceOnRestart
  <2>1. /\ pc \in EntryPhases /\ Cur.file \in Files /\ Cur.opts \in SUBSET FileOptions
        /\ existed \in BOOLEAN /\ tmp \in Temp \cup {NoTmp}
    BY <1>2, CurType DEF MoveIntoPlace, ReplaceOnRestart, EntryPhases, TypeInv, EntryType
  <2>2. PICK t \in {NoTmp, tmp} : list' = RecordInstalled(t) /\ count' = count
    BY <1>2 DEF MoveIntoPlace, ReplaceOnRestart
  <2>3. CASE Opt("shared")
    BY <2>2, <2>3 DEF RecordInstalled
  <2>4. CASE ~Opt("shared")
    <3> DEFINE r == FileRec(Cur.file, t, existed, Cur.opts)
    <3>1. r \in UndoRec /\ r.typ = "file" /\ r.opts = Cur.opts
      BY <2>1, <2>2, RecordKinds
    <3>2. \A f : ~Holds(r, f)
      BY <2>4, <3>1 DEF Holds, Opt
    <3>3. list' = list \/ list' = Append(list, r)
      BY <2>2 DEF RecordInstalled
    <3> HIDE DEF r
    <3> QED
      BY <2>2, <3>1, <3>2, <3>3
  <2> QED
    BY <2>3, <2>4
<1>3. CASE ShareEntry
  <2>1. CASE ~Opt("shared")
    BY <1>3, <2>1 DEF ShareEntry
  <2>2. CASE Opt("shared")
    <3>1. /\ pc = "share" /\ Cur.file \in Files /\ Cur.opts \in SUBSET FileOptions
          /\ existed \in BOOLEAN /\ tmp \in Temp \cup {NoTmp} /\ app \in Apps
          /\ idx \in DOMAIN Entries[app]
      BY <1>3, CurType, TransactionAssumption DEF ShareEntry, EntryPhases, TypeInv, EntryType
    <3> DEFINE r == IF Opt("neveruninstall") THEN CountRec(Cur.file)
                    ELSE FileRec(Cur.file, tmp, existed, Cur.opts)
    <3>2. count' = Incremented(Cur.file, existed) /\ list' = Append(list, r) /\ app' = app
      BY <1>3, <2>2 DEF ShareEntry, process
    <3>3. r \in UndoRec /\ r.file = Cur.file
          /\ (r.typ = "file" => r = FileRec(Cur.file, tmp, existed, Cur.opts))
      BY <3>1, RecordKinds
    <3>4. \A f : Holds(r, f) => f = Cur.file
      BY <3>3 DEF Holds
    <3>5. Uncounted(idx)
      BY <3>1 DEF Uncounted, EntryPhases
    <3> HIDE DEF r
    <3> QED
      BY <1>3, <2>2, <3>2, <3>3, <3>4, <3>5
  <2> QED
    BY <2>1, <2>2
<1>4. CASE \/ UNCHANGED vars \/ GenerateUninstallInfoFilename \/ BeginEntry \/ DeleteExisting
           \/ FinishEntry \/ EntryRaises \/ AskRetry \/ AskIgnore \/ Cancel
  BY <1>4 DEF vars, disk, GenerateUninstallInfoFilename, BeginEntry, DeleteExisting, FinishEntry,
     EntryRaises, AskRetry, AskIgnore, Cancel
<1>5. CASE (\E a \in Apps : StartInstall(a) \/ StartUninstall(a)) \/ SaveLog \/ Rollback \/ Step2
           \/ EndStep2 \/ UndoDir \/ UndoCount \/ UndoFile \/ UndoFileRaises \/ UndoFileInUse
  BY <1>5 DEF StartInstall, StartUninstall, SaveLog, Rollback, EndProcess, Step2, EndStep2, UndoDir,
     UndoCount, UndoFile, UndoFileRaises, UndoFileInUse, TakeNewest, Installing, InstallPhases,
     EntryPhases
<1>6. CASE EndRollback \/ DeleteUninstallDataFiles \/ ProcessDirsNotRemoved \/ EndUninstall
           \/ Restart \/ Crash
  BY <1>6 DEF EndRollback, DeleteUninstallDataFiles, ProcessDirsNotRemoved, EndUninstall, Restart,
     Crash, EndProcess, Installing, InstallPhases, EntryPhases
<1> QED
  BY <1>1, <1>2, <1>3, <1>4, <1>5, <1>6 DEF Next

\* A shared entry that has not been counted finds the count the session found,
\* and no reference of its own in the list.
LEMMA CountsAheadStep ==
  ASSUME TypeInv, TypeInv', ListedOnce, NoSharedAssembly, CountsAhead, [Next]_vars
  PROVE  CountsAhead'
<1> SUFFICES ASSUME NEW i \in DOMAIN Entries[app'], Uncounted(i)',
                    "shared" \in Entries[app'][i].opts
             PROVE  LET f == Entries[app'][i].file
                    IN  count'[f] = start'.count[f] /\ \A j \in DOMAIN list' : ~Holds(list'[j], f)
  BY DEF CountsAhead
<1>0. Installing' /\ InSession'
  BY DEF Uncounted, InSession, Installing, InstallPhases, EntryPhases
<1>1. CASE \E a \in Apps : StartInstall(a)
  BY <1>1, EmptySeq DEF StartInstall, Snapshot
<1>2. CASE Installing /\ UNCHANGED <<start, app>>
  <2> DEFINE f == Entries[app][i].file
  <2>1. Uncounted(i) /\ (ShareEntry => i > idx)
    BY <1>0, <1>2, UncountedSteps
  <2>2. /\ count[f] = start.count[f] /\ \A j \in DOMAIN list : ~Holds(list[j], f)
        /\ list \in Seq(UndoRec)
    BY <1>2, <2>1 DEF CountsAhead, TypeInv, LogType
  <2>3. ASSUME NEW r \in UndoRec, list' = Append(list, r), ~Holds(r, f)
        PROVE  \A j \in DOMAIN list' : ~Holds(list'[j], f)
    BY <2>2, <2>3, AppendPlaces
  <2>4. CASE /\ count' = count
             /\ \/ list' = list
                \/ \E r \in UndoRec : list' = Append(list, r) /\ \A g : ~Holds(r, g)
    BY <1>2, <2>2, <2>3, <2>4
  <2>5. CASE /\ ShareEntry /\ count' = Incremented(Cur.file, existed)
             /\ \E r \in UndoRec : /\ list' = Append(list, r)
                                   /\ \A g : Holds(r, g) => g = Cur.file
    <3>a. idx \in 1..Len(Entries[app]) /\ app \in Apps
      BY <2>5, CurType DEF ShareEntry, EntryPhases
    <3>b. Entries[app] \in Seq([file : Files, opts : SUBSET FileOptions])
      BY <3>a, TransactionAssumption
    <3>c. i \in DOMAIN Entries[app] /\ count \in [Files -> Nat]
      BY <1>2 DEF TypeInv, CountType
    <3>1. /\ idx \in DOMAIN Entries[app] /\ idx \in Nat /\ app \in Apps
          /\ i \in DOMAIN Entries[app] /\ count \in [Files -> Nat]
      BY <3>a, <3>b, <3>c
    <3>2. i # idx
      BY <2>1, <2>5, <3>1
    <3>3. f # Cur.file
      BY <3>1, <3>2 DEF ListedOnce, Cur
    <3>d. Entries[app][i] \in [file : Files, opts : SUBSET FileOptions]
      <4> DEFINE S == [file : Files, opts : SUBSET FileOptions]
                 s == Entries[app]
      <4>1. s \in Seq(S) /\ i \in DOMAIN s
        BY <3>b, <3>1
      <4> HIDE DEF S, s
      <4>2. s[i] \in S
        BY <4>1
      <4> QED
        BY <4>2 DEF S, s
    <3>4. f \in Files
      BY <3>d
    <3>5. count'[f] = count[f]
      BY <2>5, <3>1, <3>3, <3>4 DEF Incremented
    <3>6. \A j \in DOMAIN list' : ~Holds(list'[j], f)
      BY <2>3, <2>5, <3>3
    <3> QED
      BY <1>2, <2>2, <3>5, <3>6
  <2> QED
    BY <1>0, <1>2, <2>4, <2>5, SessionCounts
<1> QED
  BY <1>0, <1>1, <1>2, SessionSteps

\* How a list changes in a rollback, place by place.
LEMMA RollbackPlaces ==
  ASSUME TypeInv, RollingBack,
         Step2 \/ EndStep2 \/ UndoDir \/ UndoCount \/ UndoFile \/ UndoFileRaises \/ UndoFileInUse
  PROVE  \E g \in [DOMAIN list' -> DOMAIN list] :
           /\ \A j \in DOMAIN list' : list'[j] = list[g[j]]
           /\ \A i, j \in DOMAIN list' : g[i] = g[j] => i = j
           /\ Step2 => \A j \in DOMAIN list' : j < idx => g[j] = j
<1>0. list \in Seq(UndoRec)
  BY DEF TypeInv, LogType
<1>1. CASE list' = list
  <2> DEFINE g == [j \in DOMAIN list' |-> j]
  <2>1. g \in [DOMAIN list' -> DOMAIN list] /\ \A j \in DOMAIN list' : g[j] = j
    BY <1>1
  <2> HIDE DEF g
  <2> QED
    BY <1>1, <2>1
<1>2. CASE Step2 /\ idx \in 1..Len(list) /\ list' = RemoveAt(list, idx)
  <2> DEFINE g == [j \in DOMAIN list' |-> Before(idx, j)]
  <2>1. /\ \A j \in DOMAIN list' : /\ Before(idx, j) \in DOMAIN list
                                   /\ list'[j] = list[Before(idx, j)]
                                   /\ j < idx => Before(idx, j) = j
        /\ \A i, j \in DOMAIN list' : Before(idx, i) = Before(idx, j) => i = j
    BY <1>0, <1>2, RemovalPlaces
  <2>2. \A j \in DOMAIN list' : g[j] = Before(idx, j)
    OBVIOUS
  <2>3. g \in [DOMAIN list' -> DOMAIN list]
    BY <2>1
  <2> HIDE DEF g
  <2> QED
    BY <2>1, <2>2, <2>3
<1>3. CASE list # <<>> /\ list' = Front(list) /\ ~Step2
  <2> DEFINE g == [j \in DOMAIN list' |-> j]
  <2>1. \A j \in DOMAIN list' : j \in DOMAIN list /\ list'[j] = list[j]
    BY <1>0, <1>3, FrontPlaces
  <2>2. g \in [DOMAIN list' -> DOMAIN list] /\ \A j \in DOMAIN list' : g[j] = j
    BY <2>1
  <2> HIDE DEF g
  <2> QED
    BY <1>3, <2>1, <2>2
<1>4. UndoDir \/ UndoCount \/ UndoFile \/ UndoFileRaises \/ UndoFileInUse => ~Step2
  BY DEF UndoDir, UndoCount, UndoFile, UndoFileRaises, UndoFileInUse, TakeNewest, Step2
<1> QED
  BY <1>1, <1>2, <1>3, <1>4, RollbackLists

\* A session has one reference to a file at most.
LEMMA HeldOnceStep ==
  ASSUME TypeInv, TypeInv', CountsAhead, HeldOnce, [Next]_vars
  PROVE  HeldOnce'
<1> SUFFICES ASSUME InSession', NEW f \in Files, NEW i \in DOMAIN list', NEW j \in DOMAIN list',
                    Holds(list'[i], f), Holds(list'[j], f)
             PROVE  i = j
  BY DEF HeldOnce
<1>1. CASE \E a \in Apps : StartInstall(a)
  BY <1>1, EmptySeq DEF StartInstall
<1>2. CASE /\ InSession /\ UNCHANGED <<start, app, uninstaller>>
           /\ Installing' => Installing
  <2>1. /\ list \in Seq(UndoRec)
        /\ \A k, l \in DOMAIN list : Holds(list[k], f) /\ Holds(list[l], f) => k = l
    BY <1>2 DEF HeldOnce, TypeInv, LogType
  <2>2. CASE list' = list
    BY <2>1, <2>2
  <2>3. CASE Installing'
    <3>1. CASE \E r \in UndoRec : list' = Append(list, r) /\ \A g : ~Holds(r, g)
      <4>1. PICK r \in UndoRec : list' = Append(list, r) /\ \A g : ~Holds(r, g)
        BY <3>1
      <4> QED
        BY <2>1, <4>1, AppendPlaces
    <3>2. CASE /\ Opt("shared") /\ Uncounted(idx)
               /\ \E r \in UndoRec : /\ list' = Append(list, r)
                                     /\ \A g : Holds(r, g) => g = Cur.file
      <4>1. PICK r \in UndoRec : list' = Append(list, r) /\ \A g : Holds(r, g) => g = Cur.file
        BY <3>2
      <4>2. idx \in DOMAIN Entries[app]
        BY <3>2 DEF Uncounted
      <4>3. \A k \in DOMAIN list : ~Holds(list[k], Cur.file)
        BY <3>2, <4>2 DEF CountsAhead, Opt, Cur
      <4> QED
        BY <2>1, <4>1, <4>3, AppendPlaces
    <3> QED
      BY <1>2, <2>2, <2>3, <3>1, <3>2, SessionCounts
  <2>4. CASE RollingBack'
    <3>1. CASE Rollback \/ UNCHANGED vars
      BY <2>2, <3>1 DEF Rollback, vars
    <3>2. CASE /\ RollingBack
               /\ \/ Step2 \/ EndStep2 \/ UndoDir \/ UndoCount \/ UndoFile \/ UndoFileRaises
                  \/ UndoFileInUse
      <4>1. PICK g \in [DOMAIN list' -> DOMAIN list] :
              /\ \A k \in DOMAIN list' : list'[k] = list[g[k]]
              /\ \A k, l \in DOMAIN list' : g[k] = g[l] => k = l
        BY <3>2, RollbackPlaces
      <4>2. /\ g[i] \in DOMAIN list /\ g[j] \in DOMAIN list
            /\ list'[i] = list[g[i]] /\ list'[j] = list[g[j]]
        BY <4>1
      <4> QED
        BY <2>1, <4>1, <4>2
    <3> QED
      BY <2>4, <3>1, <3>2, RollbackSteps
  <2> QED
    BY <1>2, <2>3, <2>4 DEF InSession
<1> QED
  BY <1>1, <1>2, SessionSteps

\* The count of a shared file that nobody had counted is the session's own.
LEMMA CountedOnceStep ==
  ASSUME TypeInv, TypeInv', CountsAhead, HeldOnce, CountedOnce, [Next]_vars
  PROVE  CountedOnce'
<1> SUFFICES ASSUME InSession', NEW i \in DOMAIN list', list'[i].typ = "file",
                    "shared" \in list'[i].opts, uninstaller' \/ ~list'[i].existed,
                    ~(pc' = "step3" \/ (pc' = "step2" /\ i > idx')),
                    start'.count[list'[i].file] = 0
             PROVE  count'[list'[i].file] = 1
  BY DEF CountedOnce, CountedInStep2, GivenBack
<1>1. CASE \E a \in Apps : StartInstall(a)
  BY <1>1, EmptySeq DEF StartInstall
<1>2. CASE /\ InSession /\ UNCHANGED <<start, app, uninstaller>>
           /\ Installing' => Installing
  <2> DEFINE r == list'[i]
             f == list'[i].file
  <2>0. /\ list \in Seq(UndoRec) /\ count \in [Files -> Nat] /\ r \in UndoRec
        /\ r.typ = "file" /\ "shared" \in r.opts /\ ~r.existed /\ f \in Files /\ ~uninstaller
    <3>1. list' \in Seq(UndoRec) /\ list \in Seq(UndoRec) /\ count \in [Files -> Nat]
      BY DEF TypeInv, LogType, CountType
    <3>2. r \in UndoRec /\ (r.typ = "file" => r.file \in Files)
      BY <3>1, RecordKinds
    <3>3. ~uninstaller
      BY <1>2 DEF InSession, Installing, RollingBack, TypeInv, Control
    <3> QED
      BY <1>2, <3>1, <3>2, <3>3
  <2>1. \A k \in DOMAIN list : list[k] = r /\ ~GivenBack(k) => count[f] = 1
    BY <1>2, <2>0 DEF CountedOnce, CountedInStep2
  <2>2. Installing => \A k \in DOMAIN list : ~GivenBack(k)
    BY DEF GivenBack, Installing, InstallPhases, EntryPhases
  <2> HIDE DEF r, f
  <2>3. CASE Installing'
    <3>1. CASE /\ count' = count
               /\ \/ list' = list
                  \/ \E s \in UndoRec : list' = Append(list, s) /\ \A g : ~Holds(s, g)
      <4>1. Holds(r, f)
        BY <2>0 DEF Holds, r, f
      <4>2. \E k \in DOMAIN list : list[k] = r
        BY <2>0, <3>1, <4>1, AppendPlaces DEF r
      <4> QED
        BY <1>2, <2>1, <2>2, <2>3, <3>1, <4>2 DEF f, r
    <3>2. CASE /\ Opt("shared") /\ Uncounted(idx)
               /\ count' = Incremented(Cur.file, existed)
               /\ \E s \in UndoRec :
                    /\ list' = Append(list, s) /\ \A g : Holds(s, g) => g = Cur.file
                    /\ s.typ = "file" => s = FileRec(Cur.file, tmp, existed, Cur.opts)
      <4>1. PICK s \in UndoRec :
                    /\ list' = Append(list, s) /\ \A g : Holds(s, g) => g = Cur.file
                    /\ s.typ = "file" => s = FileRec(Cur.file, tmp, existed, Cur.opts)
        BY <3>2
      <4>2. idx \in DOMAIN Entries[app] /\ Cur.file = Entries[app][idx].file
        BY <3>2 DEF Uncounted, Cur
      <4>3. count[Cur.file] = start.count[Cur.file] /\ \A k \in DOMAIN list : ~Holds(list[k], Cur.file)
        BY <3>2, <4>2 DEF CountsAhead, Opt, Cur
      <4>4. CASE r = s
        <5>1. r = FileRec(Cur.file, tmp, existed, Cur.opts)
          BY <2>0, <4>1, <4>4
        <5>2. f = Cur.file /\ existed = FALSE
          BY <2>0, <5>1 DEF FileRec, f, r, TypeInv, EntryType
        <5>3. count[f] = 0
          BY <1>2, <4>3, <5>2 DEF f, r
        <5>4. count'[f] = 1
          BY <2>0, <3>2, <5>2, <5>3 DEF Incremented
        <5> QED
          BY <5>4 DEF f
      <4>5. CASE r # s
        <5>1. PICK k \in DOMAIN list : list[k] = r
          BY <2>0, <4>1, <4>5, AppendPlaces DEF r
        <5>2. Holds(r, f) /\ f # Cur.file
          BY <2>0, <4>3, <5>1 DEF Holds, r, f
        <5>3. count'[f] = count[f]
          BY <2>0, <3>2, <5>2 DEF Incremented
        <5> QED
          BY <1>2, <2>1, <2>2, <2>3, <5>1, <5>3 DEF f, r
      <4> QED
        BY <4>4, <4>5
    <3> QED
      BY <1>2, <2>3, <3>1, <3>2, SessionCounts
  <2>4. CASE RollingBack'
    <3>1. CASE Rollback
      <4>1. Installing /\ UNCHANGED <<list, count>>
        BY <3>1 DEF Rollback, Installing
      <4> QED
        BY <2>1, <2>2, <4>1 DEF f, r
    <3>2. CASE UNCHANGED vars
      <4>1. ~GivenBack(i) /\ UNCHANGED <<list, count>>
        BY <3>2 DEF vars, GivenBack, process
      <4> QED
        BY <2>1, <4>1 DEF f, r
    <3>3. CASE RollingBack /\ Step2
      <4>1. PICK g \in [DOMAIN list' -> DOMAIN list] :
              /\ \A k \in DOMAIN list' : list'[k] = list[g[k]]
              /\ \A k, l \in DOMAIN list' : g[k] = g[l] => k = l
              /\ \A k \in DOMAIN list' : k < idx => g[k] = k
        BY <3>3, RollbackPlaces
      <4>2. pc' = "step2" /\ idx' = idx - 1 /\ pc = "step2" /\ idx \in Nat /\ idx \in DOMAIN list
        BY <3>3, NewestType DEF Step2, TypeInv, ProcessType
      <4>3. i \in Nat
        <5>1. list' \in Seq(UndoRec)
          BY DEF TypeInv, LogType
        <5> QED
          BY <5>1
      <4>4. ~(i > idx') /\ i < idx
        BY <4>2, <4>3
      <4>5. g[i] = i /\ list[i] = r /\ i \in DOMAIN list /\ i # idx
        BY <4>1, <4>3, <4>4, <4>2 DEF r
      <4>6. ~GivenBack(i)
        BY <4>2, <4>3, <4>4 DEF GivenBack
      <4>7. count[f] = 1
        BY <2>1, <4>5, <4>6
      <4>8. Holds(list[i], f)
        BY <2>0, <4>5 DEF Holds, r, f
      <4>9. CASE CountedInStep2(list[idx])
        <5>1. Holds(list[idx], list[idx].file) /\ list[idx].file # f
          BY <1>2, <2>0, <4>2, <4>5, <4>8, <4>9 DEF CountedInStep2, Holds, HeldOnce
        <5>2. count' = count \/ count' = Decremented(list[idx].file)
          BY <3>3 DEF Step2
        <5>3. count'[f] = count[f]
          BY <2>0, <5>1, <5>2 DEF Decremented
        <5> QED
          BY <4>7, <5>3 DEF f, r
      <4>10. CASE ~CountedInStep2(list[idx])
        <5>1. count' = count
          BY <3>3, <4>10 DEF Step2
        <5> QED
          BY <4>7, <5>1 DEF f, r
      <4> QED
        BY <4>9, <4>10
    <3>4. CASE EndStep2 \/ UndoDir \/ UndoCount \/ UndoFile \/ UndoFileRaises \/ UndoFileInUse
      <4>1. pc' = "step3"
        BY <3>4 DEF EndStep2, UndoDir, UndoCount, UndoFile, UndoFileRaises, UndoFileInUse,
           TakeNewest
      <4> QED
        BY <4>1
    <3> QED
      BY <2>4, <3>1, <3>2, <3>3, <3>4, RollbackSteps
  <2> QED
    BY <1>2, <2>3, <2>4 DEF InSession
<1> QED
  BY <1>1, <1>2, SessionSteps

\* A session that goes on keeps its records.
LEMMA RecordsStay ==
  ASSUME TypeInv, [Next]_vars, Installing, Installing'
  PROVE  \A i \in DOMAIN list : \E j \in DOMAIN list' : list'[j] = list[i]
<1>1. list \in Seq(UndoRec)
  BY DEF TypeInv, LogType
<1>2. list' = list \/ \E r \in UndoRec : list' = Append(list, r)
  BY SessionCounts
<1> QED
  BY <1>1, <1>2, AppendPlaces

\* What Setup takes over from a temporary file is in place, or is the file's own.
LEMMA LeftWhenStep ==
  ASSUME TypeInv, LeftWhen, [Next]_vars
  PROVE  LeftWhen'
<1> USE DEF LeftWhen, ClearEntry
<1>1. CASE UNCHANGED vars
  BY <1>1 DEF vars, entry
<1>2. CASE (\E a \in Apps : StartInstall(a) \/ StartUninstall(a)) \/ CreateDirs
           \/ GenerateUninstallInfoFilename \/ BeginEntry \/ ExtractToTemp \/ DeleteExisting
  BY <1>2 DEF StartInstall, StartUninstall, CreateDirs, GenerateUninstallInfoFilename, BeginEntry,
     ExtractToTemp, DeleteExisting, entry
<1>3. CASE MoveIntoPlace \/ ReplaceOnRestart \/ ShareEntry \/ FinishEntry \/ EntryRaises
           \/ AskRetry \/ AskIgnore \/ Cancel \/ SaveLog \/ Rollback
  BY <1>3 DEF MoveIntoPlace, ReplaceOnRestart, ShareEntry, FinishEntry, EntryRaises, DropLeftOver,
     AskRetry, AskIgnore, Cancel, SaveLog, Rollback, NextEntry, EndProcess, entry
<1>4. CASE Step2 \/ EndStep2 \/ UndoDir \/ UndoCount \/ UndoFile \/ UndoFileRaises \/ UndoFileInUse
  BY <1>4 DEF Step2, EndStep2, UndoDir, UndoCount, UndoFile, UndoFileRaises, UndoFileInUse,
     TakeNewest, entry
<1>5. CASE EndRollback \/ DeleteUninstallDataFiles \/ ProcessDirsNotRemoved \/ EndUninstall
           \/ Restart \/ Crash
  BY <1>5 DEF EndRollback, DeleteUninstallDataFiles, ProcessDirsNotRemoved, EndUninstall, Restart,
     Crash, EndProcess, entry
<1> QED
  BY <1>1, <1>2, <1>3, <1>4, <1>5 DEF Next

\* The steps of an installation that touch its files, and the others.
LEMMA FileSteps ==
  ASSUME TypeInv, [Next]_vars, Installing, Installing'
  PROVE  \/ ExtractToTemp \/ DeleteExisting \/ MoveIntoPlace \/ ReplaceOnRestart \/ ShareEntry
         \/ EntryRaises \/ Cancel
         \/ UNCHANGED <<fs, temps, excused, tmp, left, pc, app, idx>>
         \/ UNCHANGED <<fs, temps, excused>> /\ pc \notin {"delete", "move", "share"}
<1>1. CASE UNCHANGED vars
  BY <1>1 DEF vars, disk, entry, history, process
<1>2. CASE CreateDirs \/ GenerateUninstallInfoFilename \/ BeginEntry \/ FinishEntry \/ AskRetry
           \/ AskIgnore
  BY <1>2 DEF CreateDirs, GenerateUninstallInfoFilename, BeginEntry, FinishEntry, AskRetry,
     AskIgnore, disk, history
<1>3. CASE (\E a \in Apps : StartInstall(a) \/ StartUninstall(a)) \/ SaveLog \/ Rollback \/ Step2
           \/ EndStep2 \/ UndoDir \/ UndoCount \/ UndoFile \/ UndoFileRaises \/ UndoFileInUse
  BY <1>3 DEF StartInstall, StartUninstall, SaveLog, Rollback, EndProcess, Step2, EndStep2, UndoDir,
     UndoCount, UndoFile, UndoFileRaises, UndoFileInUse, TakeNewest, Installing, InstallPhases,
     EntryPhases
<1>4. CASE EndRollback \/ DeleteUninstallDataFiles \/ ProcessDirsNotRemoved \/ EndUninstall
           \/ Restart \/ Crash
  BY <1>4 DEF EndRollback, DeleteUninstallDataFiles, ProcessDirsNotRemoved, EndUninstall, Restart,
     Crash, EndProcess, Installing, InstallPhases, EntryPhases
<1> QED
  BY <1>1, <1>2, <1>3, <1>4 DEF Next

\* The options of the entry in hand are those of its file.
LEMMA CurFlags ==
  ASSUME TypeInv, ListedOnce, pc \in EntryPhases, NEW o
  PROVE  Flagged(app, Cur.file, o) <=> Opt(o)
<1>1. idx \in 1..Len(Entries[app]) /\ app \in Apps
  BY CurType
<1>2. Entries[app] \in Seq([file : Files, opts : SUBSET FileOptions])
  BY <1>1, TransactionAssumption
<1>3. idx \in DOMAIN Entries[app]
  BY <1>1, <1>2
<1>4. EntryOf(app, Cur.file) = {Cur}
  BY <1>1, <1>3 DEF EntryOf, Cur, ListedOnce
<1> QED
  BY <1>4 DEF Flagged, Opt

\* The entry's record is in the list once it is installed, or its count raised.
LEMMA NewlyRecorded ==
  ASSUME TypeInv, NEW r \in UndoRec, list' = Append(list, r), r.typ = "file"
  PROVE  /\ r.tmp = NoTmp /\ ~r.existed => FileRecorded(r.file)'
         /\ TempRecorded(r.tmp)'
<1>1. list \in Seq(UndoRec)
  BY DEF TypeInv, LogType
<1>2. \E j \in DOMAIN list' : list'[j] = r
  BY <1>1, AppendPlaces
<1> QED
  BY <1>2 DEF FileRecorded, TempRecorded

\* What ShareEntry records of a shared file.
LEMMA ShareRecords ==
  ASSUME TypeInv, CheckedWhen, CheckedOnce, ShareEntry, Opt("shared"), ~Opt("neveruninstall"),
         NEW f, f = Cur.file, NEW t, t = tmp
  PROVE  /\ t = NoTmp /\ start.fs[f] = Absent => FileRecorded(f)'
         /\ TempRecorded(t)'
<1>1. /\ pc = "share" /\ pc \in EntryPhases /\ Cur.file \in Files /\ Cur.opts \in SUBSET FileOptions
      /\ existed \in BOOLEAN /\ tmp \in Temp \cup {NoTmp}
  BY CurType DEF ShareEntry, EntryPhases, TypeInv, EntryType
<1>2. PICK r \in UndoRec : /\ list' = Append(list, r) /\ r.typ = "file" /\ r.file = f
                           /\ r.tmp = t /\ (r.existed <=> existed)
  <2> DEFINE r == FileRec(Cur.file, t, existed, Cur.opts)
  <2>1. list' = Append(list, r)
    BY DEF ShareEntry
  <2>2. r \in UndoRec /\ r.typ = "file" /\ r.file = f /\ r.tmp = t /\ r.existed = existed
    BY <1>1, RecordKinds
  <2> HIDE DEF r
  <2> QED
    BY <2>1, <2>2
<1>3. existed <=> start.fs[Cur.file] # Absent
  BY <1>1 DEF CheckedWhen, CheckedOnce, EntryPhases
<1> QED
  BY <1>2, <1>3, NewlyRecorded

\* What is recorded of a file that is not shared.
LEMMA InstallRecords ==
  ASSUME TypeInv, CheckedWhen, CheckedOnce, ~Opt("shared"), ~Opt("neveruninstall"),
         pc \in {"delete", "move"}, NEW f, f = Cur.file, NEW t \in Temp \cup {NoTmp},
         list' = RecordInstalled(t)
  PROVE  /\ t = NoTmp /\ start.fs[f] = Absent => FileRecorded(f)'
         /\ TempRecorded(t)'
<1>1. /\ pc \in EntryPhases /\ Cur.file \in Files /\ Cur.opts \in SUBSET FileOptions
      /\ existed \in BOOLEAN /\ tmp \in Temp \cup {NoTmp}
  BY CurType DEF EntryPhases, TypeInv, EntryType
<1>2. PICK r \in UndoRec : /\ list' = Append(list, r) /\ r.typ = "file" /\ r.file = f
                           /\ r.tmp = t /\ (r.existed <=> existed)
  <2> DEFINE r == FileRec(Cur.file, t, existed, Cur.opts)
  <2>1. list' = Append(list, r)
    BY DEF RecordInstalled
  <2>2. r \in UndoRec /\ r.typ = "file" /\ r.file = f /\ r.tmp = t /\ r.existed = existed
    BY <1>1, RecordKinds
  <2> HIDE DEF r
  <2> QED
    BY <2>1, <2>2
<1>3. existed <=> start.fs[Cur.file] # Absent
  BY <1>1 DEF CheckedWhen, CheckedOnce, EntryPhases
<1> QED
  BY <1>2, <1>3, NewlyRecorded

\* While files are installed, a new file is in the list, or is excused, or is
\* the shared one in hand.
LEMMA FilesInstalling ==
  ASSUME TypeInv, ListedOnce, CheckedWhen, CheckedOnce, NewFilesRecorded, [Next]_vars,
         Installing, Installing', UNCHANGED <<start, app>>,
         NEW f \in Files, start.fs[f] = Absent, fs'[f] # Absent
  PROVE  \/ MayBeKept(f) \/ FileRecorded(f)' \/ (f \in excused' /\ Flagged(app, f, "shared"))
         \/ pc' = "share" /\ Opt("shared")' /\ f = Cur'.file /\ tmp' = NoTmp
<1> DEFINE Had == \/ MayBeKept(f) \/ FileRecorded(f)
                  \/ f \in excused /\ Flagged(app, f, "shared")
                  \/ pc = "share" /\ Opt("shared") /\ f = Cur.file /\ tmp = NoTmp
<1>0. fs \in [Files -> Content]
  BY DEF TypeInv, DiskType
<1>1. FileRecorded(f) => FileRecorded(f)'
  BY RecordsStay DEF FileRecorded
<1>2. fs[f] # Absent => Had
  <2>1. InSession
    BY DEF InSession
  <2> QED
    BY <2>1 DEF NewFilesRecorded
<1> HIDE DEF Had
<1>3. CASE MoveIntoPlace
  <2>1. /\ pc = "move" /\ pc \in EntryPhases /\ pc' = "share" /\ tmp' = NoTmp
        /\ UNCHANGED <<excused, idx>> /\ list' = RecordInstalled(NoTmp)
        /\ fs' = [fs EXCEPT ![Cur.file] = ses]
    BY <1>3 DEF MoveIntoPlace, EntryPhases, process, history
  <2>2. CASE f # Cur.file
    <3>1. fs'[f] = fs[f]
      BY <1>0, <2>1, <2>2
    <3> QED
      BY <1>1, <1>2, <2>1, <3>1 DEF Had
  <2>3. CASE f = Cur.file /\ Opt("shared")
    BY <2>1, <2>3 DEF Opt, Cur
  <2>4. CASE f = Cur.file /\ Opt("neveruninstall")
    BY <2>1, <2>4, CurFlags DEF MayBeKept
  <2>5. CASE f = Cur.file /\ ~Opt("shared") /\ ~Opt("neveruninstall")
    BY <2>1, <2>5, InstallRecords
  <2> QED
    BY <2>2, <2>3, <2>4, <2>5
<1>4. CASE ShareEntry
  <2>1. /\ pc = "share" /\ pc \in EntryPhases /\ fs' = fs
        /\ excused' = IF tmp = NoTmp THEN excused \ {Cur.file} ELSE excused
    BY <1>4 DEF ShareEntry, EntryPhases, disk
  <2>2. CASE f \in excused' \/ MayBeKept(f) \/ FileRecorded(f)
    BY <1>1, <1>2, <2>1, <2>2 DEF Had
  <2>3. CASE f = Cur.file /\ tmp = NoTmp
    <3>1. CASE Opt("neveruninstall")
      BY <2>1, <2>3, <3>1, CurFlags DEF MayBeKept
    <3>2. CASE Opt("shared") /\ ~Opt("neveruninstall")
      BY <1>4, <2>3, <3>2, ShareRecords
    <3>3. CASE ~Opt("shared")
      <4>1. ~Flagged(app, f, "shared")
        BY <2>1, <2>3, <3>3, CurFlags
      <4> QED
        BY <1>1, <1>2, <2>1, <3>3, <4>1 DEF Had
    <3> QED
      BY <3>1, <3>2, <3>3
  <2> QED
    BY <1>2, <2>1, <2>2, <2>3 DEF Had
<1>5. CASE EntryRaises
  <2>1. /\ pc \in EntryPhases /\ fs' = fs
        /\ pc = "share" => Opt("shared")
        /\ excused' = IF pc = "share"
                      THEN excused \cup {IF tmp = NoTmp THEN Cur.file ELSE tmp} ELSE excused
    BY <1>5 DEF EntryRaises, EntryPhases
  <2>2. pc = "share" /\ f = Cur.file => Flagged(app, f, "shared")
    BY <2>1, CurFlags
  <2> QED
    BY <1>1, <1>2, <2>1, <2>2 DEF Had
<1>6. CASE ExtractToTemp \/ DeleteExisting \/ ReplaceOnRestart \/ Cancel
  <2>1. /\ pc # "share" /\ excused' = excused
        /\ fs' = fs \/ fs' = [fs EXCEPT ![Cur.file] = Absent]
    BY <1>6 DEF ExtractToTemp, DeleteExisting, ReplaceOnRestart, Cancel, disk, history
  <2>2. fs[f] # Absent
    BY <1>0, <2>1
  <2> QED
    BY <1>1, <1>2, <2>1, <2>2 DEF Had
<1>7. CASE UNCHANGED <<fs, temps, excused, tmp, left, pc, app, idx>>
  BY <1>1, <1>2, <1>7 DEF Had, Opt, Cur
<1>8. CASE UNCHANGED <<fs, temps, excused>> /\ pc \notin {"delete", "move", "share"}
  BY <1>1, <1>2, <1>8 DEF Had
<1> QED
  BY <1>3, <1>4, <1>5, <1>6, <1>7, <1>8, FileSteps

\* The same of temporary files.
LEMMA TempsInstalling ==
  ASSUME TypeInv, TypeInv', ListedOnce, CheckedWhen, CheckedOnce, NewTempsRecorded, LeftWhen,
         [Next]_vars, Installing, Installing', UNCHANGED <<start, app>>,
         NEW t \in temps', t \notin start.temps
  PROVE  \/ MayBeKept(t.file) \/ TempRecorded(t)' \/ t \in excused' \/ (left' /\ t = tmp')
         \/ pc' = "share" /\ Opt("shared")' /\ t = tmp'
<1> DEFINE Had == \/ MayBeKept(t.file) \/ TempRecorded(t) \/ t \in excused
                  \/ left /\ t = tmp
                  \/ pc = "share" /\ Opt("shared") /\ t = tmp
<1>0. /\ t \in Temp /\ tmp \in Temp \cup {NoTmp} /\ t # NoTmp /\ t \notin Files
      /\ left => pc \in {"delete", "move"}
      /\ tmp # NoTmp => tmp.file = Cur.file
  BY TransactionAssumption DEF TypeInv, DiskType, EntryType, LeftWhen, OwnTemps
<1>1. TempRecorded(t) => TempRecorded(t)'
  BY RecordsStay DEF TempRecorded
<1>2. t \in temps => Had
  <2>1. InSession
    BY DEF InSession
  <2> QED
    BY <2>1 DEF NewTempsRecorded
<1> HIDE DEF Had
<1>3. CASE ExtractToTemp
  <2>1. /\ pc = "temp" /\ UNCHANGED excused
        /\ \/ UNCHANGED temps
           \/ temps' = temps \cup {tmp'} /\ left'
    BY <1>3 DEF ExtractToTemp, history
  <2> QED
    BY <1>0, <1>1, <1>2, <2>1 DEF Had
<1>4. CASE DeleteExisting
  BY <1>0, <1>1, <1>2, <1>4 DEF DeleteExisting, entry, history, Had
<1>5. CASE MoveIntoPlace
  BY <1>0, <1>1, <1>2, <1>5 DEF MoveIntoPlace, history, Had
<1>6. CASE ReplaceOnRestart
  <2>1. /\ pc \in {"delete", "move"} /\ pc \in EntryPhases /\ pc' = "share"
        /\ UNCHANGED <<excused, idx, tmp, temps>> /\ list' = RecordInstalled(tmp)
    BY <1>6 DEF ReplaceOnRestart, EntryPhases, process, history, disk
  <2>2. CASE t # tmp
    BY <1>0, <1>1, <1>2, <2>1, <2>2 DEF Had
  <2>3. CASE t = tmp /\ Opt("shared")
    BY <2>1, <2>3 DEF Opt, Cur
  <2>4. CASE t = tmp /\ Opt("neveruninstall")
    <3>1. t.file = Cur.file
      BY <1>0, <2>4
    <3> QED
      BY <2>1, <2>4, <3>1, CurFlags DEF MayBeKept
  <2>5. CASE t = tmp /\ ~Opt("shared") /\ ~Opt("neveruninstall")
    <3>1. PICK f : f = Cur.file
      OBVIOUS
    <3> QED
      BY <1>0, <2>1, <2>5, <3>1, InstallRecords
  <2> QED
    BY <2>2, <2>3, <2>4, <2>5
<1>7. CASE ShareEntry
  <2>1. /\ pc = "share" /\ pc \in EntryPhases /\ UNCHANGED temps /\ Cur.file \in Files
        /\ excused' = IF tmp = NoTmp THEN excused \ {Cur.file} ELSE excused
    BY <1>7, CurType DEF ShareEntry, EntryPhases, disk
  <2>2. CASE t = tmp /\ Opt("shared") /\ Opt("neveruninstall")
    <3>1. t.file = Cur.file
      BY <1>0, <2>2
    <3> QED
      BY <2>1, <2>2, <3>1, CurFlags DEF MayBeKept
  <2>3. CASE t = tmp /\ Opt("shared") /\ ~Opt("neveruninstall")
    <3>1. PICK f : f = Cur.file
      OBVIOUS
    <3> QED
      BY <1>7, <2>3, <3>1, ShareRecords
  <2>4. CASE t # tmp \/ ~Opt("shared")
    BY <1>0, <1>1, <1>2, <2>1, <2>4 DEF Had
  <2> QED
    BY <2>2, <2>3, <2>4
<1>8. CASE EntryRaises
  <2>1. /\ temps' = IF left THEN temps \ {tmp} ELSE temps
        /\ excused' = IF pc = "share"
                      THEN excused \cup {IF tmp = NoTmp THEN Cur.file ELSE tmp} ELSE excused
    BY <1>8 DEF EntryRaises, DropLeftOver
  <2> QED
    BY <1>0, <1>1, <1>2, <2>1 DEF Had
<1>9. CASE Cancel
  BY <1>0, <1>1, <1>2, <1>9 DEF Cancel, history, Had
<1>10. CASE UNCHANGED <<fs, temps, excused, tmp, left, pc, app, idx>>
  BY <1>0, <1>1, <1>2, <1>10 DEF Had, Opt, Cur
<1>11. CASE UNCHANGED <<fs, temps, excused>> /\ pc \notin {"delete", "move", "share"}
  BY <1>0, <1>1, <1>2, <1>11 DEF Had
<1> QED
  BY <1>3, <1>4, <1>5, <1>6, <1>7, <1>8, <1>9, <1>10, <1>11, FileSteps

\* A rollback loses the record of a file only by undoing it, unless the file may stay.
LEMMA RecordsUndone ==
  ASSUME TypeInv, CountedOnce, RollingBack, NEW i \in DOMAIN list, list[i].typ = "file",
         Step2 \/ EndStep2 \/ UndoDir \/ UndoCount \/ UndoFile \/ UndoFileRaises \/ UndoFileInUse
  PROVE  \/ \E j \in DOMAIN list' : list'[j] = list[i]
         \/ {list[i].file, list[i].tmp} \subseteq excused'
         \/ start.count[list[i].file] > 0
         \/ UndoFile /\ list[i] = Newest
<1>0. /\ list \in Seq(UndoRec) /\ ~uninstaller /\ start.count \in [Files -> Nat] /\ InSession
      /\ list[i] \in UndoRec /\ list[i].file \in Files
  <2>1. list \in Seq(UndoRec) /\ ~uninstaller /\ start.count \in [Files -> Nat] /\ InSession
    BY DEF TypeInv, LogType, StartType, RollingBack, InSession
  <2>2. list[i] \in UndoRec
    BY <2>1
  <2> QED
    BY <2>1, <2>2, RecordKinds
<1>1. CASE list' = list
  BY <1>1
<1>2. CASE Step2 /\ list' # list
  <2>1. /\ idx \in 1..Len(list) /\ list' = RemoveAt(list, idx) /\ CountedInStep2(list[idx])
        /\ pc = "step2" /\ idx \in Nat
    BY <1>0, <1>2, RollbackLists DEF Step2, EndStep2, UndoDir, UndoCount, UndoFile, UndoFileRaises,
       UndoFileInUse, TakeNewest, TypeInv, ProcessType
  <2>2. CASE i # idx
    BY <1>0, <2>1, <2>2, RemovalPlaces
  <2>3. CASE i = idx
    <3>1. \/ excused' = excused \cup {list[idx].file, list[idx].tmp}
          \/ ~ReachesZero(list[idx].file)
      BY <1>0, <1>2, <2>1 DEF Step2, MayDecline, MayKeepForStep3
    <3>2. CASE ~ReachesZero(list[idx].file)
      <4>1. ~GivenBack(idx)
        BY <2>1 DEF GivenBack
      <4>2. start.count[list[idx].file] # 0
        BY <1>0, <2>1, <2>3, <3>2, <4>1 DEF CountedOnce, ReachesZero
      <4> QED
        BY <1>0, <2>3, <4>2
    <3> QED
      BY <2>3, <3>1, <3>2
  <2> QED
    BY <2>2, <2>3
<1>3. CASE /\ list # <<>> /\ list' = Front(list)
           /\ UndoDir \/ UndoCount \/ UndoFile \/ UndoFileRaises \/ UndoFileInUse
  <2>1. CASE i # Len(list)
    BY <1>0, <1>3, <2>1, FrontPlaces
  <2>2. CASE i = Len(list)
    <3>1. list[i] = Newest
      BY <2>2 DEF Newest
    <3> QED
      BY <1>0, <1>3, <3>1 DEF UndoDir, UndoCount, UndoFileRaises, UndoFileInUse, TakeNewest
  <2> QED
    BY <2>1, <2>2
<1> QED
  BY <1>1, <1>2, <1>3, RollbackLists

\* In a rollback nothing is put in place, and what is excused stays so.
LEMMA RollbackTakes ==
  ASSUME TypeInv, RollingBack,
         Step2 \/ EndStep2 \/ UndoDir \/ UndoCount \/ UndoFile \/ UndoFileRaises \/ UndoFileInUse
  PROVE  /\ \A f \in Files : fs'[f] # Absent => fs[f] # Absent
         /\ temps' \subseteq temps /\ excused \subseteq excused'
         /\ pc \in UndoPhases /\ pc' \in UndoPhases
<1>0. fs \in [Files -> Content] /\ ~uninstaller /\ pc \in UndoPhases
  BY DEF TypeInv, DiskType, RollingBack
<1>1. fs' = fs \/ \E g : fs' = [fs EXCEPT ![g] = Absent]
  BY DEF Step2, EndStep2, UndoDir, UndoCount, UndoFile, UndoFileRaises, UndoFileInUse, disk
<1>2. temps' \subseteq temps
  BY DEF Step2, EndStep2, UndoDir, UndoCount, UndoFile, UndoFileRaises, UndoFileInUse, disk
<1>3. excused \subseteq excused'
  BY <1>0 DEF Step2, EndStep2, UndoDir, UndoCount, UndoFile, UndoFileRaises, UndoFileInUse, history
<1>4. pc' \in UndoPhases
  BY DEF Step2, EndStep2, UndoDir, UndoCount, UndoFile, UndoFileRaises, UndoFileInUse, TakeNewest,
     UndoPhases
<1> QED
  BY <1>0, <1>1, <1>2, <1>3, <1>4

\* A rollback deletes new files as it comes to their records.
LEMMA FilesUndone ==
  ASSUME TypeInv, CountedOnce, NewFilesRecorded, RollingBack,
         Step2 \/ EndStep2 \/ UndoDir \/ UndoCount \/ UndoFile \/ UndoFileRaises \/ UndoFileInUse,
         NEW f \in Files, start.fs[f] = Absent, fs'[f] # Absent
  PROVE  MayBeKept(f) \/ FileRecorded(f)' \/ f \in excused'
<1>0. fs[f] # Absent /\ excused \subseteq excused' /\ pc \in UndoPhases /\ ~uninstaller
      /\ fs \in [Files -> Content]
  BY RollbackTakes DEF RollingBack, TypeInv, DiskType
<1>1. MayBeKept(f) \/ FileRecorded(f) \/ f \in excused
  BY <1>0 DEF NewFilesRecorded, InSession, UndoPhases
<1>2. CASE FileRecorded(f)
  <2>1. PICK i \in DOMAIN list : /\ list[i].typ = "file" /\ list[i].file = f
                                 /\ list[i].tmp = NoTmp /\ ~list[i].existed
    BY <1>2 DEF FileRecorded
  <2>2. CASE UndoFile /\ list[i] = Newest
    <3>1. fs' = [fs EXCEPT ![f] = Absent]
      BY <2>1, <2>2 DEF UndoFile, DestGoes
    <3> QED
      BY <1>0, <3>1
  <2>3. CASE \E j \in DOMAIN list' : list'[j] = list[i]
    BY <2>1, <2>3 DEF FileRecorded
  <2>4. CASE start.count[f] > 0
    BY <2>4 DEF MayBeKept
  <2> QED
    BY <2>1, <2>2, <2>3, <2>4, RecordsUndone
<1> QED
  BY <1>0, <1>1, <1>2

\* And temporary files.
LEMMA TempsUndone ==
  ASSUME TypeInv, CountedOnce, NewTempsRecorded, LeftWhen, RollingBack,
         Step2 \/ EndStep2 \/ UndoDir \/ UndoCount \/ UndoFile \/ UndoFileRaises \/ UndoFileInUse,
         NEW t \in temps', t \notin start.temps
  PROVE  MayBeKept(t.file) \/ TempRecorded(t)' \/ t \in excused'
<1>0. t \in temps /\ excused \subseteq excused' /\ pc \in UndoPhases /\ ~uninstaller /\ t # NoTmp
  BY RollbackTakes, TransactionAssumption DEF RollingBack, TypeInv, DiskType
<1>1. MayBeKept(t.file) \/ TempRecorded(t) \/ t \in excused
  BY <1>0 DEF NewTempsRecorded, InSession, UndoPhases, LeftWhen
<1>2. CASE TempRecorded(t)
  <2>1. PICK i \in DOMAIN list : list[i].typ = "file" /\ list[i].tmp = t
    BY <1>2 DEF TempRecorded
  <2>2. CASE UndoFile /\ list[i] = Newest
    <3>1. temps' = temps \ {t}
      BY <1>0, <2>1, <2>2 DEF UndoFile, TempGoes
    <3> QED
      BY <3>1
  <2>3. CASE \E j \in DOMAIN list' : list'[j] = list[i]
    BY <2>1, <2>3 DEF TempRecorded
  <2>4. CASE start.count[list[i].file] > 0
    <3>1. OwnTemp(list[i])
      BY DEF TypeInv, OwnTemps
    <3>2. t.file = list[i].file
      BY <1>0, <2>1, <3>1 DEF OwnTemp
    <3> QED
      BY <2>4, <3>2 DEF MayBeKept
  <2> QED
    BY <2>1, <2>2, <2>3, <2>4, RecordsUndone
<1> QED
  BY <1>0, <1>1, <1>2

\* What may be kept does not change in a session.
LEMMA MayBeKeptFrame ==
  ASSUME UNCHANGED <<start, app>>
  PROVE  \A f : (MayBeKept(f)' <=> MayBeKept(f))
                /\ (Flagged(app, f, "shared")' <=> Flagged(app, f, "shared"))
BY DEF MayBeKept, Flagged, EntryOf

\* Every step keeps new files recorded.
LEMMA NewFilesRecordedStep ==
  ASSUME TypeInv, TypeInv', ListedOnce, CheckedWhen, CheckedOnce, CountedOnce, NewFilesRecorded,
         [Next]_vars
  PROVE  NewFilesRecorded'
<1> SUFFICES ASSUME InSession', NEW f \in Files, start'.fs[f] = Absent, fs'[f] # Absent
             PROVE  \/ MayBeKept(f)' \/ FileRecorded(f)'
                    \/ f \in excused' /\ (Installing' => Flagged(app, f, "shared")')
                    \/ pc' = "share" /\ Opt("shared")' /\ f = Cur'.file /\ tmp' = NoTmp
  BY DEF NewFilesRecorded
<1>1. CASE \E a \in Apps : StartInstall(a)
  BY <1>1 DEF StartInstall, Snapshot, disk
<1>2. CASE /\ InSession /\ UNCHANGED <<start, app, uninstaller>>
           /\ Installing' => Installing
  <2>1. CASE Installing'
    BY <1>2, <2>1, FilesInstalling, MayBeKeptFrame
  <2>2. CASE Rollback
    <3>1. Installing /\ pc # "share" /\ UNCHANGED <<list, fs, excused>> /\ ~Installing'
      BY <2>2 DEF Rollback, Installing, disk, history, InstallPhases, EntryPhases
    <3>2. FileRecorded(f)' <=> FileRecorded(f)
      BY <3>1 DEF FileRecorded
    <3>3. MayBeKept(f) \/ FileRecorded(f) \/ f \in excused
      BY <1>2, <3>1 DEF NewFilesRecorded
    <3> QED
      BY <1>2, <3>1, <3>2, <3>3, MayBeKeptFrame
  <2>3. CASE RollingBack' /\ UNCHANGED vars
    <3>1. /\ UNCHANGED <<list, fs, excused>> /\ ~Installing' /\ pc # "share"
      BY <2>3 DEF vars, disk, history, Installing, InstallPhases, EntryPhases, RollingBack,
         UndoPhases
    <3>2. FileRecorded(f)' <=> FileRecorded(f)
      BY <3>1 DEF FileRecorded
    <3>3. MayBeKept(f) \/ FileRecorded(f) \/ f \in excused
      BY <1>2, <3>1 DEF NewFilesRecorded
    <3> QED
      BY <1>2, <3>1, <3>2, <3>3, MayBeKeptFrame
  <2>4. CASE /\ RollingBack /\ RollingBack'
             /\ \/ Step2 \/ EndStep2 \/ UndoDir \/ UndoCount \/ UndoFile \/ UndoFileRaises
                \/ UndoFileInUse
    <3>1. ~Installing'
      BY <2>4 DEF Installing, InstallPhases, EntryPhases, RollingBack, UndoPhases
    <3> QED
      BY <1>2, <2>4, <3>1, FilesUndone, MayBeKeptFrame
  <2> QED
    BY <1>2, <2>1, <2>2, <2>3, <2>4, RollbackSteps DEF InSession
<1> QED
  BY <1>1, <1>2, SessionSteps

\* Every step keeps new temporary files recorded.
LEMMA NewTempsRecordedStep ==
  ASSUME TypeInv, TypeInv', ListedOnce, CheckedWhen, CheckedOnce, CountedOnce, NewTempsRecorded,
         LeftWhen, [Next]_vars
  PROVE  NewTempsRecorded'
<1> SUFFICES ASSUME InSession', NEW t \in temps', t \notin start'.temps
             PROVE  \/ MayBeKept(t.file)' \/ TempRecorded(t)' \/ t \in excused'
                    \/ left' /\ t = tmp'
                    \/ pc' = "share" /\ Opt("shared")' /\ t = tmp'
  BY DEF NewTempsRecorded
<1>1. CASE \E a \in Apps : StartInstall(a)
  BY <1>1 DEF StartInstall, Snapshot, disk
<1>2. CASE /\ InSession /\ UNCHANGED <<start, app, uninstaller>>
           /\ Installing' => Installing
  <2>1. CASE Installing'
    BY <1>2, <2>1, TempsInstalling, MayBeKeptFrame
  <2>2. CASE Rollback \/ (RollingBack' /\ UNCHANGED vars)
    <3>1. UNCHANGED <<list, temps, excused>> /\ pc \notin {"share", "delete", "move"}
      BY <2>2 DEF Rollback, vars, disk, history, RollingBack, UndoPhases
    <3>2. TempRecorded(t)' <=> TempRecorded(t)
      BY <3>1 DEF TempRecorded
    <3>3. MayBeKept(t.file) \/ TempRecorded(t) \/ t \in excused
      BY <1>2, <3>1 DEF NewTempsRecorded, LeftWhen
    <3> QED
      BY <1>2, <3>1, <3>2, <3>3, MayBeKeptFrame
  <2>3. CASE /\ RollingBack /\ RollingBack'
             /\ \/ Step2 \/ EndStep2 \/ UndoDir \/ UndoCount \/ UndoFile \/ UndoFileRaises
                \/ UndoFileInUse
    BY <1>2, <2>3, TempsUndone, MayBeKeptFrame
  <2> QED
    BY <1>2, <2>1, <2>2, <2>3, RollbackSteps DEF InSession
<1> QED
  BY <1>1, <1>2, SessionSteps

\* The reserved log is all that a session changes in the logs before it saves its own.
LEMMA DatKeptStep ==
  ASSUME TypeInv, DatKept, StartHadNoLog, [Next]_vars
  PROVE  DatKept' /\ StartHadNoLog'
<1>0. /\ dat \in [Apps -> {NoLog, Reserved} \cup Seq(UndoRec)] /\ NoLog # Reserved
      /\ start.dat \in [Apps -> {NoLog, Reserved} \cup Seq(UndoRec)] /\ app \in Apps
      /\ Installing => (created => dat[app] = Reserved)
  BY TransactionAssumption DEF TypeInv, LogType, StartType, ProcessType, Control, Installing
<1>1. CASE ~InSession'
  BY <1>1 DEF DatKept, StartHadNoLog, InSession
<1>2. CASE InSession' /\ \E a \in Apps : StartInstall(a)
  BY <1>2 DEF StartInstall, Snapshot, DatKept, StartHadNoLog
<1>3. CASE /\ InSession /\ InSession' /\ UNCHANGED <<start, app, uninstaller>>
           /\ Installing' => Installing
  <2>1. CASE GenerateUninstallInfoFilename
    <3>1. Installing
      BY <2>1 DEF GenerateUninstallInfoFilename, Installing, InstallPhases
    <3>2. CASE dat[app] = NoLog
      <4>1. ~created /\ dat = start.dat
        BY <1>0, <1>3, <3>1, <3>2 DEF DatKept
      <4>2. dat' = [dat EXCEPT ![app] = Reserved] /\ created'
        BY <2>1, <3>2 DEF GenerateUninstallInfoFilename
      <4>3. Installing'
        BY <2>1 DEF GenerateUninstallInfoFilename, Installing, InstallPhases, EntryPhases
      <4> QED
        BY <1>3, <3>2, <4>1, <4>2, <4>3 DEF DatKept, StartHadNoLog
    <3>3. CASE dat[app] # NoLog
      <4>1. UNCHANGED <<dat, created>>
        BY <2>1, <3>3 DEF GenerateUninstallInfoFilename
      <4>2. Installing'
        BY <2>1 DEF GenerateUninstallInfoFilename, Installing, InstallPhases, EntryPhases
      <4> QED
        BY <1>3, <3>1, <4>1, <4>2 DEF DatKept, StartHadNoLog
    <3> QED
      BY <3>2, <3>3
  <2>2. CASE Rollback
    <3>1. Installing /\ ~Installing'
      BY <2>2 DEF Rollback, Installing, InstallPhases, EntryPhases
    <3>2. dat' = start.dat
      <4>1. CASE created
        <5>1. dat = [start.dat EXCEPT ![app] = Reserved] /\ start.dat[app] = NoLog
          BY <1>3, <3>1, <4>1 DEF DatKept, StartHadNoLog
        <5>2. dat' = [dat EXCEPT ![app] = NoLog]
          BY <2>2, <4>1 DEF Rollback
        <5> QED
          BY <1>0, <5>1, <5>2
      <4>2. CASE ~created
        BY <1>3, <2>2, <4>2 DEF Rollback, DatKept
      <4> QED
        BY <4>1, <4>2
    <3> QED
      BY <1>3, <3>1, <3>2 DEF DatKept, StartHadNoLog
  <2>3. CASE Installing' /\ ~GenerateUninstallInfoFilename
    <3>1. UNCHANGED <<dat, created>>
      <4>1. CASE \/ UNCHANGED vars \/ CreateDirs \/ BeginEntry \/ ExtractToTemp \/ DeleteExisting
                 \/ MoveIntoPlace \/ ReplaceOnRestart \/ ShareEntry \/ FinishEntry \/ EntryRaises
                 \/ AskRetry \/ AskIgnore \/ Cancel
        BY <4>1 DEF vars, process, CreateDirs, BeginEntry, ExtractToTemp, DeleteExisting,
           MoveIntoPlace, ReplaceOnRestart, ShareEntry, FinishEntry, EntryRaises, AskRetry,
           AskIgnore, Cancel
      <4>2. CASE (\E a \in Apps : StartInstall(a) \/ StartUninstall(a)) \/ SaveLog \/ Rollback
                 \/ Step2 \/ EndStep2 \/ UndoDir \/ UndoCount \/ UndoFile \/ UndoFileRaises
                 \/ UndoFileInUse
        BY <1>3, <2>3, <4>2 DEF StartInstall, StartUninstall, SaveLog, Rollback, EndProcess, Step2,
           EndStep2, UndoDir, UndoCount, UndoFile, UndoFileRaises, UndoFileInUse, TakeNewest,
           Installing, InstallPhases, EntryPhases
      <4>3. CASE EndRollback \/ DeleteUninstallDataFiles \/ ProcessDirsNotRemoved \/ EndUninstall
                 \/ Restart \/ Crash
        BY <2>3, <4>3 DEF EndRollback, DeleteUninstallDataFiles, ProcessDirsNotRemoved, EndUninstall,
           Restart, Crash, EndProcess, Installing, InstallPhases, EntryPhases
      <4> QED
        BY <2>3, <4>1, <4>2, <4>3 DEF Next
    <3> QED
      BY <1>3, <2>3, <3>1 DEF DatKept, StartHadNoLog
  <2>4. CASE /\ RollingBack /\ RollingBack'
             /\ \/ UNCHANGED vars \/ Step2 \/ EndStep2 \/ UndoDir \/ UndoCount \/ UndoFile
                \/ UndoFileRaises \/ UndoFileInUse
    <3>1. UNCHANGED dat
      BY <2>4 DEF vars, Step2, EndStep2, UndoDir, UndoCount, UndoFile, UndoFileRaises,
         UndoFileInUse, TakeNewest
    <3>2. ~Installing /\ ~Installing'
      BY <2>4 DEF RollingBack, UndoPhases, Installing, InstallPhases, EntryPhases
    <3> QED
      BY <1>3, <3>1, <3>2 DEF DatKept, StartHadNoLog
  <2> QED
    BY <1>3, <2>1, <2>2, <2>3, <2>4, RollbackSteps DEF InSession
<1> QED
  BY <1>1, <1>2, <1>3, SessionSteps

\* Every step keeps what LeavesInv says of what a session brought.
LEMMA LeavesStep ==
  ASSUME TypeInv, TypeInv', SparesInv, LeavesInv, ListedOnce, NoSharedAssembly, [Next]_vars
  PROVE  LeavesInv'
<1> USE DEF LeavesInv, SparesInv
<1>1. Sheltered'
  BY ShelteredStep
<1>2. NewDirsRecorded' /\ DirsFirst' /\ NewDirsEmptied'
  BY NewDirsRecordedStep, DirsFirstStep, NewDirsEmptiedStep
<1>3. CountsAhead' /\ HeldOnce' /\ CountedOnce'
  BY CountsAheadStep, HeldOnceStep, CountedOnceStep
<1>4. NewFilesRecorded' /\ NewTempsRecorded' /\ LeftWhen'
  BY NewFilesRecordedStep, NewTempsRecordedStep, LeftWhenStep
<1>5. DatKept' /\ StartHadNoLog'
  BY DatKeptStep
<1> QED
  BY <1>1, <1>2, <1>3, <1>4, <1>5

\* LeavesInv holds initially.
LEMMA LeavesInit ==
  ASSUME Init
  PROVE  LeavesInv
<1>1. /\ pc = "idle" /\ temps = {} /\ ~left
      /\ \A f \in Files : fs[f] # Absent => DirOf[f] \in dirs
  BY DEF Init
<1>2. ~Installing /\ ~InSession /\ ~RollingBack /\ \A i : ~Uncounted(i)
  BY <1>1 DEF Installing, InSession, RollingBack, Uncounted, InstallPhases, EntryPhases, UndoPhases
<1> QED
  BY <1>1, <1>2 DEF LeavesInv, Sheltered, NewDirsRecorded, DirsFirst, NewDirsEmptied, CountsAhead,
     HeldOnce, CountedOnce, NewFilesRecorded, NewTempsRecorded, LeftWhen, DatKept, StartHadNoLog

\* While a session runs, everything new on the machine is in its list, or will be when the step
\* in hand is done; and the counts it raised are those of its records.
THEOREM LeavesKept ==
  ListedOnce /\ NoSharedAssembly => (Spec => []LeavesInv)
<1>1. ASSUME ListedOnce, NoSharedAssembly PROVE Spec => []LeavesInv
  <2>1. TypeInv /\ TypeInv' /\ SparesInv /\ LeavesInv /\ [Next]_vars => LeavesInv'
    BY <1>1, LeavesStep
  <2> QED
    BY <1>1, <2>1, LeavesInit, TypesKept, SessionsSpare, PTL DEF Spec
<1> QED
  BY <1>1

\* A rollback removes everything its session brought: files, temporary files, directories and
\* the reserved log, except what is never uninstalled, could not be undone, or had a count.
THEOREM RollbacksLeaveNothing ==
  ListedOnce /\ NoSharedAssembly => (Spec => []RollbackLeavesNothing)
<1>1. LeavesInv => RollbackLeavesNothing
  <2> SUFFICES ASSUME LeavesInv, pc = "step3", list = <<>>, ~uninstaller
               PROVE  /\ \A f \in Files : start.fs[f] = Absent /\ fs[f] # Absent => MayStay(f, f)
                      /\ \A t \in temps \ start.temps : MayStay(t.file, t)
                      /\ \A d \in dirs \ start.dirs : NeverUninstalled(d) \/ ~IsEmptyDir(d)
                      /\ dat = start.dat
    BY DEF RollbackLeavesNothing
  <2>1. RollingBack /\ InSession /\ ~Installing
    BY DEF RollingBack, InSession, Installing, UndoPhases, InstallPhases, EntryPhases
  <2>2. DOMAIN list = {}
    BY EmptySeq
  <2>3. \A f \in Files : start.fs[f] = Absent /\ fs[f] # Absent => MayStay(f, f)
    BY <2>1, <2>2 DEF LeavesInv, NewFilesRecorded, FileRecorded, MayBeKept, MayStay
  <2>4. \A t \in temps \ start.temps : MayStay(t.file, t)
    BY <2>1, <2>2 DEF LeavesInv, NewTempsRecorded, TempRecorded, LeftWhen, MayBeKept, MayStay
  <2>5. \A d \in dirs \ start.dirs : NeverUninstalled(d) \/ ~IsEmptyDir(d)
    BY <2>1, <2>2 DEF LeavesInv, NewDirsEmptied, Recorded, NewDir
  <2>6. dat = start.dat
    BY <2>1 DEF LeavesInv, DatKept
  <2> QED
    BY <2>3, <2>4, <2>5, <2>6
<1>2. ASSUME ListedOnce, NoSharedAssembly PROVE Spec => []RollbackLeavesNothing
  BY <1>1, <1>2, LeavesKept, PTL
<1> QED
  BY <1>2

================================================================================
