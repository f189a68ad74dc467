---------------------------- MODULE LedgerProofs ----------------------------
(***************************************************************************)
(* A balance is a sum of entries, so what is proved about the ledger rests *)
(* on what sums are: the first part says it of the folds of the module     *)
(* Functions, for any finite set.  Then no franc is made or lost by moving *)
(* from pocket to pocket, and what an organisation was paid, has set apart *)
(* and can withdraw never exceeds what was earned on sales already due.    *)
(***************************************************************************)
EXTENDS Ledger, FiniteSetTheorems, WellFoundedInduction, TLAPS

(* Sums over finite sets *)

\* Induction over the subsets of a finite set: each follows from one that lacks
\* some element of it.
LEMMA SubsetInduction ==
  ASSUME NEW S, IsFiniteSet(S), NEW G, {} \in G,
         \A T \in SUBSET S : T # {} => \E x \in T : T \ {x} \in G => T \in G
  PROVE  SUBSET S \subseteq G
<1> DEFINE Bad == (SUBSET S) \ G
<1> SUFFICES ASSUME Bad # {} PROVE FALSE
  OBVIOUS
<1>1. IsWellFoundedOn(StrictSubsetOrdering(S), SUBSET S)
  <2>1. FiniteSubsetsOf(S) = SUBSET S
    BY FS_FiniteSubsetsOfFinite
  <2>2. IsWellFoundedOn(StrictSubsetOrdering(S), FiniteSubsetsOf(S))
    BY FS_StrictSubsetOrderingWellFounded
  <2> QED
    BY <2>1, <2>2
<1>2. PICK T \in Bad : \A U \in Bad : ~(<<U, T>> \in StrictSubsetOrdering(S))
  <2> HIDE DEF Bad
  <2>1. Bad \subseteq SUBSET S
    BY DEF Bad
  <2> QED
    BY <1>1, <2>1, WFMin
<1>3. PICK x \in T : T \ {x} \in G => T \in G
  OBVIOUS
<1>4. <<T \ {x}, T>> \in StrictSubsetOrdering(S)
  BY <1>3 DEF StrictSubsetOrdering
<1> QED
  BY <1>2, <1>3, <1>4

\* The units of what f gives to the elements of T.
Units(f, T) == {u \in T \X Nat : 1 <= u[2] /\ u[2] <= f[u[1]]}

LEMMA UnitsAdd ==
  ASSUME NEW f, NEW T, NEW x, x \notin T, NEW a \in Int, f[x] = a,
         IsFiniteSet(Units(f, T))
  PROVE  /\ IsFiniteSet(Units(f, T \cup {x}))
         /\ Cardinality(Units(f, T \cup {x})) =
              Cardinality(Units(f, T)) + (IF a > 0 THEN a ELSE 0)
<1> DEFINE New == {x} \X (1..a)
           gain == IF a > 0 THEN a ELSE 0
<1>0. gain \in Nat
  OBVIOUS
<1>1. IsFiniteSet(1..a) /\ Cardinality(1..a) = gain
  BY FS_Interval
<1>2. IsFiniteSet({x}) /\ Cardinality({x}) = 1
  BY FS_Singleton
<1>3. IsFiniteSet(New) /\ Cardinality(New) = gain
  <2>1. IsFiniteSet(New) /\ Cardinality(New) = 1 * Cardinality(1..a)
    BY <1>1, <1>2, FS_Product
  <2> QED
    BY <1>1, <2>1
<1>4. Units(f, T \cup {x}) = Units(f, T) \cup New
  BY DEF Units
<1>5. Units(f, T) \cap New = {}
  BY DEF Units
<1>6. Cardinality(Units(f, T)) \in Nat
  BY FS_CardinalityType
<1> HIDE DEF New
<1>7. /\ IsFiniteSet(Units(f, T) \cup New)
      /\ Cardinality(Units(f, T) \cup New) =
           Cardinality(Units(f, T)) + Cardinality(New) - Cardinality(Units(f, T) \cap New)
  BY <1>3, FS_Union
<1>8. Cardinality(Units(f, T) \cap New) = 0
  BY <1>5, FS_EmptySet
<1>9. Cardinality(Units(f, T \cup {x})) = Cardinality(Units(f, T)) + gain
  <2> HIDE DEF gain
  <2>1. Cardinality(Units(f, T \cup {x})) = Cardinality(Units(f, T)) + gain - 0
    BY <1>3, <1>4, <1>7, <1>8, Zenon
  <2> QED
    BY <1>0, <1>6, <2>1
<1> QED
  BY <1>4, <1>7, <1>9

\* Those of a finite set are finite.
LEMMA UnitsFinite ==
  ASSUME NEW S, IsFiniteSet(S), NEW f, \A x \in S : f[x] \in Int
  PROVE  \A T \in SUBSET S : IsFiniteSet(Units(f, T))
<1> DEFINE G == {T \in SUBSET S : IsFiniteSet(Units(f, T))}
<1>1. {} \in G
  BY FS_EmptySet DEF Units
<1>2. ASSUME NEW T \in SUBSET S, NEW x \in T, T \ {x} \in G PROVE T \in G
  <2>1. x \notin T \ {x} /\ T = (T \ {x}) \cup {x} /\ f[x] \in Int
    OBVIOUS
  <2> QED
    BY <1>2, <2>1, UnitsAdd
<1>3. \A T \in SUBSET S : T # {} => \E x \in T : T \ {x} \in G => T \in G
  BY <1>2
<1> HIDE DEF G
<1>4. SUBSET S \subseteq G
  BY <1>1, <1>3, SubsetInduction
<1> QED
  BY <1>4 DEF G

\* What the units of f add up to, those of -f taken away.
Signed(f, T) == Cardinality(Units(f, T)) - Cardinality(Units([x \in T |-> -f[x]], T))

Folded(g, f, S) ==
  g = [s \in SUBSET S |->
         IF s = {} THEN 0
         ELSE f[CHOOSE y \in s : TRUE] + g[s \ {CHOOSE y \in s : TRUE}]]

LEMMA SignedAdd ==
  ASSUME NEW S, IsFiniteSet(S), NEW f, \A x \in S : f[x] \in Int
  PROVE  /\ Signed(f, {}) = 0
         /\ \A T \in SUBSET S : Signed(f, T) \in Int
         /\ \A T \in SUBSET S : \A x \in T : Signed(f, T) = f[x] + Signed(f, T \ {x})
<1> DEFINE Minus(T) == [x \in T |-> -f[x]]
<1>1. \A T \in SUBSET S : IsFiniteSet(Units(f, T)) /\ Cardinality(Units(f, T)) \in Nat
  BY UnitsFinite, FS_CardinalityType
<1>2. \A T \in SUBSET S : Units(Minus(T), T) = Units(Minus(S), T)
  BY DEF Units
<1>3. \A T \in SUBSET S : IsFiniteSet(Units(Minus(S), T)) /\ Cardinality(Units(Minus(S), T)) \in Nat
  BY UnitsFinite, FS_CardinalityType
<1>4. Signed(f, {}) = 0
  <2>1. Units(f, {}) = {} /\ Units([x \in {} |-> -f[x]], {}) = {}
    BY DEF Units
  <2>2. Signed(f, {}) = Cardinality({}) - Cardinality({})
    BY <2>1 DEF Signed
  <2> QED
    BY <2>2, FS_EmptySet
<1>5. ASSUME NEW T \in SUBSET S, NEW x \in T
      PROVE  Signed(f, T) = f[x] + Signed(f, T \ {x})
  <2>0. PICK a \in Int : f[x] = a
    OBVIOUS
  <2> DEFINE U == T \ {x}
  <2>1. U \in SUBSET S /\ x \notin U /\ T = U \cup {x} /\ x \in S
    OBVIOUS
  <2> HIDE DEF U
  <2>2. Cardinality(Units(f, T)) = Cardinality(Units(f, U)) + (IF a > 0 THEN a ELSE 0)
    BY <1>1, <2>0, <2>1, UnitsAdd
  <2>3. Cardinality(Units(Minus(S), T))
          = Cardinality(Units(Minus(S), U)) + (IF -a > 0 THEN -a ELSE 0)
    <3>1. Minus(S)[x] = -a /\ -a \in Int /\ IsFiniteSet(Units(Minus(S), U))
      BY <1>3, <2>0, <2>1
    <3> HIDE DEF Minus
    <3> QED
      BY <2>1, <3>1, UnitsAdd
  <2>4. /\ Signed(f, U) = Cardinality(Units(f, U)) - Cardinality(Units(Minus(S), U))
        /\ Signed(f, T) = Cardinality(Units(f, T)) - Cardinality(Units(Minus(S), T))
    BY <1>2, <2>1 DEF Signed
  <2>5. Cardinality(Units(f, U)) \in Nat /\ Cardinality(Units(Minus(S), U)) \in Nat
    BY <1>1, <1>3, <2>1
  <2> QED
    BY <2>0, <2>2, <2>3, <2>4, <2>5 DEF U
<1>6. \A T \in SUBSET S : Signed(f, T) \in Int
  <2> TAKE T \in SUBSET S
  <2>1. Signed(f, T) = Cardinality(Units(f, T)) - Cardinality(Units(Minus(S), T))
    BY <1>2 DEF Signed
  <2> QED
    BY <1>1, <1>3, <2>1
<1> QED
  BY <1>4, <1>5, <1>6

LEMMA SumIsSigned ==
  ASSUME NEW S, IsFiniteSet(S), NEW f, \A x \in S : f[x] \in Int
  PROVE  SumFunctionOnSet(f, S) = Signed(f, S)
<1> DEFINE h == [s \in SUBSET S |-> Signed(f, s)]
<1>1. Folded(h, f, S)
  <2> SUFFICES ASSUME NEW s \in SUBSET S, s # {}
               PROVE  Signed(f, s) = f[CHOOSE y \in s : TRUE] + Signed(f, s \ {CHOOSE y \in s : TRUE})
    BY SignedAdd DEF Folded
  <2>1. (CHOOSE y \in s : TRUE) \in s
    OBVIOUS
  <2> DEFINE x == CHOOSE y \in s : TRUE
  <2> HIDE DEF x
  <2>2. x \in s
    BY <2>1 DEF x
  <2>3. Signed(f, s) = f[x] + Signed(f, s \ {x})
    BY <2>2, SignedAdd
  <2> QED
    BY <2>3 DEF x
<1> HIDE DEF h
<1>2. PICK g : Folded(g, f, S) /\ SumFunctionOnSet(f, S) = g[S]
  BY <1>1 DEF SumFunctionOnSet, FoldFunctionOnSet, MapThenFoldSet, Folded
<1> DEFINE G == {T \in SUBSET S : g[T] = Signed(f, T)}
<1>3. \A s \in SUBSET S : g[s] = IF s = {} THEN 0
         ELSE f[CHOOSE y \in s : TRUE] + g[s \ {CHOOSE y \in s : TRUE}]
  BY <1>2 DEF Folded
<1>4. {} \in G
  BY <1>3, SignedAdd
<1>5. ASSUME NEW T \in SUBSET S, T # {} PROVE \E x \in T : T \ {x} \in G => T \in G
  <2> DEFINE x == CHOOSE y \in T : TRUE
  <2>1. x \in T
    BY <1>5
  <2>2. g[T] = f[x] + g[T \ {x}]
    BY <1>3, <1>5
  <2> HIDE DEF x
  <2>3. Signed(f, T) = f[x] + Signed(f, T \ {x}) /\ T \ {x} \in SUBSET S
    BY <2>1, SignedAdd
  <2>4. T \ {x} \in G => T \in G
    BY <2>2, <2>3
  <2> QED
    BY <2>1, <2>4
<1> HIDE DEF G
<1>6. SUBSET S \subseteq G
  BY <1>4, <1>5, SubsetInduction
<1> QED
  BY <1>2, <1>6 DEF G

\* What a sum over a finite set is, one element at a time.
LEMMA SumIs ==
  ASSUME NEW S, IsFiniteSet(S), NEW f, \A x \in S : f[x] \in Int
  PROVE  /\ SumFunctionOnSet(f, {}) = 0
         /\ \A T \in SUBSET S : SumFunctionOnSet(f, T) \in Int
         /\ \A T \in SUBSET S : \A x \in T :
              SumFunctionOnSet(f, T) = f[x] + SumFunctionOnSet(f, T \ {x})
<1>1. \A T \in SUBSET S : SumFunctionOnSet(f, T) = Signed(f, T)
  BY FS_Subset, SumIsSigned
<1>2. /\ Signed(f, {}) = 0
      /\ \A T \in SUBSET S : Signed(f, T) \in Int
      /\ \A T \in SUBSET S : \A x \in T : Signed(f, T) = f[x] + Signed(f, T \ {x})
  BY SignedAdd
<1>3. \A T \in SUBSET S : \A x \in T : T \ {x} \in SUBSET S
  OBVIOUS
<1> QED
  BY <1>1, <1>2, <1>3

\* Less everywhere is less in sum, over more elements as well.
LEMMA SumLe ==
  ASSUME NEW S, IsFiniteSet(S), NEW f, NEW g, NEW T \in SUBSET S,
         \A x \in S : f[x] \in Int /\ g[x] \in Int,
         \A x \in T : f[x] <= g[x],
         \A x \in S \ T : 0 <= g[x]
  PROVE  SumFunctionOnSet(f, T) <= SumFunctionOnSet(g, S)
<1> DEFINE G == {U \in SUBSET S :
                   SumFunctionOnSet(f, T \cap U) <= SumFunctionOnSet(g, U)}
<1>1. {} \in G
  <2>1. T \cap {} = {}
    OBVIOUS
  <2>2. SumFunctionOnSet(f, {}) = 0 /\ SumFunctionOnSet(g, {}) = 0
    BY SumIs
  <2> QED
    BY <2>1, <2>2
<1>2. ASSUME NEW U \in SUBSET S, NEW x \in U, U \ {x} \in G PROVE U \in G
  <2>1. PICK a \in Int, b \in Int : a = f[x] /\ b = g[x]
    OBVIOUS
  <2>2. SumFunctionOnSet(g, U) = b + SumFunctionOnSet(g, U \ {x})
    BY <2>1, SumIs
  <2>3. PICK p \in Int, q \in Int : /\ p = SumFunctionOnSet(f, T \cap (U \ {x}))
                                    /\ q = SumFunctionOnSet(g, U \ {x}) /\ p <= q
    <3>1. T \cap (U \ {x}) \in SUBSET S /\ U \ {x} \in SUBSET S
      OBVIOUS
    <3>2. SumFunctionOnSet(f, T \cap (U \ {x})) \in Int /\ SumFunctionOnSet(g, U \ {x}) \in Int
      BY <3>1, SumIs
    <3> QED
      BY <1>2, <3>2
  <2>4. CASE x \in T
    <3>1. T \cap U \in SUBSET S /\ x \in T \cap U /\ (T \cap U) \ {x} = T \cap (U \ {x})
      BY <2>4
    <3>2. SumFunctionOnSet(f, T \cap U) = a + SumFunctionOnSet(f, T \cap (U \ {x}))
      BY <2>1, <3>1, SumIs
    <3>3. a <= b
      BY <2>1, <2>4
    <3> QED
      BY <2>2, <2>3, <3>2, <3>3
  <2>5. CASE x \notin T
    <3>1. T \cap U = T \cap (U \ {x}) /\ 0 <= b
      BY <2>1, <2>5
    <3> QED
      BY <2>2, <2>3, <3>1
  <2> QED
    BY <2>4, <2>5
<1>3. \A U \in SUBSET S : U # {} => \E x \in U : U \ {x} \in G => U \in G
  BY <1>2
<1> HIDE DEF G
<1>4. SUBSET S \subseteq G
  BY <1>1, <1>3, SubsetInduction
<1>5. S \in G /\ T \cap S = T
  BY <1>4
<1> QED
  BY <1>5 DEF G

\* The same everywhere is the same in sum, and what is nothing does not count.
LEMMA SumSame ==
  ASSUME NEW S, IsFiniteSet(S), NEW f, NEW g, NEW T \in SUBSET S,
         \A x \in S : f[x] \in Int /\ g[x] \in Int,
         \A x \in T : f[x] = g[x],
         \A x \in S \ T : g[x] = 0
  PROVE  SumFunctionOnSet(f, T) = SumFunctionOnSet(g, S)
<1> DEFINE G == {U \in SUBSET S :
                   SumFunctionOnSet(f, T \cap U) = SumFunctionOnSet(g, U)}
<1>1. {} \in G
  <2>1. T \cap {} = {}
    OBVIOUS
  <2>2. SumFunctionOnSet(f, {}) = 0 /\ SumFunctionOnSet(g, {}) = 0
    BY SumIs
  <2> QED
    BY <2>1, <2>2
<1>2. ASSUME NEW U \in SUBSET S, NEW x \in U, U \ {x} \in G PROVE U \in G
  <2>1. PICK a \in Int : a = g[x]
    OBVIOUS
  <2>2. SumFunctionOnSet(g, U) = a + SumFunctionOnSet(g, U \ {x})
    BY <2>1, SumIs
  <2>3. PICK p \in Int : /\ p = SumFunctionOnSet(f, T \cap (U \ {x}))
                         /\ p = SumFunctionOnSet(g, U \ {x})
    <3>1. U \ {x} \in SUBSET S
      OBVIOUS
    <3>2. SumFunctionOnSet(g, U \ {x}) \in Int
      BY <3>1, SumIs
    <3> QED
      BY <1>2, <3>2
  <2>4. CASE x \in T
    <3>1. T \cap U \in SUBSET S /\ x \in T \cap U /\ (T \cap U) \ {x} = T \cap (U \ {x})
      BY <2>4
    <3>2. f[x] = a
      BY <2>1, <2>4
    <3>3. SumFunctionOnSet(f, T \cap U) = a + SumFunctionOnSet(f, T \cap (U \ {x}))
      BY <3>1, <3>2, SumIs
    <3> QED
      BY <2>2, <2>3, <3>3
  <2>5. CASE x \notin T
    <3>1. T \cap U = T \cap (U \ {x}) /\ a = 0
      BY <2>1, <2>5
    <3>2. SumFunctionOnSet(g, U) = 0 + p
      BY <2>2, <2>3, <3>1, Zenon
    <3>3. 0 + p = p
      OBVIOUS
    <3> QED
      BY <2>3, <3>1, <3>2, <3>3
  <2> QED
    BY <2>4, <2>5
<1>3. \A U \in SUBSET S : U # {} => \E x \in U : U \ {x} \in G => U \in G
  BY <1>2
<1> HIDE DEF G
<1>4. SUBSET S \subseteq G
  BY <1>1, <1>3, SubsetInduction
<1>5. S \in G /\ T \cap S = T
  BY <1>4
<1> QED
  BY <1>5 DEF G

LEMMA SumWithin ==
  ASSUME NEW S, IsFiniteSet(S), NEW f, \A x \in S : f[x] \in Int, NEW T \in SUBSET S
  PROVE  SumFunctionOnSet(f, T) = SumFunctionOnSet([x \in S |-> IF x \in T THEN f[x] ELSE 0], S)
<1> DEFINE g == [x \in S |-> IF x \in T THEN f[x] ELSE 0]
<1>1. \A x \in S : g[x] \in Int
  <2> TAKE x \in S
  <2>1. PICK a \in Int : f[x] = a
    OBVIOUS
  <2> QED
    BY <2>1
<1>2. (\A x \in T : f[x] = g[x]) /\ \A x \in S \ T : g[x] = 0
  OBVIOUS
<1> HIDE DEF g
<1>3. SumFunctionOnSet(f, T) = SumFunctionOnSet(g, S)
  BY <1>1, <1>2, SumSame
<1> QED
  BY <1>3 DEF g

\* One term that changes changes the sum as much.
LEMMA SumChange ==
  ASSUME NEW S, IsFiniteSet(S), NEW f, NEW g, NEW x \in S, NEW a \in Int,
         \A y \in S : f[y] \in Int /\ g[y] \in Int,
         g[x] = f[x] + a,
         \A y \in S \ {x} : g[y] = f[y]
  PROVE  SumFunctionOnSet(g, S) = SumFunctionOnSet(f, S) + a
<1>1. S \in SUBSET S /\ S \ {x} \in SUBSET S
  OBVIOUS
<1>2. PICK b \in Int : b = f[x]
  OBVIOUS
<1>3. SumFunctionOnSet(f, S) = b + SumFunctionOnSet(f, S \ {x})
  BY <1>1, <1>2, SumIs
<1>4. SumFunctionOnSet(g, S) = (b + a) + SumFunctionOnSet(g, S \ {x})
  BY <1>1, <1>2, SumIs
<1>5. SumFunctionOnSet(g, S \ {x}) = SumFunctionOnSet(f, S \ {x})
  <2>1. IsFiniteSet(S \ {x})
    BY FS_Subset
  <2> QED
    BY <2>1, SumSame
<1>6. SumFunctionOnSet(f, S \ {x}) \in Int
  BY <1>1, SumIs
<1> QED
  BY <1>3, <1>4, <1>5, <1>6

\* The sum of a sum of two,
LEMMA SumPlus ==
  ASSUME NEW S, IsFiniteSet(S), NEW f, NEW g, NEW h,
         \A x \in S : f[x] \in Int /\ g[x] \in Int /\ h[x] = f[x] + g[x]
  PROVE  SumFunctionOnSet(h, S) = SumFunctionOnSet(f, S) + SumFunctionOnSet(g, S)
<1> DEFINE G == {U \in SUBSET S :
       SumFunctionOnSet(h, U) = SumFunctionOnSet(f, U) + SumFunctionOnSet(g, U)}
<1>0. \A x \in S : h[x] \in Int
  OBVIOUS
<1>1. {} \in G
  <2>1. /\ SumFunctionOnSet(f, {}) = 0 /\ SumFunctionOnSet(g, {}) = 0
        /\ SumFunctionOnSet(h, {}) = 0
    BY <1>0, SumIs
  <2> QED
    BY <2>1
<1>2. ASSUME NEW U \in SUBSET S, NEW x \in U, U \ {x} \in G PROVE U \in G
  <2>1. PICK a \in Int, b \in Int : a = f[x] /\ b = g[x]
    OBVIOUS
  <2>2. h[x] = a + b
    BY <2>1
  <2>3. /\ SumFunctionOnSet(f, U) = a + SumFunctionOnSet(f, U \ {x})
        /\ SumFunctionOnSet(g, U) = b + SumFunctionOnSet(g, U \ {x})
    BY <2>1, SumIs
  <2>4. SumFunctionOnSet(h, U) = (a + b) + SumFunctionOnSet(h, U \ {x})
    BY <1>0, <2>2, SumIs
  <2>5. U \ {x} \in SUBSET S
    OBVIOUS
  <2>6. SumFunctionOnSet(f, U \ {x}) \in Int /\ SumFunctionOnSet(g, U \ {x}) \in Int
    BY <2>5, SumIs
  <2> QED
    BY <1>2, <2>3, <2>4, <2>6
<1>3. \A U \in SUBSET S : U # {} => \E x \in U : U \ {x} \in G => U \in G
  BY <1>2
<1> HIDE DEF G
<1>4. SUBSET S \subseteq G
  BY <1>1, <1>3, SubsetInduction
<1>5. S \in G
  BY <1>4
<1> QED
  BY <1>5 DEF G

\* and the sum of the sums of the parts of a set, each element x in part p[x].
LEMMA SumParts ==
  ASSUME NEW S, IsFiniteSet(S), NEW f, \A x \in S : f[x] \in Int, NEW p,
         NEW P, IsFiniteSet(P)
  PROVE  SumFunctionOnSet([i \in P |-> SumFunctionOnSet(f, {x \in S : p[x] = i})], P)
           = SumFunctionOnSet(f, {x \in S : p[x] \in P})
<1> DEFINE part(i) == {x \in S : p[x] = i}
           h == [i \in P |-> SumFunctionOnSet(f, part(i))]
           in(U) == {x \in S : p[x] \in U}
           G == {U \in SUBSET P : SumFunctionOnSet(h, U) = SumFunctionOnSet(f, in(U))}
<1>0. \A i \in P : h[i] \in Int /\ h[i] = SumFunctionOnSet(f, part(i))
  <2>1. \A i : part(i) \in SUBSET S
    OBVIOUS
  <2>2. \A i : SumFunctionOnSet(f, part(i)) \in Int
    <3> HIDE DEF part
    <3> QED
      BY <2>1, SumIs
  <2> QED
    BY <2>2
<1> HIDE DEF h
<1>1. {} \in G
  <2>1. in({}) = {}
    OBVIOUS
  <2>2. SumFunctionOnSet(h, {}) = 0
    BY <1>0, SumIs
  <2>3. SumFunctionOnSet(f, {}) = 0
    BY SumIs
  <2> QED
    BY <2>1, <2>2, <2>3
<1>2. ASSUME NEW U \in SUBSET P, NEW i \in U, U \ {i} \in G PROVE U \in G
  <2>1. SumFunctionOnSet(h, U) = h[i] + SumFunctionOnSet(h, U \ {i})
    <3>1. \A k \in P : h[k] \in Int
      BY <1>0
    <3> HIDE DEF part, in, G
    <3> QED
      BY <3>1, SumIs
  <2>2. SumFunctionOnSet(h, U \ {i}) = SumFunctionOnSet(f, in(U \ {i}))
    BY <1>2
  <2> DEFINE A == [x \in S |-> IF x \in part(i) THEN f[x] ELSE 0]
             B == [x \in S |-> IF x \in in(U \ {i}) THEN f[x] ELSE 0]
             C == [x \in S |-> IF x \in in(U) THEN f[x] ELSE 0]
  <2>3. \A x \in S : A[x] \in Int /\ B[x] \in Int /\ C[x] \in Int /\ C[x] = A[x] + B[x]
    <3> TAKE x \in S
    <3>1. PICK a \in Int : f[x] = a
      OBVIOUS
    <3> QED
      BY <3>1
  <2>4. /\ SumFunctionOnSet(f, part(i)) = SumFunctionOnSet(A, S)
        /\ SumFunctionOnSet(f, in(U \ {i})) = SumFunctionOnSet(B, S)
        /\ SumFunctionOnSet(f, in(U)) = SumFunctionOnSet(C, S)
    <3>1. part(i) \in SUBSET S /\ in(U \ {i}) \in SUBSET S /\ in(U) \in SUBSET S
      OBVIOUS
    <3> HIDE DEF part, in
    <3>2. SumFunctionOnSet(f, part(i)) = SumFunctionOnSet(A, S)
      BY <3>1, SumWithin
    <3>3. SumFunctionOnSet(f, in(U \ {i})) = SumFunctionOnSet(B, S)
      BY <3>1, SumWithin
    <3>4. SumFunctionOnSet(f, in(U)) = SumFunctionOnSet(C, S)
      BY <3>1, SumWithin
    <3> QED
      BY <3>2, <3>3, <3>4
  <2>5. SumFunctionOnSet(C, S) = SumFunctionOnSet(A, S) + SumFunctionOnSet(B, S)
    <3> HIDE DEF A, B, C
    <3> QED
      BY <2>3, SumPlus
  <2>6. SumFunctionOnSet(h, U) = SumFunctionOnSet(f, in(U))
    BY <1>0, <2>1, <2>2, <2>4, <2>5, Zenon
  <2> QED
    BY <2>6
<1>3. \A U \in SUBSET P : U # {} => \E i \in U : U \ {i} \in G => U \in G
  BY <1>2
<1> HIDE DEF G
<1>4. SUBSET P \subseteq G
  BY <1>1, <1>3, SubsetInduction
<1>5. SumFunctionOnSet(h, P) = SumFunctionOnSet(f, in(P))
  BY <1>4 DEF G
<1> QED
  BY <1>5 DEF h
-----------------------------------------------------------------------------
(* Types *)

\* What is debited and neither paid nor given back.
Debt == [r \in Requester |->
           IF request[r].pc = "debited" THEN request[r].amount ELSE 0]
Debited == SumFunctionOnSet(Debt, Requester) <= withdrawn

By(t) == {d \in Date : d <= t}

LEMMA ConstantTypes ==
  /\ \A o \in Order :
       /\ EventOf[o] \in Event
       /\ Gross[o] \in Nat /\ Platform[o] \in Nat /\ Operator[o] \in Nat
       /\ BuyerFee[o] \in Nat /\ BuyerFee[o] < Gross[o]
       /\ Net(o) \in Nat /\ Net(o) > 0
  /\ IsFiniteSet(Order) /\ IsFiniteSet(Event) /\ IsFiniteSet(Requester)
  /\ IsFiniteSet(Date) /\ \A t : By(t) \subseteq Date
<1>1. IsFiniteSet(Date)
  BY BoundsAssumption, FS_Interval DEF Date
<1>2. /\ Gross \in [Order -> Nat] /\ Platform \in [Order -> Nat]
      /\ Operator \in [Order -> Nat] /\ BuyerFee \in [Order -> Nat]
  BY AmountAssumption
<1>3. ASSUME NEW o \in Order
      PROVE  /\ EventOf[o] \in Event
             /\ Gross[o] \in Nat /\ Platform[o] \in Nat /\ Operator[o] \in Nat
             /\ BuyerFee[o] \in Nat /\ BuyerFee[o] < Gross[o]
             /\ Net(o) \in Nat /\ Net(o) > 0
  BY <1>2, AmountAssumption DEF Net
<1> QED
  BY <1>1, <1>3, FiniteAssumption DEF By

LEMMA BalanceTypes ==
  ASSUME TypeOK
  PROVE  /\ SumFunctionOnSet(dated, Date) \in Int
         /\ SumFunctionOnSet(undated, Event) \in Int
         /\ \A t : SumFunctionOnSet(dated, By(t)) \in Int
         /\ Available \in Int /\ Total \in Int
         /\ Available = free + SumFunctionOnSet(dated, By(now))
<1>1. /\ \A d \in Date : dated[d] \in Int
      /\ \A e \in Event : undated[e] \in Int
      /\ free \in Int /\ escrow \in Int
  BY DEF TypeOK
<1>2. /\ SumFunctionOnSet(dated, Date) \in Int
      /\ \A t : SumFunctionOnSet(dated, By(t)) \in Int
  BY <1>1, ConstantTypes, SumIs
<1>3. SumFunctionOnSet(undated, Event) \in Int
  BY <1>1, ConstantTypes, SumIs
<1>4. Available = free + SumFunctionOnSet(dated, By(now))
  BY DEF Available, By, Passed
<1> QED
  BY <1>1, <1>2, <1>3, <1>4 DEF Total

LEMMA DebtType ==
  ASSUME TypeOK
  PROVE  /\ \A r \in Requester : Debt[r] \in Nat
         /\ SumFunctionOnSet(Debt, Requester) \in Nat
<1>1. \A r \in Requester : Debt[r] \in Nat
  BY DEF TypeOK, Debt
<1>2. SumFunctionOnSet(Debt, Requester) \in Int
  BY <1>1, ConstantTypes, SumIs
<1>3. SumFunctionOnSet(Debt, {}) <= SumFunctionOnSet(Debt, Requester)
  BY <1>1, ConstantTypes, SumLe
<1>4. SumFunctionOnSet(Debt, {}) = 0
  BY <1>1, ConstantTypes, SumIs
<1> QED
  BY <1>1, <1>2, <1>3, <1>4

\* An entry in the pocket of a sale.
LEMMA PostTypes ==
  ASSUME TypeOK, NEW q \in Pocket, NEW e \in Event, NEW a \in Int, Post(q, e, a)
  PROVE  undated' \in [Event -> Int] /\ dated' \in [Date -> Int]
<1>1. undated \in [Event -> Int] /\ dated \in [Date -> Int]
  BY DEF TypeOK
<1>2. undated' \in [Event -> Int]
  <2>1. [undated EXCEPT ![e] = @ + a] \in [Event -> Int]
    BY <1>1
  <2> QED
    BY <1>1, <2>1 DEF Post
<1>3. dated' \in [Date -> Int]
  <2>1. q \in Date => [dated EXCEPT ![q] = @ + a] \in [Date -> Int]
    BY <1>1
  <2> QED
    BY <1>1, <2>1 DEF Post
<1> QED
  BY <1>2, <1>3

LEMMA TypeInit == Init => TypeOK /\ Debited
<1> SUFFICES ASSUME Init PROVE TypeOK /\ Debited
  OBVIOUS
<1>1. TypeOK
  <2>1. 0 \in 0..Horizon /\ 0 \in 0..MaxEdits
    BY BoundsAssumption
  <2>2. NoSale \in Pocket
    BY DEF Pocket
  <2>3. \A o \in Order : 0 <= Gross[o]
    BY ConstantTypes
  <2>4. /\ Resting \in [pc : {"idle", "read", "debited"}, amount : Nat]
        /\ Resting \in [pc : {"idle", "freeze", "unfreeze"}, amount : Nat]
    BY DEF Resting
  <2>0. verified \in BOOLEAN
    BY DEF Init
  <2>5. /\ now \in 0..Horizon
        /\ date \in [Event -> Date] /\ earliest \in [Event -> Date]
        /\ free \in Int /\ escrow \in Int /\ withdrawn \in Nat
        /\ edits \in 0..MaxEdits
    BY <2>1 DEF Init
  <2>6. undated \in [Event -> Int] /\ dated \in [Date -> Int]
    BY DEF Init
  <2>7. /\ reading \in [Order -> Pocket] /\ sale \in [Order -> Pocket]
        /\ \A o \in Order : sale[o] \in {NoSale, reading[o]}
    BY <2>2 DEF Init
  <2>8. given \in [Order -> Nat] /\ \A o \in Order : given[o] <= Gross[o]
    BY <2>3 DEF Init
  <2>9. /\ request \in [Requester -> [pc : {"idle", "read", "debited"}, amount : Nat]]
        /\ office \in [Officer -> [pc : {"idle", "freeze", "unfreeze"}, amount : Nat]]
    BY <2>4 DEF Init
  <2>10. restored \subseteq Order
    BY DEF Init
  <2> QED
    BY <2>0, <2>5, <2>6, <2>7, <2>8, <2>9, <2>10 DEF TypeOK
<1>2. \A r \in Requester : Debt[r] = 0
  BY DEF Init, Resting, Debt
<1>3. SumFunctionOnSet(Debt, {}) = 0 /\ SumFunctionOnSet(Debt, {}) = SumFunctionOnSet(Debt, Requester)
  <2>1. \A r \in Requester : Debt[r] \in Int
    BY <1>2
  <2>2. SumFunctionOnSet(Debt, {}) = 0
    BY <2>1, ConstantTypes, SumIs
  <2>3. SumFunctionOnSet(Debt, {}) = SumFunctionOnSet(Debt, Requester)
    BY <1>2, <2>1, ConstantTypes, SumSame
  <2> QED
    BY <2>2, <2>3
<1> QED
  BY <1>1, <1>3 DEF Debited, Init

\* Requests left alone owe what they owed.
LEMMA SameDebt ==
  ASSUME Debited, request' = request, withdrawn' = withdrawn
  PROVE  Debited'
BY DEF Debited, Debt

LEMMA SaleType ==
  ASSUME TypeOK, NEW o \in Order, SaleRead(o) \/ SaleWrite(o)
  PROVE  TypeOK'
<1>1. CASE SaleRead(o)
  <2>1. PocketOf(o) \in Pocket
    BY ConstantTypes DEF PocketOf, Pocket, TypeOK
  <2> QED
    BY <1>1, <2>1 DEF TypeOK, SaleRead, pockets
<1>2. CASE SaleWrite(o)
  <2>1. undated' \in [Event -> Int] /\ dated' \in [Date -> Int]
    BY <1>2, PostTypes, ConstantTypes DEF SaleWrite, TypeOK
  <2> QED
    BY <1>2, <2>1 DEF TypeOK, SaleWrite
<1> QED
  BY <1>1, <1>2

LEMMA VerifyType ==
  ASSUME TypeOK, Verify
  PROVE  TypeOK'
<1>1. \A e \in Event : undated[e] \in Int
  BY DEF TypeOK
<1>2. undated' \in [Event -> Int]
  BY <1>1 DEF Verify, Replanned
<1>3. dated' \in [Date -> Int]
  <2> DEFINE moved(d) == {e \in Event : date[e] = d /\ undated[e] > 0}
  <2>1. \A d \in Date : moved(d) \subseteq Event
    OBVIOUS
  <2>2. dated' = [d \in Date |-> dated[d] + SumFunctionOnSet(undated, moved(d))]
    BY DEF Verify
  <2> HIDE DEF moved
  <2>3. \A d \in Date : SumFunctionOnSet(undated, moved(d)) \in Int
    BY <1>1, <2>1, ConstantTypes, SumIs
  <2> QED
    BY <2>2, <2>3 DEF TypeOK
<1> QED
  BY <1>2, <1>3 DEF TypeOK, Verify, orders

\* What a refund writes, named.
LEMMA RefundParts ==
  ASSUME TypeOK, NEW o \in Order, NEW fees \in BOOLEAN, Refund(o, fees)
  PROVE  \E amount, back \in Nat :
           /\ amount > 0
           /\ back = (IF Restores(o, fees) THEN Platform[o] ELSE 0)
           /\ given[o] + amount <= Gross[o]
           /\ given' = [given EXCEPT ![o] = @ + amount]
           /\ Post(sale[o], EventOf[o], back - amount)
<1>1. PICK back : back = (IF Restores(o, fees) THEN Platform[o] ELSE 0)
  OBVIOUS
<1>2. back \in Nat
  BY <1>1, ConstantTypes
<1>3. PICK amount \in {1, Refundable(o, fees)} :
        /\ given' = [given EXCEPT ![o] = @ + amount]
        /\ Post(sale[o], EventOf[o], back - amount)
  BY <1>1 DEF Refund
<1>4. /\ Refundable(o, fees) \in Int /\ Refundable(o, fees) > 0
      /\ Refundable(o, fees) + given[o] <= Gross[o]
  BY ConstantTypes DEF Refund, Refundable, TypeOK
<1>5. given[o] \in Nat /\ Gross[o] \in Nat
  BY ConstantTypes DEF TypeOK
<1>6. amount \in Nat /\ amount > 0 /\ given[o] + amount <= Gross[o]
  BY <1>4, <1>5
<1> QED
  BY <1>1, <1>2, <1>3, <1>6

LEMMA RefundType ==
  ASSUME TypeOK, NEW o \in Order, NEW fees \in BOOLEAN, Refund(o, fees)
  PROVE  TypeOK'
<1>1. PICK amount \in Nat, back \in Nat :
        /\ given[o] + amount <= Gross[o]
        /\ given' = [given EXCEPT ![o] = @ + amount]
        /\ Post(sale[o], EventOf[o], back - amount)
  BY RefundParts
<1>2. undated' \in [Event -> Int] /\ dated' \in [Date -> Int]
  BY <1>1, PostTypes, ConstantTypes DEF TypeOK
<1>3. given' \in [Order -> Nat] /\ \A q \in Order : given'[q] <= Gross[q]
  BY <1>1 DEF TypeOK
<1>4. restored' \subseteq Order
  BY DEF TypeOK, Refund
<1> QED
  BY <1>2, <1>3, <1>4 DEF TypeOK, Refund

LEMMA RequestType ==
  ASSUME TypeOK, Debited, NEW r \in Requester,
         RequestRead(r) \/ RequestWrite(r) \/ PayoutPaid(r) \/ PayoutFails(r)
  PROVE  TypeOK' /\ Debited'
<1>1. /\ request[r].amount \in Nat /\ request[r].pc \in {"idle", "read", "debited"}
      /\ withdrawn \in Nat /\ free \in Int
  BY DEF TypeOK
<1>2. SumFunctionOnSet(Debt, Requester) \in Nat /\ Debt[r] \in Nat
      /\ SumFunctionOnSet(Debt, Requester) <= withdrawn
  BY DebtType DEF Debited
<1>3. PICK x : x = request[r].amount
  OBVIOUS
<1>4. CASE RequestRead(r)
  <2>1. PICK amount \in {MinPayout, Available} :
          request' = [request EXCEPT ![r] = [pc |-> "read", amount |-> amount]]
    BY <1>4 DEF RequestRead
  <2>2. amount \in Nat
    BY <1>4, BalanceTypes, BoundsAssumption DEF RequestRead
  <2>3. TypeOK'
    BY <1>4, <2>1, <2>2 DEF TypeOK, RequestRead, pockets, orders
  <2>4. Debt' = Debt
    BY <1>4, <2>1 DEF Debt, TypeOK, RequestRead
  <2> QED
    BY <1>4, <2>3, <2>4 DEF Debited, RequestRead
<1>5. CASE RequestWrite(r)
  <2>1. TypeOK'
    BY <1>1, <1>5 DEF TypeOK, RequestWrite, orders
  <2>2. /\ Debt[r] = 0 /\ Debt'[r] = x
        /\ \A q \in Requester \ {r} : Debt'[q] = Debt[q]
    BY <1>3, <1>5 DEF Debt, TypeOK, RequestWrite
  <2>3. Debt'[r] = Debt[r] + x
    BY <1>1, <1>3, <2>2
  <2>4. SumFunctionOnSet(Debt', Requester) = SumFunctionOnSet(Debt, Requester) + x
    <3>1. \A q \in Requester : Debt[q] \in Int /\ Debt'[q] \in Int
      BY <1>1, <1>3, <2>2, DebtType
    <3>2. PICK f, g : f = Debt /\ g = Debt'
      OBVIOUS
    <3>3. /\ \A q \in Requester : f[q] \in Int /\ g[q] \in Int
          /\ g[r] = f[r] + x /\ x \in Int
          /\ \A q \in Requester \ {r} : g[q] = f[q]
      BY <1>1, <1>3, <2>2, <2>3, <3>1, <3>2
    <3>4. SumFunctionOnSet(g, Requester) = SumFunctionOnSet(f, Requester) + x
      BY <3>3, ConstantTypes, SumChange
    <3> QED
      BY <3>2, <3>4
  <2> QED
    BY <1>1, <1>2, <1>3, <1>5, <2>1, <2>4 DEF Debited, RequestWrite
<1>6. CASE PayoutPaid(r) \/ PayoutFails(r)
  <2>1. request' = [request EXCEPT ![r] = Resting]
    BY <1>6 DEF PayoutPaid, PayoutFails
  <2>2. /\ Debt[r] = x /\ Debt'[r] = 0
        /\ \A q \in Requester \ {r} : Debt'[q] = Debt[q]
    BY <1>3, <1>6, <2>1 DEF Debt, TypeOK, PayoutPaid, PayoutFails, Resting
  <2>a. PICK y \in Int : y = -x
    BY <1>1, <1>3
  <2>b. PICK f, g : f = Debt /\ g = Debt'
    OBVIOUS
  <2>3. g[r] = f[r] + y
    BY <1>1, <1>3, <2>2, <2>a, <2>b
  <2>4. \A q \in Requester : Debt[q] \in Int /\ Debt'[q] \in Nat
    BY <2>2, DebtType
  <2>5. SumFunctionOnSet(g, Requester) = SumFunctionOnSet(f, Requester) + y
    <3>1. /\ \A q \in Requester : f[q] \in Int /\ g[q] \in Int
          /\ \A q \in Requester \ {r} : g[q] = f[q]
      BY <2>2, <2>4, <2>b
    <3> QED
      BY <2>3, <3>1, ConstantTypes, SumChange
  <2>6. 0 <= SumFunctionOnSet(g, Requester)
    <3>1. \A q \in Requester : g[q] \in Nat
      BY <2>4, <2>b
    <3>2. SumFunctionOnSet(g, {}) <= SumFunctionOnSet(g, Requester)
      BY <3>1, ConstantTypes, SumLe
    <3>3. SumFunctionOnSet(g, {}) = 0
      BY <3>1, ConstantTypes, SumIs
    <3> QED
      BY <3>2, <3>3
  <2>7. withdrawn' \in {withdrawn, withdrawn - x} /\ free' \in {free, free + x}
    BY <1>3, <1>6 DEF PayoutPaid, PayoutFails, pockets
  <2>8. withdrawn' \in Nat /\ SumFunctionOnSet(Debt', Requester) <= withdrawn' /\ free' \in Int
    <3>1. PICK s, t : s = SumFunctionOnSet(f, Requester) /\ t = SumFunctionOnSet(g, Requester)
      OBVIOUS
    <3>2. s \in Nat /\ s <= withdrawn /\ t = s + y /\ 0 <= t
      BY <1>2, <2>5, <2>6, <2>b, <3>1
    <3>3. withdrawn' \in Nat /\ t <= withdrawn' /\ free' \in Int
      BY <1>1, <1>3, <2>a, <2>7, <3>2
    <3> QED
      BY <2>b, <3>1, <3>3
  <2>9. request' \in [Requester -> [pc : {"idle", "read", "debited"}, amount : Nat]]
    BY <2>1 DEF TypeOK, Resting
  <2>10. TypeOK'
    BY <1>6, <2>8, <2>9 DEF TypeOK, PayoutPaid, PayoutFails, pockets, orders
  <2> QED
    BY <2>8, <2>10 DEF Debited
<1> QED
  BY <1>4, <1>5, <1>6

LEMMA OfficeType ==
  ASSUME TypeOK, NEW k \in Officer, FreezeRead(k) \/ UnfreezeRead(k) \/ FreezeWrite(k)
  PROVE  TypeOK'
<1>0. edits \in 0..MaxEdits /\ MaxEdits \in Nat /\ escrow \in Int /\ free \in Int
  BY BoundsAssumption DEF TypeOK
<1>1. CASE FreezeRead(k)
  <2>1. PICK amount \in {1, Total} :
          office' = [office EXCEPT ![k] = [pc |-> "freeze", amount |-> amount]]
    BY <1>1 DEF FreezeRead
  <2>2. amount \in Nat
    BY <1>1, BalanceTypes DEF FreezeRead
  <2> QED
    BY <1>0, <1>1, <2>1, <2>2 DEF TypeOK, FreezeRead, Edit, pockets, orders
<1>2. CASE UnfreezeRead(k)
  <2>1. PICK amount \in {1, escrow} :
          office' = [office EXCEPT ![k] = [pc |-> "unfreeze", amount |-> amount]]
    BY <1>2 DEF UnfreezeRead
  <2>2. amount \in Nat
    BY <1>0, <1>2 DEF UnfreezeRead
  <2> QED
    BY <1>0, <1>2, <2>1, <2>2 DEF TypeOK, UnfreezeRead, Edit, pockets, orders
<1>3. CASE FreezeWrite(k)
  <2>1. PICK x \in Int : free' = free - x /\ escrow' = escrow + x
    <3> DEFINE x == IF office[k].pc = "freeze" THEN office[k].amount
                                               ELSE -office[k].amount
    <3>1. office[k].amount \in Nat
      BY DEF TypeOK
    <3>2. x \in Int
      BY <3>1
    <3>3. free' = free - x /\ escrow' = escrow + x
      BY <1>3 DEF FreezeWrite
    <3> QED
      BY <3>2, <3>3
  <2>2. office' \in [Officer -> [pc : {"idle", "freeze", "unfreeze"}, amount : Nat]]
    BY <1>3 DEF FreezeWrite, TypeOK, Resting
  <2> QED
    BY <1>0, <1>3, <2>1, <2>2 DEF TypeOK, FreezeWrite, orders
<1> QED
  BY <1>1, <1>2, <1>3

LEMMA TimeType ==
  ASSUME TypeOK, Tick \/ \E e \in Event : Reschedule(e)
  PROVE  TypeOK'
<1>0. /\ edits \in 0..MaxEdits /\ MaxEdits \in Nat
      /\ now \in 0..Horizon /\ Horizon \in Nat
  BY BoundsAssumption DEF TypeOK
<1>1. CASE Tick
  BY <1>0, <1>1 DEF TypeOK, Tick, pockets, orders
<1>2. ASSUME NEW e \in Event, Reschedule(e) PROVE TypeOK'
  <2>1. PICK d \in Date \ {date[e]} :
          /\ Edit
          /\ date' = [date EXCEPT ![e] = d]
          /\ earliest' = [earliest EXCEPT ![e] = IF d < @ THEN d ELSE @]
    BY <1>2 DEF Reschedule
  <2>2. date' \in [Event -> Date] /\ earliest' \in [Event -> Date]
    BY <2>1 DEF TypeOK
  <2> QED
    BY <1>0, <1>2, <2>1, <2>2 DEF TypeOK, Reschedule, Edit, pockets, orders
<1> QED
  BY <1>1, <1>2

LEMMA TypeStep ==
  ASSUME TypeOK, Debited, [Next]_vars
  PROVE  TypeOK' /\ Debited'
<1>1. ASSUME NEW o \in Order,
             SaleRead(o) \/ SaleWrite(o) \/ \E fees \in BOOLEAN : Refund(o, fees)
      PROVE  TypeOK' /\ Debited'
  BY <1>1, SaleType, RefundType, SameDebt DEF SaleRead, SaleWrite, Refund
<1>2. CASE Verify
  BY <1>2, VerifyType, SameDebt DEF Verify
<1>3. ASSUME NEW r \in Requester,
             RequestRead(r) \/ RequestWrite(r) \/ PayoutPaid(r) \/ PayoutFails(r)
      PROVE  TypeOK' /\ Debited'
  BY <1>3, RequestType
<1>4. ASSUME NEW k \in Officer, FreezeRead(k) \/ UnfreezeRead(k) \/ FreezeWrite(k)
      PROVE  TypeOK' /\ Debited'
  BY <1>4, OfficeType, SameDebt DEF FreezeRead, UnfreezeRead, FreezeWrite
<1>5. CASE Tick \/ \E e \in Event : Reschedule(e)
  BY <1>5, TimeType, SameDebt DEF Tick, Reschedule
<1>6. CASE UNCHANGED vars
  BY <1>6, SameDebt DEF vars, pockets, orders, TypeOK
<1> QED
  BY <1>1, <1>2, <1>3, <1>4, <1>5, <1>6 DEF Next

\* Sums stay integers, no order is given back more than was paid for it, and
\* no failed payout is given back that was not withdrawn, however many
\* requests, officers and refunds overlap.
THEOREM TypeCorrect == Spec => []TypeOK
<1>1. Spec => [](TypeOK /\ Debited)
  BY TypeInit, TypeStep, PTL DEF Spec
<1> QED
  BY <1>1, PTL

-----------------------------------------------------------------------------
(* Nothing is made or lost *)

\* An order that was not sold was not refunded either.
Unsold == \A o \in Order \ Sold : given[o] = 0 /\ o \notin restored

\* Orders sold, and what each one brought: facts of any state.
LEMMA KeptTypes ==
  ASSUME TypeOK
  PROVE  /\ Sold \subseteq Order /\ IsFiniteSet(Sold)
         /\ \A o \in Order : /\ Earned[o] \in Nat /\ given[o] \in Nat
                             /\ Kept[o] = Earned[o] - given[o]
                             /\ Kept[o] \in Int /\ Kept[o] <= Earned[o]
         /\ SumFunctionOnSet(Kept, Sold) \in Int
         /\ \A t : DueBy(t) \in Int
<1>1. Sold \subseteq Order /\ IsFiniteSet(Sold)
  BY ConstantTypes, FS_Subset DEF Sold
<1>2. ASSUME NEW o \in Order
      PROVE  /\ Earned[o] \in Nat /\ given[o] \in Nat
             /\ Kept[o] = Earned[o] - given[o]
             /\ Kept[o] \in Int /\ Kept[o] <= Earned[o]
  <2>1. PICK back : back = (IF o \in restored THEN Platform[o] ELSE 0)
    OBVIOUS
  <2>2. back \in Nat /\ Earned[o] = Net(o) + back
    BY <2>1, ConstantTypes DEF Earned
  <2>3. Earned[o] \in Nat /\ given[o] \in Nat
    BY <2>2, ConstantTypes DEF TypeOK
  <2>4. Kept[o] = Earned[o] - given[o]
    BY DEF Kept
  <2> QED
    BY <2>3, <2>4
<1>3. SumFunctionOnSet(Kept, Sold) \in Int
  BY <1>1, <1>2, ConstantTypes, SumIs
<1>4. ASSUME NEW t PROVE DueBy(t) \in Int
  <2>1. PICK D : D = {o \in Sold : earliest[EventOf[o]] <= t}
    OBVIOUS
  <2>2. D \in SUBSET Order
    BY <1>1, <2>1
  <2>3. SumFunctionOnSet(Earned, D) \in Int
    BY <1>2, <2>2, ConstantTypes, SumIs
  <2> QED
    BY <2>1, <2>3 DEF DueBy
<1> QED
  BY <1>1, <1>2, <1>3, <1>4

\* What an entry adds to the sums of the pockets.
LEMMA PostSums ==
  ASSUME TypeOK, NEW q \in {Undated} \cup Date, NEW e \in Event, NEW a \in Int,
         Post(q, e, a)
  PROVE  /\ SumFunctionOnSet(dated', Date) + SumFunctionOnSet(undated', Event)
              = SumFunctionOnSet(dated, Date) + SumFunctionOnSet(undated, Event) + a
         /\ \A t : SumFunctionOnSet(dated', By(t)) = SumFunctionOnSet(dated, By(t))
                     + (IF q \in By(t) THEN a ELSE 0)
<1>0. /\ \A d \in Date : dated[d] \in Int
      /\ \A x \in Event : undated[x] \in Int
      /\ Undated \notin Date
  <2>1. Undated \notin Date
    BY BoundsAssumption DEF Undated, Date
  <2> QED
    BY <2>1 DEF TypeOK
<1>1. PICK f, g : f = dated' /\ g = undated'
  OBVIOUS
<1>2. CASE q = Undated
  <2>1. f = dated /\ g = [undated EXCEPT ![e] = @ + a]
    BY <1>0, <1>1, <1>2 DEF Post
  <2>2. /\ g[e] = undated[e] + a
        /\ \A x \in Event \ {e} : g[x] = undated[x]
        /\ \A x \in Event : g[x] \in Int
    BY <1>0, <2>1 DEF TypeOK
  <2>3. SumFunctionOnSet(g, Event) = SumFunctionOnSet(undated, Event) + a
    BY <1>0, <2>2, ConstantTypes, SumChange
  <2>4. \A t : q \notin By(t)
    BY <1>0, <1>2, ConstantTypes
  <2>5. PICK x, y : /\ x = SumFunctionOnSet(undated, Event)
                    /\ y = SumFunctionOnSet(dated, Date)
    OBVIOUS
  <2>6. x \in Int /\ y \in Int
    BY <2>5, BalanceTypes
  <2>7. y + (x + a) = y + x + a
    BY <2>6
  <2>8. ASSUME NEW t
        PROVE  SumFunctionOnSet(dated', By(t)) = SumFunctionOnSet(dated, By(t))
                 + (IF q \in By(t) THEN a ELSE 0)
    <3>1. PICK z \in Int : z = SumFunctionOnSet(dated, By(t))
      BY BalanceTypes
    <3>2. z + 0 = z
      OBVIOUS
    <3> QED
      BY <1>1, <2>1, <2>4, <3>1, <3>2, Zenon
  <2> QED
    BY <1>1, <2>1, <2>3, <2>5, <2>7, <2>8, Zenon
<1>3. CASE q \in Date
  <2>1. g = undated /\ f = [dated EXCEPT ![q] = @ + a]
    BY <1>0, <1>1, <1>3 DEF Post
  <2>2. /\ f[q] = dated[q] + a
        /\ \A x \in Date \ {q} : f[x] = dated[x]
        /\ \A x \in Date : f[x] \in Int
    BY <1>0, <1>3, <2>1 DEF TypeOK
  <2>3. SumFunctionOnSet(f, Date) = SumFunctionOnSet(dated, Date) + a
    <3>1. /\ q \in Date /\ f[q] = dated[q] + a
          /\ \A x \in Date : dated[x] \in Int /\ f[x] \in Int
          /\ \A x \in Date \ {q} : f[x] = dated[x]
      BY <1>0, <1>3, <2>2
    <3> QED
      BY <3>1, ConstantTypes, SumChange
  <2>5. PICK x, y : /\ x = SumFunctionOnSet(undated, Event)
                    /\ y = SumFunctionOnSet(dated, Date)
    OBVIOUS
  <2>6. x \in Int /\ y \in Int
    BY <2>5, BalanceTypes
  <2>7. (y + a) + x = y + x + a
    BY <2>6
  <2>8. ASSUME NEW t
        PROVE  SumFunctionOnSet(dated', By(t)) = SumFunctionOnSet(dated, By(t))
                 + (IF q \in By(t) THEN a ELSE 0)
    <3>1. PICK B : B = By(t)
      OBVIOUS
    <3>2. B \subseteq Date /\ IsFiniteSet(B)
      BY <3>1, ConstantTypes, FS_Subset
    <3>3. CASE q \in B
      <4>1. /\ \A i \in B : dated[i] \in Int /\ f[i] \in Int
            /\ \A i \in B \ {q} : f[i] = dated[i]
        BY <1>0, <2>2, <3>2
      <4>2. SumFunctionOnSet(f, B) = SumFunctionOnSet(dated, B) + a
        BY <2>2, <3>2, <3>3, <4>1, SumChange
      <4> QED
        BY <1>1, <3>1, <3>3, <4>2, Zenon
    <3>4. CASE q \notin B
      <4>1. /\ \A i \in B : dated[i] \in Int /\ f[i] \in Int
            /\ \A i \in B : f[i] = dated[i]
        BY <1>0, <2>2, <3>2, <3>4
      <4>2. SumFunctionOnSet(f, B) = SumFunctionOnSet(dated, B)
        BY <3>2, <4>1, SumSame
      <4>3. PICK z \in Int : z = SumFunctionOnSet(dated, B)
        BY <3>1, BalanceTypes
      <4>4. z + 0 = z
        OBVIOUS
      <4> QED
        BY <1>1, <3>1, <3>4, <4>2, <4>3, <4>4, Zenon
    <3> QED
      BY <3>3, <3>4
  <2> QED
    BY <1>1, <2>1, <2>3, <2>5, <2>7, <2>8, Zenon
<1> QED
  BY <1>2, <1>3

\* A sale adds an order that kept all it brought.
LEMMA SaleSold ==
  ASSUME TypeOK, Unsold, NEW o \in Order, SaleWrite(o)
  PROVE  /\ o \notin Sold /\ Sold' = Sold \cup {o} /\ sale'[o] = reading[o]
         /\ reading[o] \in {Undated} \cup Date
         /\ Earned' = Earned /\ Kept' = Kept
         /\ Earned[o] = Net(o) /\ Kept[o] = Net(o)
         /\ Unsold'
<1>1. o \notin Sold /\ Sold' = Sold \cup {o} /\ sale'[o] = reading[o]
  BY DEF TypeOK, SaleWrite, Sold
<1>2. reading[o] \in {Undated} \cup Date
  BY DEF TypeOK, SaleWrite, Pocket
<1>3. Earned' = Earned /\ Kept' = Kept
  BY DEF SaleWrite, Earned, Kept
<1>4. given[o] = 0 /\ o \notin restored
  BY <1>1 DEF Unsold
<1>5. Earned[o] = Net(o) + 0 /\ Kept[o] = Earned[o] - 0
  BY <1>4 DEF Earned, Kept
<1>6. Earned[o] = Net(o) /\ Kept[o] = Net(o)
  BY <1>5, ConstantTypes
<1>7. Unsold'
  BY <1>1 DEF SaleWrite, Unsold
<1> QED
  BY <1>1, <1>2, <1>3, <1>6, <1>7

\* A refund changes what one sold order brought.
LEMMA RefundSold ==
  ASSUME TypeOK, Unsold, NEW o \in Order, NEW fees \in BOOLEAN, Refund(o, fees)
  PROVE  /\ o \in Sold /\ Sold' = Sold
         /\ sale[o] \in {Undated} \cup Date /\ sale[o] = reading[o]
         /\ Unsold'
         /\ \E amount, back \in Nat :
              /\ Post(sale[o], EventOf[o], back - amount)
              /\ Earned'[o] = Earned[o] + back
              /\ Kept'[o] = Kept[o] + (back - amount)
              /\ \A q \in Order \ {o} : Earned'[q] = Earned[q] /\ Kept'[q] = Kept[q]
<1>1. o \in Sold /\ Sold' = Sold
  BY DEF Refund, Sold
<1>2. sale[o] \in {Undated} \cup Date /\ sale[o] = reading[o]
  BY DEF Refund, Pocket, TypeOK
<1>3. PICK amount \in Nat, back \in Nat :
        /\ back = (IF Restores(o, fees) THEN Platform[o] ELSE 0)
        /\ given' = [given EXCEPT ![o] = @ + amount]
        /\ Post(sale[o], EventOf[o], back - amount)
  BY RefundParts
<1>4. restored' = IF fees THEN restored \cup {o} ELSE restored
  BY DEF Refund
<1>5. Unsold'
  BY <1>1, <1>3, <1>4 DEF Unsold, TypeOK
<1>6. /\ Earned[o] = Net(o) + (IF o \in restored THEN Platform[o] ELSE 0)
      /\ Earned'[o] = Net(o) + (IF o \in restored' THEN Platform[o] ELSE 0)
  BY DEF Earned
<1>7. Earned'[o] = Earned[o] + back
  <2>1. PICK n, p \in Nat : n = Net(o) /\ p = Platform[o]
    BY ConstantTypes
  <2>2. CASE Restores(o, fees)
    <3>1. o \notin restored /\ o \in restored' /\ back = p
      BY <1>3, <1>4, <2>1, <2>2 DEF Restores
    <3>2. Earned[o] = n + 0 /\ Earned'[o] = n + p
      BY <1>6, <2>1, <3>1, Zenon
    <3> QED
      BY <2>1, <3>1, <3>2
  <2>3. CASE ~Restores(o, fees)
    <3>1. (o \in restored <=> o \in restored') /\ back = 0
      BY <1>3, <1>4, <2>3 DEF Restores
    <3>2. Earned'[o] = Earned[o]
      BY <1>6, <3>1
    <3>3. Earned[o] \in Nat
      BY KeptTypes
    <3> QED
      BY <3>1, <3>2, <3>3
  <2> QED
    BY <2>2, <2>3
<1>8. Kept'[o] = Kept[o] + (back - amount)
  <2>1. PICK x \in Nat, y \in Nat : x = Earned[o] /\ y = given[o]
    BY KeptTypes
  <2>2. given'[o] = y + amount
    BY <1>3, <2>1 DEF TypeOK
  <2>3. Kept[o] = x - y /\ Kept'[o] = (x + back) - (y + amount)
    BY <1>7, <2>1, <2>2 DEF Kept
  <2> QED
    BY <2>3
<1>9. ASSUME NEW q \in Order \ {o}
      PROVE  Earned'[q] = Earned[q] /\ Kept'[q] = Kept[q]
  <2>1. (q \in restored' <=> q \in restored) /\ given'[q] = given[q]
    BY <1>3, <1>4 DEF TypeOK
  <2>2. Earned'[q] = Earned[q]
    BY <2>1 DEF Earned
  <2> QED
    BY <2>1, <2>2 DEF Kept
<1> QED
  BY <1>1, <1>2, <1>3, <1>5, <1>7, <1>8, <1>9

\* Nothing else concerns the orders.
LEMMA SameSales ==
  ASSUME Unsold, sale' = sale, given' = given, restored' = restored
  PROVE  Sold' = Sold /\ Earned' = Earned /\ Kept' = Kept /\ Unsold'
<1>1. Sold' = Sold
  BY DEF Sold
<1>2. Earned' = Earned
  BY DEF Earned
<1>3. Kept' = Kept
  BY <1>2 DEF Kept
<1>4. Unsold'
  BY <1>1 DEF Unsold
<1> QED
  BY <1>1, <1>2, <1>3, <1>4

\* What the dating of the held entries moves.
HeldOf == {e \in Event : undated[e] > 0}

LEMMA Moved ==
  ASSUME TypeOK, Verify
  PROVE  /\ SumFunctionOnSet(dated', Date) + SumFunctionOnSet(undated', Event)
              = SumFunctionOnSet(dated, Date) + SumFunctionOnSet(undated, Event)
         /\ \A t : SumFunctionOnSet(dated', By(t)) = SumFunctionOnSet(dated, By(t))
                     + SumFunctionOnSet(undated, {e \in HeldOf : date[e] \in By(t)})
<1>0. /\ \A d \in Date : dated[d] \in Int
      /\ \A x \in Event : undated[x] \in Int
      /\ HeldOf \subseteq Event /\ IsFiniteSet(HeldOf)
  BY ConstantTypes, FS_Subset DEF TypeOK, HeldOf
<1> DEFINE moved(d) == {e \in HeldOf : date[e] = d}
           h == [d \in Date |-> SumFunctionOnSet(undated, moved(d))]
<1>1. \A d \in Date : dated'[d] = dated[d] + h[d] /\ h[d] \in Int
  <2>1. \A d : moved(d) = {e \in Event : date[e] = d /\ undated[e] > 0}
    BY DEF HeldOf
  <2>2. dated' = [d \in Date |-> dated[d] + SumFunctionOnSet(undated, moved(d))]
    BY <2>1 DEF Verify
  <2>3. \A d : moved(d) \in SUBSET Event
    BY <1>0
  <2> HIDE DEF moved
  <2>4. \A d \in Date : SumFunctionOnSet(undated, moved(d)) \in Int
    BY <1>0, <2>3, ConstantTypes, SumIs
  <2> QED
    BY <2>2, <2>4
<1>2. ASSUME NEW B \in SUBSET Date
      PROVE  SumFunctionOnSet(dated', B) = SumFunctionOnSet(dated, B)
               + SumFunctionOnSet(undated, {e \in HeldOf : date[e] \in B})
  <2>1. IsFiniteSet(B)
    BY ConstantTypes, FS_Subset
  <2>2. PICK k : k = [d \in B |-> SumFunctionOnSet(undated, moved(d))]
    OBVIOUS
  <2>3. SumFunctionOnSet(k, B) = SumFunctionOnSet(undated, {e \in HeldOf : date[e] \in B})
    <3>1. \A x \in HeldOf : undated[x] \in Int
      BY <1>0
    <3> QED
      BY <1>0, <2>1, <2>2, <3>1, SumParts
  <2>4. \A d \in B : k[d] = h[d]
    BY <2>2
  <2> HIDE DEF h
  <2>5. PICK f : f = dated'
    OBVIOUS
  <2>6. \A d \in B : dated[d] \in Int /\ k[d] \in Int /\ f[d] = dated[d] + k[d]
    BY <1>0, <1>1, <2>4, <2>5
  <2>7. SumFunctionOnSet(f, B) = SumFunctionOnSet(dated, B) + SumFunctionOnSet(k, B)
    BY <2>1, <2>6, SumPlus
  <2> QED
    BY <2>3, <2>5, <2>7
<1>3. SumFunctionOnSet(dated', Date) = SumFunctionOnSet(dated, Date)
        + SumFunctionOnSet(undated, HeldOf)
  <2>1. {e \in HeldOf : date[e] \in Date} = HeldOf
    BY <1>0 DEF TypeOK
  <2> QED
    BY <1>2, <2>1
<1>4. SumFunctionOnSet(undated, Event) = SumFunctionOnSet(undated', Event)
        + SumFunctionOnSet(undated, HeldOf)
  <2>1. PICK g, k : /\ g = undated'
                    /\ k = [e \in Event |-> IF e \in HeldOf THEN undated[e] ELSE 0]
    OBVIOUS
  <2>2. SumFunctionOnSet(undated, HeldOf) = SumFunctionOnSet(k, Event)
    BY <1>0, <2>1, ConstantTypes, SumWithin
  <2>3. ASSUME NEW e \in Event
        PROVE  g[e] \in Int /\ k[e] \in Int /\ undated[e] = g[e] + k[e]
    <3>1. PICK x \in Int : x = undated[e]
      BY <1>0
    <3>2. g[e] = (IF x > 0 THEN 0 ELSE x) /\ k[e] = (IF x > 0 THEN x ELSE 0)
      BY <2>1, <3>1 DEF Verify, Replanned, HeldOf
    <3> QED
      BY <3>1, <3>2
  <2>4. SumFunctionOnSet(undated, Event) = SumFunctionOnSet(g, Event) + SumFunctionOnSet(k, Event)
    BY <2>3, ConstantTypes, SumPlus
  <2> QED
    BY <2>1, <2>2, <2>4
<1>5. PICK a, b, c, x, y :
        /\ a = SumFunctionOnSet(dated, Date) /\ x = SumFunctionOnSet(dated', Date)
        /\ b = SumFunctionOnSet(undated, Event) /\ y = SumFunctionOnSet(undated', Event)
        /\ c = SumFunctionOnSet(undated, HeldOf)
  OBVIOUS
<1>6. a \in Int /\ b \in Int /\ c \in Int
  BY <1>0, <1>5, BalanceTypes, ConstantTypes, SumIs
<1>7. x = a + c /\ b = y + c
  BY <1>3, <1>4, <1>5
<1>8. y \in Int
  <2>1. \A e \in Event : undated'[e] \in Int
    BY VerifyType DEF TypeOK
  <2> QED
    BY <1>5, <2>1, ConstantTypes, SumIs
<1>9. x + y = a + b
  BY <1>6, <1>7, <1>8
<1>10. \A t : By(t) \in SUBSET Date
  BY ConstantTypes
<1> HIDE DEF moved, h
<1> QED
  BY <1>2, <1>5, <1>9, <1>10

\* What an entry of a sale or of a refund does to the total.
LEMMA PostTotal ==
  ASSUME TypeOK, NEW q \in {Undated} \cup Date, NEW e \in Event, NEW a \in Int,
         Post(q, e, a), free' = free, escrow' = escrow
  PROVE  Total' = Total + a
<1>1. PICK x, y, u, v :
        /\ x = SumFunctionOnSet(dated, Date) /\ u = SumFunctionOnSet(dated', Date)
        /\ y = SumFunctionOnSet(undated, Event) /\ v = SumFunctionOnSet(undated', Event)
  OBVIOUS
<1>2. u + v = x + y + a
  BY <1>1, PostSums
<1>3. x \in Int /\ y \in Int /\ free \in Int /\ escrow \in Int
  BY <1>1, BalanceTypes DEF TypeOK
<1>4. u \in Int /\ v \in Int
  <2>1. (\A d \in Date : dated'[d] \in Int) /\ (\A d \in Event : undated'[d] \in Int)
    BY PostTypes DEF Pocket
  <2>2. u \in Int
    BY <1>1, <2>1, ConstantTypes, SumIs
  <2>3. v \in Int
    BY <1>1, <2>1, ConstantTypes, SumIs
  <2> QED
    BY <2>2, <2>3
<1>5. Total = free + escrow + x + y /\ Total' = free + escrow + u + v
  BY <1>1 DEF Total
<1> QED
  BY <1>2, <1>3, <1>4, <1>5

LEMMA ConservedInit == Init => Unsold /\ Conserved
<1> SUFFICES ASSUME Init PROVE Unsold /\ Conserved
  OBVIOUS
<1>0. TypeOK
  BY TypeInit
<1>1. Sold = {}
  BY DEF Init, Sold
<1>2. Unsold
  BY DEF Init, Unsold
<1>3. SumFunctionOnSet(Kept, Sold) = 0
  BY <1>0, <1>1, KeptTypes, ConstantTypes, SumIs
<1>4. SumFunctionOnSet(dated, Date) = 0
  <2>1. (\A d \in Date : dated[d] = 0 /\ dated[d] \in Int) /\ {} \in SUBSET Date
    BY DEF Init
  <2>2. SumFunctionOnSet(dated, {}) = 0
    BY <2>1, ConstantTypes, SumIs
  <2>3. SumFunctionOnSet(dated, {}) = SumFunctionOnSet(dated, Date)
    BY <2>1, ConstantTypes, SumSame
  <2> QED
    BY <2>2, <2>3
<1>5. SumFunctionOnSet(undated, Event) = 0
  <2>1. (\A e \in Event : undated[e] = 0 /\ undated[e] \in Int) /\ {} \in SUBSET Event
    BY DEF Init
  <2>2. SumFunctionOnSet(undated, {}) = 0
    BY <2>1, ConstantTypes, SumIs
  <2>3. SumFunctionOnSet(undated, {}) = SumFunctionOnSet(undated, Event)
    BY <2>1, ConstantTypes, SumSame
  <2> QED
    BY <2>2, <2>3
<1>6. free = 0 /\ escrow = 0 /\ withdrawn = 0
  BY DEF Init
<1>7. Conserved
  BY <1>3, <1>4, <1>5, <1>6 DEF Conserved, Total
<1> QED
  BY <1>2, <1>7

\* One entry for a sale; one for what a refund takes and gives back.
LEMMA SaleConserved ==
  ASSUME TypeOK, Unsold, Conserved, NEW o \in Order, SaleWrite(o)
  PROVE  Conserved'
<1>1. PICK n \in Int : n = Net(o)
  BY ConstantTypes
<1>2. Total' = Total + n
  BY <1>1, PostTotal, SaleSold, ConstantTypes DEF SaleWrite
<1>3. PICK s \in Int : s = SumFunctionOnSet(Kept, Sold)
  BY KeptTypes
<1>4. SumFunctionOnSet(Kept, Sold \cup {o}) = n + s
  <2>1. PICK S : S = Sold \cup {o}
    OBVIOUS
  <2>2. S \in SUBSET Order /\ o \in S /\ S \ {o} = Sold
    BY <2>1, SaleSold, KeptTypes
  <2>3. \A q \in Order : Kept[q] \in Int
    BY KeptTypes
  <2>4. SumFunctionOnSet(Kept, S) = Kept[o] + SumFunctionOnSet(Kept, S \ {o})
    BY <2>2, <2>3, ConstantTypes, SumIs
  <2> QED
    BY <1>1, <1>3, <2>1, <2>2, <2>4, SaleSold
<1>5. Sold' = Sold \cup {o} /\ Kept' = Kept /\ withdrawn' = withdrawn
  BY SaleSold DEF SaleWrite
<1>6. SumFunctionOnSet(Kept', Sold') = n + s
  BY <1>4, <1>5
<1>7. Total = s - withdrawn /\ withdrawn \in Nat
  BY <1>3 DEF Conserved, TypeOK
<1>8. (n + s) - withdrawn = (s - withdrawn) + n
  BY <1>7
<1> QED
  BY <1>2, <1>5, <1>6, <1>7, <1>8 DEF Conserved

LEMMA RefundConserved ==
  ASSUME TypeOK, Unsold, Conserved, NEW o \in Order, NEW fees \in BOOLEAN, Refund(o, fees)
  PROVE  Conserved'
<1>1. PICK amount \in Nat, back \in Nat :
        /\ Post(sale[o], EventOf[o], back - amount)
        /\ Kept'[o] = Kept[o] + (back - amount)
        /\ \A q \in Order \ {o} : Kept'[q] = Kept[q]
  BY RefundSold
<1>2. PICK x \in Int : x = back - amount
  OBVIOUS
<1>3. Total' = Total + x
  BY <1>1, <1>2, PostTotal, RefundSold, ConstantTypes DEF Refund
<1>4. PICK s \in Int : s = SumFunctionOnSet(Kept, Sold)
  BY KeptTypes
<1>5. PICK g : g = Kept'
  OBVIOUS
<1>6. SumFunctionOnSet(g, Sold) = s + x
  <2>1. o \in Sold /\ Sold \subseteq Order /\ IsFiniteSet(Sold)
    BY RefundSold, KeptTypes
  <2>2. \A q \in Sold : Kept[q] \in Int
    BY <2>1, KeptTypes
  <2>3. /\ g[o] = Kept[o] + x
        /\ \A q \in Sold \ {o} : g[q] = Kept[q]
    BY <1>1, <1>2, <1>5, <2>1
  <2>4. \A q \in Sold : Kept[q] \in Int /\ g[q] \in Int
    BY <2>1, <2>2, <2>3
  <2> QED
    <3>1. PICK S : S = Sold
      OBVIOUS
    <3>2. /\ o \in S /\ IsFiniteSet(S) /\ g[o] = Kept[o] + x
          /\ \A q \in S : Kept[q] \in Int /\ g[q] \in Int
          /\ \A q \in S \ {o} : g[q] = Kept[q]
      BY <2>1, <2>3, <2>4, <3>1
    <3>3. SumFunctionOnSet(g, S) = SumFunctionOnSet(Kept, S) + x
      BY <3>2, SumChange
    <3> QED
      BY <1>4, <3>1, <3>3
<1>7. Sold' = Sold /\ withdrawn' = withdrawn
  BY RefundSold DEF Refund
<1>8. Total = s - withdrawn /\ withdrawn \in Nat
  BY <1>4 DEF Conserved, TypeOK
<1>9. (s + x) - withdrawn = (s - withdrawn) + x
  BY <1>8
<1> QED
  BY <1>3, <1>5, <1>6, <1>7, <1>8, <1>9 DEF Conserved

\* Between pockets, and out of them.
LEMMA MoveConserved ==
  ASSUME TypeOK, Conserved, Total' + withdrawn' = Total + withdrawn,
         Total' \in Int, withdrawn' \in Int, Sold' = Sold, Kept' = Kept
  PROVE  Conserved'
<1>1. PICK s \in Int : s = SumFunctionOnSet(Kept, Sold)
  BY KeptTypes
<1>2. Total = s - withdrawn /\ withdrawn \in Nat /\ Total \in Int
  BY <1>1, BalanceTypes DEF Conserved, TypeOK
<1>3. Total' = s - withdrawn'
  <2>1. PICK t, u, v, w : t = Total /\ u = Total' /\ v = withdrawn /\ w = withdrawn'
    OBVIOUS
  <2>2. t \in Int /\ u \in Int /\ v \in Nat /\ w \in Int
    BY <1>2, <2>1
  <2>a. u + w = t + v /\ t = s - v
    BY <1>2, <2>1, Zenon
  <2>3. u = s - w
    BY <2>2, <2>a
  <2> QED
    BY <2>1, <2>3
<1> QED
  BY <1>1, <1>3 DEF Conserved

LEMMA VerifyConserved ==
  ASSUME TypeOK, Unsold, Conserved, Verify
  PROVE  Conserved'
<1>1. PICK x, y, u, v :
        /\ x = SumFunctionOnSet(dated, Date) /\ u = SumFunctionOnSet(dated', Date)
        /\ y = SumFunctionOnSet(undated, Event) /\ v = SumFunctionOnSet(undated', Event)
  OBVIOUS
<1>2. u + v = x + y
  BY <1>1, Moved
<1>3. x \in Int /\ y \in Int /\ free \in Int /\ escrow \in Int /\ withdrawn \in Nat
  BY <1>1, BalanceTypes DEF TypeOK
<1>4. u \in Int /\ v \in Int
  <2>1. (\A d \in Date : dated'[d] \in Int) /\ (\A d \in Event : undated'[d] \in Int)
    BY VerifyType DEF TypeOK
  <2>2. u \in Int
    BY <1>1, <2>1, ConstantTypes, SumIs
  <2>3. v \in Int
    BY <1>1, <2>1, ConstantTypes, SumIs
  <2> QED
    BY <2>2, <2>3
<1>5. /\ Total = free + escrow + x + y /\ Total' = free + escrow + u + v
      /\ withdrawn' = withdrawn
  BY <1>1 DEF Total, Verify
<1>6. Total' + withdrawn' = Total + withdrawn /\ Total' \in Int /\ withdrawn' \in Int
  BY <1>2, <1>3, <1>4, <1>5
<1>7. Sold' = Sold /\ Kept' = Kept
  BY SameSales DEF Verify, orders
<1> QED
  BY <1>6, <1>7, MoveConserved

\* Payouts and freezes only write available entries, and what is set apart.
LEMMA FreeMoves ==
  ASSUME TypeOK, TypeOK', Unsold, Conserved, dated' = dated, undated' = undated,
         sale' = sale, given' = given, restored' = restored,
         free' + escrow' + withdrawn' = free + escrow + withdrawn
  PROVE  Conserved'
<1>1. PICK x \in Int, y \in Int :
        x = SumFunctionOnSet(dated, Date) /\ y = SumFunctionOnSet(undated, Event)
  BY BalanceTypes
<1>2. Total = free + escrow + x + y /\ Total' = free' + escrow' + x + y
  BY <1>1 DEF Total
<1>3. /\ free \in Int /\ escrow \in Int /\ withdrawn \in Nat
      /\ free' \in Int /\ escrow' \in Int /\ withdrawn' \in Nat
  BY DEF TypeOK
<1>4. Total' + withdrawn' = Total + withdrawn /\ Total' \in Int /\ withdrawn' \in Int
  <2>1. PICK a, b, c, d, e, f : /\ a = free /\ b = escrow /\ c = withdrawn
                                /\ d = free' /\ e = escrow' /\ f = withdrawn'
    OBVIOUS
  <2>2. /\ a \in Int /\ b \in Int /\ c \in Nat /\ d \in Int /\ e \in Int /\ f \in Nat
    BY <1>3, <2>1
  <2>a. d + e + f = a + b + c
    BY <2>1, Zenon
  <2>3. /\ (d + e + x + y) + f = (a + b + x + y) + c
        /\ d + e + x + y \in Int /\ f \in Int
    BY <2>2, <2>a
  <2> QED
    BY <1>2, <2>1, <2>3, Zenon
<1>5. Sold' = Sold /\ Kept' = Kept
  BY SameSales
<1> QED
  BY <1>4, <1>5, MoveConserved

LEMMA RequestMoves ==
  ASSUME TypeOK, TypeOK', NEW r \in Requester,
         RequestRead(r) \/ RequestWrite(r) \/ PayoutPaid(r) \/ PayoutFails(r)
  PROVE  /\ dated' = dated /\ undated' = undated /\ UNCHANGED orders
         /\ escrow' = escrow /\ free' + withdrawn' = free + withdrawn
<1>1. PICK x \in Nat : x = request[r].amount
  BY DEF TypeOK
<1>2. \/ free' = free /\ withdrawn' = withdrawn
      \/ free' = free - x /\ withdrawn' = withdrawn + x
      \/ free' = free + x /\ withdrawn' = withdrawn - x
  BY <1>1 DEF RequestRead, RequestWrite, PayoutPaid, PayoutFails, pockets
<1>3. free \in Int /\ withdrawn \in Nat
  BY DEF TypeOK
<1>4. free' + withdrawn' = free + withdrawn
  BY <1>2, <1>3
<1> QED
  BY <1>4 DEF RequestRead, RequestWrite, PayoutPaid, PayoutFails, pockets

LEMMA FreezeMoves ==
  ASSUME TypeOK, TypeOK', NEW k \in Officer,
         FreezeRead(k) \/ UnfreezeRead(k) \/ FreezeWrite(k)
  PROVE  /\ dated' = dated /\ undated' = undated /\ UNCHANGED orders
         /\ withdrawn' = withdrawn /\ free' + escrow' = free + escrow
<1>1. CASE FreezeRead(k) \/ UnfreezeRead(k)
  BY <1>1 DEF FreezeRead, UnfreezeRead, pockets
<1>2. CASE FreezeWrite(k)
  <2> DEFINE x == IF office[k].pc = "freeze" THEN office[k].amount
                                             ELSE -office[k].amount
  <2>1. office[k].amount \in Nat
    BY DEF TypeOK
  <2>2. x \in Int
    BY <2>1
  <2>3. free' = free - x /\ escrow' = escrow + x
    BY <1>2 DEF FreezeWrite
  <2> HIDE DEF x
  <2>4. free \in Int /\ escrow \in Int
    BY DEF TypeOK
  <2>5. free' + escrow' = free + escrow
    BY <2>2, <2>3, <2>4
  <2> QED
    BY <1>2, <2>5 DEF FreezeWrite
<1> QED
  BY <1>1, <1>2

LEMMA ConservedStep ==
  ASSUME TypeOK, TypeOK', Unsold, Conserved, [Next]_vars
  PROVE  Unsold' /\ Conserved'
<1>0. free \in Int /\ escrow \in Int /\ withdrawn \in Nat /\ free' \in Int
  BY DEF TypeOK
<1>1. ASSUME NEW o \in Order, SaleRead(o) PROVE Unsold' /\ Conserved'
  <2>1. /\ UNCHANGED <<pockets, withdrawn>>
        /\ sale' = sale /\ given' = given /\ restored' = restored
    BY <1>1 DEF SaleRead
  <2> QED
    BY <2>1, FreeMoves, SameSales DEF pockets
<1>2. ASSUME NEW o \in Order, SaleWrite(o) PROVE Unsold' /\ Conserved'
  BY <1>2, SaleSold, SaleConserved
<1>3. ASSUME NEW o \in Order, NEW fees \in BOOLEAN, Refund(o, fees)
      PROVE  Unsold' /\ Conserved'
  BY <1>3, RefundSold, RefundConserved
<1>4. CASE Verify
  BY <1>4, VerifyConserved, SameSales DEF Verify, orders
<1>5. ASSUME NEW r \in Requester,
             RequestRead(r) \/ RequestWrite(r) \/ PayoutPaid(r) \/ PayoutFails(r)
      PROVE  Unsold' /\ Conserved'
  <2>1. /\ dated' = dated /\ undated' = undated /\ UNCHANGED orders
        /\ escrow' = escrow /\ free' + withdrawn' = free + withdrawn
    BY <1>5, RequestMoves
  <2>2. free' + escrow' + withdrawn' = free + escrow + withdrawn
    <3>1. PICK b, c, d, f : /\ b = escrow /\ c = withdrawn
                            /\ d = free' /\ f = withdrawn'
      OBVIOUS
    <3>2. b \in Int /\ c \in Nat /\ d \in Int /\ f \in Nat
      <4>1. withdrawn' \in Nat
        BY DEF TypeOK
      <4> QED
        BY <1>0, <3>1, <4>1
    <3>3. d + f = free + c
      BY <2>1, <3>1, Zenon
    <3>4. d + b + f = free + b + c
      BY <1>0, <3>2, <3>3
    <3> QED
      BY <2>1, <3>1, <3>4, Zenon
  <2> QED
    BY <2>1, <2>2, FreeMoves, SameSales DEF orders
<1>6. ASSUME NEW k \in Officer, FreezeRead(k) \/ UnfreezeRead(k) \/ FreezeWrite(k)
      PROVE  Unsold' /\ Conserved'
  <2>1. /\ dated' = dated /\ undated' = undated /\ UNCHANGED orders
        /\ withdrawn' = withdrawn /\ free' + escrow' = free + escrow
    BY <1>6, FreezeMoves
  <2>2. free' + escrow' + withdrawn' = free + escrow + withdrawn
    BY <1>0, <2>1
  <2> QED
    BY <2>1, <2>2, FreeMoves, SameSales DEF orders
<1>7. CASE UNCHANGED vars \/ Tick \/ \E e \in Event : Reschedule(e)
  <2>1. UNCHANGED <<pockets, orders, withdrawn>>
    BY <1>7 DEF vars, Tick, Reschedule
  <2>2. free' + escrow' + withdrawn' = free + escrow + withdrawn
    BY <2>1 DEF pockets
  <2> QED
    BY <2>1, <2>2, FreeMoves, SameSales DEF pockets, orders
<1> QED
  BY <1>1, <1>2, <1>3, <1>4, <1>5, <1>6, <1>7 DEF Next

\* Whatever overlaps, the pockets hold together what the sales brought, less
\* what was given back and withdrawn: no move from one to another, no dating of
\* what was held and no repeated refund makes or loses money.
THEOREM ConservedCorrect == Spec => []Conserved
<1> DEFINE I == TypeOK /\ Debited /\ Unsold /\ Conserved
<1>1. Init => I
  BY TypeInit, ConservedInit
<1>2. I /\ [Next]_vars => I'
  BY TypeStep, ConservedStep
<1>3. I => Conserved
  OBVIOUS
<1> QED
  BY <1>1, <1>2, <1>3, PTL DEF Spec

-----------------------------------------------------------------------------
(* Nothing is owed before its date *)

Due(t) == {o \in Sold : earliest[EventOf[o]] <= t}
Of(e) == {o \in Sold : EventOf[o] = e}

\* A sale is held until a date its event had, and none is earlier than the
\* earliest.
Dates ==
  /\ \A o \in Order : reading[o] \in Date => earliest[EventOf[o]] <= reading[o]
  /\ \A e \in Event : earliest[e] <= date[e]

\* Before the verification everything is held without a date: nothing is
\* withdrawn, and what is held for an event is what its sales brought.
Before ==
  ~verified =>
    /\ withdrawn = 0 /\ free + escrow = 0
    /\ \A d \in Date : dated[d] = 0
    /\ \A o \in Order : reading[o] \in {NoSale, Undated}
    /\ \A e \in Event : undated[e] = SumFunctionOnSet(Kept, Of(e))
    /\ \A r \in Requester : request[r].pc = "idle"

\* What was withdrawn, what is set apart and what will be available on day t
\* is no more than what the sales due by day t brought.
Owe(t) == withdrawn + escrow + free + SumFunctionOnSet(dated, By(t))
Owed == \A t \in 0..Horizon : Owe(t) <= DueBy(t)

LEMMA DueTypes ==
  ASSUME TypeOK
  PROVE  /\ \A t : /\ Due(t) \subseteq Sold /\ Due(t) \subseteq Order
                   /\ IsFiniteSet(Due(t))
                   /\ DueBy(t) = SumFunctionOnSet(Earned, Due(t))
                   /\ DueBy(t) \in Int /\ Owe(t) \in Int
         /\ \A e : Of(e) \subseteq Order /\ IsFiniteSet(Of(e))
         /\ \A e \in Event : earliest[e] \in Nat /\ date[e] \in Nat
<1>1. \A t : Due(t) \subseteq Sold /\ Due(t) \subseteq Order
  BY KeptTypes DEF Due
<1>2. \A t : IsFiniteSet(Due(t))
  BY <1>1, ConstantTypes, FS_Subset
<1>3. \A t : DueBy(t) = SumFunctionOnSet(Earned, Due(t)) /\ DueBy(t) \in Int
  BY KeptTypes DEF Due, DueBy
<1>4. \A t : Owe(t) \in Int
  <2>1. /\ \A t : SumFunctionOnSet(dated, By(t)) \in Int
        /\ free \in Int /\ escrow \in Int /\ withdrawn \in Nat
    BY BalanceTypes DEF TypeOK
  <2> QED
    BY <2>1 DEF Owe
<1>5. \A e : Of(e) \subseteq Order /\ IsFiniteSet(Of(e))
  <2>1. \A e : Of(e) \subseteq Order
    BY KeptTypes DEF Of
  <2> QED
    BY <2>1, ConstantTypes, FS_Subset
<1>6. \A e \in Event : earliest[e] \in Nat /\ date[e] \in Nat
  <2>1. \A d \in Date : d \in Nat
    BY BoundsAssumption DEF Date
  <2> QED
    BY <2>1 DEF TypeOK
<1> QED
  BY <1>1, <1>2, <1>3, <1>4, <1>5, <1>6

\* What is due only grows: with time, with sales, with the commissions given
\* back, and with the earliest dates.
LEMMA DueGrows ==
  ASSUME TypeOK, TypeOK', Sold \subseteq Sold',
         \A o \in Order : Earned[o] <= Earned'[o],
         \A e \in Event : earliest'[e] <= earliest[e],
         NEW t \in Int, NEW u \in Int, t <= u
  PROVE  DueBy(t) <= DueBy(u)' /\ DueBy(u)' \in Int
<1>1. PICK A, B, f, g : /\ A = Due(t) /\ B = {o \in Sold' : earliest'[EventOf[o]] <= u}
                        /\ f = Earned /\ g = Earned'
  OBVIOUS
<1>2. Sold' \subseteq Order
  BY DEF Sold
<1>3. B \subseteq Order /\ IsFiniteSet(B)
  <2>1. B \subseteq Order
    BY <1>1, <1>2
  <2> QED
    BY <2>1, ConstantTypes, FS_Subset
<1>4. A \subseteq B
  <2> SUFFICES ASSUME NEW o \in A PROVE o \in B
    OBVIOUS
  <2>1. o \in Sold /\ o \in Order /\ earliest[EventOf[o]] <= t
    BY <1>1, KeptTypes DEF Due
  <2>2. PICK e \in Event : e = EventOf[o]
    BY <2>1, ConstantTypes
  <2>3. PICK x \in Nat, y \in Nat : x = earliest[e] /\ y = earliest'[e]
    <3>1. \A d \in Date : d \in Nat
      BY BoundsAssumption DEF Date
    <3> QED
      BY <3>1 DEF TypeOK
  <2>4. y <= x /\ x <= t
    BY <2>1, <2>2, <2>3
  <2>5. y <= u
    BY <2>4
  <2> QED
    BY <1>1, <2>1, <2>2, <2>3, <2>5
<1>5. \A o \in Order : f[o] \in Nat
  BY <1>1, KeptTypes
<1>6. \A o \in Order : g[o] \in Nat
  <2>1. ASSUME NEW o \in Order PROVE Earned'[o] \in Nat
    <3>1. PICK back : back = (IF o \in restored' THEN Platform[o] ELSE 0)
      OBVIOUS
    <3>2. back \in Nat
      BY <3>1, ConstantTypes
    <3>3. Earned'[o] = Net(o) + back
      BY <3>1 DEF Earned
    <3> QED
      BY <3>2, <3>3, ConstantTypes
  <2> QED
    BY <1>1, <2>1
<1>7. \A o \in Order : f[o] <= g[o]
  BY <1>1
<1>8. SumFunctionOnSet(f, A) <= SumFunctionOnSet(g, B)
  <2>1. /\ \A x \in B : f[x] \in Int /\ g[x] \in Int
        /\ \A x \in A : f[x] <= g[x]
        /\ \A x \in B \ A : 0 <= g[x]
    BY <1>3, <1>4, <1>5, <1>6, <1>7
  <2> QED
    BY <1>3, <1>4, <2>1, SumLe
<1>11. SumFunctionOnSet(g, B) \in Int
  <2>1. (\A x \in Order : g[x] \in Int) /\ B \in SUBSET Order
    BY <1>3, <1>6
  <2> QED
    BY <2>1, ConstantTypes, SumIs
<1>9. DueBy(t) = SumFunctionOnSet(f, A)
  BY <1>1, DueTypes
<1>10. DueBy(u)' = SumFunctionOnSet(g, B)
  BY <1>1 DEF DueBy
<1> QED
  BY <1>8, <1>9, <1>10, <1>11

\* Nothing was sold or refunded.
LEMMA DueKeeps ==
  ASSUME TypeOK, TypeOK', sale' = sale, restored' = restored,
         \A e \in Event : earliest'[e] <= earliest[e],
         NEW t \in Int, NEW u \in Int, t <= u
  PROVE  DueBy(t) <= DueBy(u)' /\ DueBy(u)' \in Int
<1>1. Sold' = Sold /\ Earned' = Earned
  BY DEF Sold, Earned
<1>2. \A o \in Order : Earned[o] <= Earned'[o]
  <2>1. \A o \in Order : Earned[o] \in Nat
    BY KeptTypes
  <2> QED
    BY <1>1, <2>1
<1> QED
  BY <1>1, <1>2, DueGrows

LEMMA DatesStep ==
  ASSUME TypeOK, TypeOK', Dates, [Next]_vars
  PROVE  Dates' /\ \A e \in Event : earliest'[e] <= earliest[e]
<1>0. \A e \in Event : earliest[e] <= earliest[e]
  BY DueTypes
<1>1. CASE UNCHANGED <<date, earliest, reading>>
  BY <1>0, <1>1 DEF Dates
<1>2. ASSUME NEW o \in Order, SaleRead(o)
      PROVE  Dates' /\ \A e \in Event : earliest'[e] <= earliest[e]
  <2>1. /\ reading' = [reading EXCEPT ![o] = PocketOf(o)]
        /\ date' = date /\ earliest' = earliest
    BY <1>2 DEF SaleRead
  <2>2. PocketOf(o) \in Date => PocketOf(o) = date[EventOf[o]]
    <3>1. Undated \notin Date
      BY BoundsAssumption DEF Undated, Date
    <3> QED
      BY <3>1 DEF PocketOf
  <2>3. \A q \in Order : reading'[q] = IF q = o THEN PocketOf(o) ELSE reading[q]
    BY <2>1 DEF TypeOK
  <2>4. \A q \in Order : reading'[q] \in Date => earliest[EventOf[q]] <= reading'[q]
    BY <2>2, <2>3, ConstantTypes DEF Dates
  <2> QED
    BY <1>0, <2>1, <2>4 DEF Dates
<1>3. ASSUME NEW e \in Event, Reschedule(e)
      PROVE  Dates' /\ \A x \in Event : earliest'[x] <= earliest[x]
  <2>1. PICK d \in Date :
          /\ date' = [date EXCEPT ![e] = d]
          /\ earliest' = [earliest EXCEPT ![e] = IF d < @ THEN d ELSE @]
          /\ reading' = reading
    BY <1>3 DEF Reschedule, orders
  <2>2. /\ \A x \in Event \ {e} : date'[x] = date[x] /\ earliest'[x] = earliest[x]
        /\ date'[e] = d
        /\ earliest'[e] = IF d < earliest[e] THEN d ELSE earliest[e]
    BY <2>1 DEF TypeOK
  <2>3. PICK x \in Nat, y \in Nat : x = earliest[e] /\ y = earliest'[e]
    <3>1. \A z \in Date : z \in Nat
      BY BoundsAssumption DEF Date
    <3> QED
      BY <3>1 DEF TypeOK
  <2>4. d \in Nat /\ y = IF d < x THEN d ELSE x
    BY <2>2, <2>3, BoundsAssumption DEF Date
  <2>5. y <= x /\ y <= d
    BY <2>4
  <2>6. \A z \in Event : earliest'[z] <= earliest[z]
    BY <1>0, <2>2, <2>3, <2>5
  <2>7. \A z \in Event : earliest'[z] <= date'[z]
    BY <2>2, <2>3, <2>5 DEF Dates
  <2>8. ASSUME NEW o \in Order, reading'[o] \in Date
        PROVE  earliest'[EventOf[o]] <= reading'[o]
    <3>1. PICK z \in Event : z = EventOf[o]
      BY ConstantTypes
    <3>2. PICK a \in Nat, b \in Nat, c \in Nat :
            a = earliest[z] /\ b = earliest'[z] /\ c = reading[o]
      <4>1. \A w \in Date : w \in Nat
        BY BoundsAssumption DEF Date
      <4>2. reading[o] \in Date
        BY <2>1, <2>8
      <4> QED
        BY <4>1, <4>2 DEF TypeOK
    <3>3. b <= a
      BY <2>6, <3>2
    <3>4. a <= c
      BY <2>1, <2>8, <3>1, <3>2 DEF Dates
    <3>5. b <= c
      BY <3>3, <3>4
    <3> QED
      BY <2>1, <3>1, <3>2, <3>5
  <2> QED
    BY <2>6, <2>7, <2>8 DEF Dates
<1>4. ASSUME NEW o \in Order,
             SaleWrite(o) \/ \E fees \in BOOLEAN : Refund(o, fees)
      PROVE  UNCHANGED <<date, earliest, reading>>
  BY <1>4 DEF SaleWrite, Refund
<1>5. ASSUME NEW r \in Requester,
             RequestRead(r) \/ RequestWrite(r) \/ PayoutPaid(r) \/ PayoutFails(r)
      PROVE  UNCHANGED <<date, earliest, reading>>
  BY <1>5 DEF RequestRead, RequestWrite, PayoutPaid, PayoutFails, orders
<1>6. ASSUME NEW k \in Officer, FreezeRead(k) \/ UnfreezeRead(k) \/ FreezeWrite(k)
      PROVE  UNCHANGED <<date, earliest, reading>>
  BY <1>6 DEF FreezeRead, UnfreezeRead, FreezeWrite, orders
<1>7. ASSUME Verify \/ Tick \/ UNCHANGED vars
      PROVE  UNCHANGED <<date, earliest, reading>>
  BY <1>7 DEF Verify, Tick, vars, orders
<1> QED
  BY <1>1, <1>2, <1>3, <1>4, <1>5, <1>6, <1>7 DEF Next

\* What happens to the sums of an event: while the organisation is not
\* verified, a sale and a refund leave what is held equal to what was kept.
LEMMA BeforeSale ==
  ASSUME TypeOK, Unsold, Before, ~verified, NEW o \in Order, SaleWrite(o)
  PROVE  Before'
<1>1. PICK e \in Event : e = EventOf[o]
  BY ConstantTypes
<1>2. PICK n \in Int : n = Net(o)
  BY ConstantTypes
<1>3. reading[o] = Undated
  BY DEF Before, SaleWrite
<1>4. undated' = [undated EXCEPT ![e] = @ + n] /\ dated' = dated
  <2>1. Undated \notin Date
    BY BoundsAssumption DEF Undated, Date
  <2> QED
    BY <1>1, <1>2, <1>3, <2>1 DEF SaleWrite, Post
<1>5. ASSUME NEW x \in Event
      PROVE  undated'[x] = SumFunctionOnSet(Kept', Of(x)')
  <2>1. PICK S : S = Of(x)'
    OBVIOUS
  <2>2. S = {q \in Sold \cup {o} : EventOf[q] = x}
    BY <2>1, SaleSold DEF Of
  <2>3. undated[x] = SumFunctionOnSet(Kept, Of(x)) /\ undated[x] \in Int
    BY DEF Before, TypeOK
  <2>4. CASE x = e
    <3>1. o \in S /\ S \in SUBSET Order /\ S \ {o} = Of(x)
      BY <1>1, <2>2, <2>4, SaleSold, KeptTypes DEF Of
    <3>2. \A q \in Order : Kept[q] \in Int
      BY KeptTypes
    <3>3. SumFunctionOnSet(Kept, S) = Kept[o] + SumFunctionOnSet(Kept, S \ {o})
      BY <3>1, <3>2, ConstantTypes, SumIs
    <3>4. PICK s \in Int : s = undated[x]
      BY <2>3
    <3>5. SumFunctionOnSet(Kept, S) = n + s
      BY <1>2, <2>3, <3>1, <3>3, <3>4, SaleSold
    <3>6. undated'[x] = s + n
      BY <1>4, <2>4, <3>4 DEF TypeOK
    <3>7. n + s = s + n
      OBVIOUS
    <3> QED
      BY <2>1, <3>5, <3>6, <3>7, SaleSold
  <2>5. CASE x # e
    <3>1. S = Of(x)
      BY <1>1, <2>2, <2>5, SaleSold, KeptTypes DEF Of
    <3>2. undated'[x] = undated[x]
      BY <1>4, <2>5 DEF TypeOK
    <3> QED
      BY <2>1, <2>3, <3>1, <3>2, SaleSold
  <2> QED
    BY <2>4, <2>5
<1> QED
  BY <1>4, <1>5 DEF Before, SaleWrite

LEMMA BeforeRefund ==
  ASSUME TypeOK, Unsold, Before, ~verified,
         NEW o \in Order, NEW fees \in BOOLEAN, Refund(o, fees)
  PROVE  Before'
<1>1. PICK e \in Event : e = EventOf[o]
  BY ConstantTypes
<1>2. PICK amount \in Nat, back \in Nat :
        /\ Post(sale[o], EventOf[o], back - amount)
        /\ Kept'[o] = Kept[o] + (back - amount)
        /\ \A q \in Order \ {o} : Kept'[q] = Kept[q]
  BY RefundSold
<1>3. PICK n \in Int : n = back - amount
  OBVIOUS
<1>4. sale[o] = Undated
  BY RefundSold DEF Before, Refund
<1>5. undated' = [undated EXCEPT ![e] = @ + n] /\ dated' = dated
  <2>1. Undated \notin Date
    BY BoundsAssumption DEF Undated, Date
  <2> QED
    BY <1>1, <1>2, <1>3, <1>4, <2>1 DEF Post
<1>6. PICK g : g = Kept'
  OBVIOUS
<1>7. ASSUME NEW x \in Event
      PROVE  undated'[x] = SumFunctionOnSet(Kept', Of(x)')
  <2>1. PICK S : S = Of(x)
    OBVIOUS
  <2>2. S \subseteq Order /\ IsFiniteSet(S) /\ Of(x)' = S
    BY <2>1, DueTypes, RefundSold DEF Of
  <2>3. PICK s \in Int : s = undated[x] /\ s = SumFunctionOnSet(Kept, S)
    BY <2>1 DEF Before, TypeOK
  <2>4. \A q \in S : Kept[q] \in Int
    BY <2>2, KeptTypes
  <2>5. CASE x = e
    <3>1. o \in S
      BY <1>1, <2>1, <2>5, RefundSold DEF Of
    <3>2. /\ g[o] = Kept[o] + n
          /\ \A q \in S \ {o} : g[q] = Kept[q]
      BY <1>2, <1>3, <1>6, <2>2
    <3>3. \A q \in S : Kept[q] \in Int /\ g[q] \in Int
      BY <2>4, <3>1, <3>2
    <3>4. SumFunctionOnSet(g, S) = SumFunctionOnSet(Kept, S) + n
      <4>1. /\ o \in S /\ IsFiniteSet(S) /\ g[o] = Kept[o] + n
            /\ \A q \in S : Kept[q] \in Int /\ g[q] \in Int
            /\ \A q \in S \ {o} : g[q] = Kept[q]
        BY <2>2, <3>1, <3>2, <3>3
      <4> QED
        BY <4>1, SumChange
    <3>5. undated'[x] = s + n
      BY <1>5, <2>3, <2>5 DEF TypeOK
    <3> QED
      BY <1>6, <2>2, <2>3, <3>4, <3>5
  <2>6. CASE x # e
    <3>1. o \notin S
      BY <1>1, <2>1, <2>6 DEF Of
    <3>2. /\ \A q \in S : Kept[q] \in Int /\ g[q] \in Int
          /\ \A q \in S : g[q] = Kept[q]
      BY <1>2, <1>6, <2>2, <2>4, <3>1
    <3>3. SumFunctionOnSet(g, S) = SumFunctionOnSet(Kept, S)
      BY <2>2, <3>2, SumSame
    <3>4. undated'[x] = undated[x]
      BY <1>5, <2>6 DEF TypeOK
    <3> QED
      BY <1>6, <2>2, <2>3, <3>3, <3>4
  <2> QED
    BY <2>5, <2>6
<1> QED
  BY <1>5, <1>7 DEF Before, Refund

LEMMA BeforeKeeps ==
  ASSUME TypeOK, TypeOK', Before, verified' = verified, withdrawn' = withdrawn,
         free' + escrow' = free + escrow, dated' = dated, undated' = undated,
         request' = request, Sold' = Sold, Kept' = Kept,
         ~verified => \A o \in Order : reading'[o] \in {NoSale, Undated}
  PROVE  Before'
<1>1. \A e : Of(e)' = Of(e)
  BY DEF Of
<1> QED
  BY <1>1 DEF Before

LEMMA BeforeStep ==
  ASSUME TypeOK, TypeOK', Unsold, Before, [Next]_vars
  PROVE  Before'
<1> SUFFICES ASSUME ~verified, ~verified' PROVE Before'
  <2>1. CASE verified
    <3>1. verified'
      BY <2>1 DEF Next, vars, SaleRead, SaleWrite, Refund, Verify, RequestRead,
              RequestWrite, PayoutPaid, PayoutFails, FreezeRead, UnfreezeRead,
              FreezeWrite, Tick, Reschedule
    <3> QED
      BY <3>1 DEF Before
  <2>2. CASE verified'
    BY <2>2 DEF Before
  <2> QED
    BY <2>1, <2>2
<1>0. /\ \A o \in Order : reading[o] \in {NoSale, Undated}
      /\ \A r \in Requester : request[r].pc = "idle"
  BY DEF Before
<1>1. ASSUME NEW o \in Order, SaleRead(o) PROVE Before'
  <2>1. /\ UNCHANGED <<verified, pockets, sale, given, restored, withdrawn, request>>
        /\ reading' = [reading EXCEPT ![o] = Undated]
    BY <1>1 DEF SaleRead, PocketOf
  <2>2. \A q \in Order : reading'[q] \in {NoSale, Undated}
    BY <1>0, <2>1 DEF TypeOK
  <2> QED
    BY <2>1, <2>2, BeforeKeeps, SameSales DEF pockets
<1>2. ASSUME NEW o \in Order, SaleWrite(o) PROVE Before'
  BY <1>2, BeforeSale
<1>3. ASSUME NEW o \in Order, NEW fees \in BOOLEAN, Refund(o, fees) PROVE Before'
  BY <1>3, BeforeRefund
<1>4. ~Verify
  BY DEF Verify
<1>5. ASSUME NEW r \in Requester,
             RequestRead(r) \/ RequestWrite(r) \/ PayoutPaid(r) \/ PayoutFails(r)
      PROVE  FALSE
  BY <1>0, <1>5 DEF RequestRead, RequestWrite, PayoutPaid, PayoutFails
<1>6. ASSUME NEW k \in Officer, FreezeRead(k) \/ UnfreezeRead(k) \/ FreezeWrite(k)
      PROVE  Before'
  <2>1. /\ dated' = dated /\ undated' = undated /\ UNCHANGED orders
        /\ withdrawn' = withdrawn /\ free' + escrow' = free + escrow
    BY <1>6, FreezeMoves
  <2>2. UNCHANGED <<verified, request>>
    BY <1>6 DEF FreezeRead, UnfreezeRead, FreezeWrite
  <2> QED
    BY <1>0, <2>1, <2>2, BeforeKeeps, SameSales DEF orders
<1>7. CASE UNCHANGED vars \/ Tick \/ \E e \in Event : Reschedule(e)
  <2>1. UNCHANGED <<verified, pockets, orders, withdrawn, request>>
    BY <1>7 DEF vars, Tick, Reschedule
  <2> QED
    BY <1>0, <2>1, BeforeKeeps, SameSales DEF pockets, orders
<1> QED
  BY <1>1, <1>2, <1>3, <1>4, <1>5, <1>6, <1>7 DEF Next

\* What the sale brings is owed from a date that its event had.
LEMMA OwedSale ==
  ASSUME TypeOK, TypeOK', Unsold, Dates, Owed, NEW o \in Order, SaleWrite(o)
  PROVE  Owed'
<1> SUFFICES ASSUME NEW t \in 0..Horizon PROVE (Owe(t) <= DueBy(t))'
  BY DEF Owed
<1>0. t \in Int /\ t <= t
  BY BoundsAssumption
<1>1. PICK n \in Nat : n = Net(o)
  BY ConstantTypes
<1>2. PICK x \in Int, y \in Int, z \in Int, d \in Int :
        /\ x = withdrawn /\ y = escrow /\ z = free
        /\ d = SumFunctionOnSet(dated, By(t))
  BY BalanceTypes DEF TypeOK
<1>3. PICK u \in Int : u = DueBy(t) /\ x + y + z + d <= u
  BY <1>2, DueTypes DEF Owed, Owe
<1>4. SumFunctionOnSet(dated', By(t)) = d + (IF reading[o] \in By(t) THEN n ELSE 0)
  <2>1. /\ Post(reading[o], EventOf[o], n) /\ EventOf[o] \in Event
        /\ reading[o] \in {Undated} \cup Date
    BY <1>1, SaleSold, ConstantTypes DEF SaleWrite
  <2>2. PICK q \in {Undated} \cup Date : q = reading[o]
    BY <2>1
  <2>3. SumFunctionOnSet(dated', By(t)) = SumFunctionOnSet(dated, By(t))
          + (IF q \in By(t) THEN n ELSE 0)
    BY <1>1, <2>1, <2>2, PostSums
  <2> QED
    BY <1>2, <2>2, <2>3
<1>5. withdrawn' = x /\ escrow' = y /\ free' = z
  BY <1>2 DEF SaleWrite
<1>6. CASE reading[o] \in By(t)
  <2>1. Owe(t)' = x + y + z + (d + n)
    BY <1>4, <1>5, <1>6 DEF Owe
  <2>2. reading[o] \in Date /\ reading[o] <= t
    BY <1>6 DEF By
  <2>3. earliest[EventOf[o]] <= t
    <3>1. PICK a \in Nat, b \in Nat : a = earliest[EventOf[o]] /\ b = reading[o]
      <4>1. \A w \in Date : w \in Nat
        BY BoundsAssumption DEF Date
      <4> QED
        BY <2>2, <4>1, ConstantTypes, DueTypes
    <3>2. a <= b /\ b <= t
      BY <2>2, <3>1 DEF Dates
    <3>3. a <= t
      BY <1>0, <3>2
    <3> QED
      BY <3>1, <3>3
  <2>4. PICK S : S = Due(t) \cup {o}
    OBVIOUS
  <2>5. S = {q \in Sold' : earliest'[EventOf[q]] <= t}
    BY <2>3, <2>4, SaleSold DEF Due, SaleWrite
  <2>6. o \in S /\ S \in SUBSET Order /\ S \ {o} = Due(t)
    BY <2>4, SaleSold, DueTypes
  <2>7. \A q \in Order : Earned[q] \in Int
    BY KeptTypes
  <2>8. SumFunctionOnSet(Earned, S) = Earned[o] + SumFunctionOnSet(Earned, S \ {o})
    BY <2>6, <2>7, ConstantTypes, SumIs
  <2>9. SumFunctionOnSet(Earned, S) = n + u
    BY <1>1, <1>3, <2>6, <2>8, DueTypes, SaleSold
  <2>10. DueBy(t)' = n + u
    BY <2>5, <2>9, SaleSold DEF DueBy
  <2>11. x + y + z + (d + n) <= n + u
    BY <1>3
  <2> QED
    BY <2>1, <2>10, <2>11
<1>7. CASE reading[o] \notin By(t)
  <2>1. SumFunctionOnSet(dated', By(t)) = d + 0 /\ d + 0 = d
    BY <1>4, <1>7
  <2>2. Owe(t)' = x + y + z + d
    BY <1>5, <2>1 DEF Owe
  <2>3. u <= DueBy(t)' /\ DueBy(t)' \in Int
    <3>1. Sold \subseteq Sold' /\ Earned' = Earned /\ earliest' = earliest
      BY SaleSold DEF SaleWrite
    <3>2. /\ \A q \in Order : Earned[q] <= Earned'[q]
          /\ \A e \in Event : earliest'[e] <= earliest[e]
      <4>1. /\ \A q \in Order : Earned[q] \in Nat
            /\ \A e \in Event : earliest[e] \in Nat
        BY KeptTypes, DueTypes
      <4> QED
        BY <3>1, <4>1
    <3> QED
      BY <1>0, <1>3, <3>1, <3>2, DueGrows
  <2>4. PICK v \in Int : v = DueBy(t)'
    BY <2>3
  <2>5. x + y + z + d <= v
    BY <1>3, <2>3, <2>4
  <2> QED
    BY <2>2, <2>4, <2>5
<1> QED
  BY <1>6, <1>7

\* A sum one of whose terms grows.
LEMMA SumGain ==
  ASSUME NEW S, IsFiniteSet(S), NEW f, NEW g, \A y \in S : f[y] \in Int /\ g[y] \in Int
  PROVE  \A x \in S : \A a \in Nat :
           g[x] = f[x] + a /\ (\A y \in S \ {x} : g[y] = f[y])
             => SumFunctionOnSet(g, S) = SumFunctionOnSet(f, S) + a
<1> SUFFICES ASSUME NEW x \in S, NEW a \in Int, a \in Nat, g[x] = f[x] + a,
                    \A y \in S \ {x} : g[y] = f[y]
             PROVE  SumFunctionOnSet(g, S) = SumFunctionOnSet(f, S) + a
  OBVIOUS
<1> QED
  BY SumChange

\* A refund takes from what is owed in the pocket of its sale, and what it gives
\* back of the commission is due with the sale.
LEMMA OwedRefund ==
  ASSUME TypeOK, TypeOK', Unsold, Dates, Owed,
         NEW o \in Order, NEW fees \in BOOLEAN, Refund(o, fees)
  PROVE  Owed'
<1> SUFFICES ASSUME NEW t \in 0..Horizon PROVE (Owe(t) <= DueBy(t))'
  BY DEF Owed
<1>0. t \in Int /\ t <= t
  BY BoundsAssumption
<1>1. PICK amount \in Nat, back \in Nat :
        /\ Post(sale[o], EventOf[o], back - amount)
        /\ Earned'[o] = Earned[o] + back
        /\ \A q \in Order \ {o} : Earned'[q] = Earned[q]
  BY RefundSold
<1>2. PICK x \in Int, y \in Int, z \in Int, d \in Int :
        /\ x = withdrawn /\ y = escrow /\ z = free
        /\ d = SumFunctionOnSet(dated, By(t))
  BY BalanceTypes DEF TypeOK
<1>3. PICK u \in Int : u = DueBy(t) /\ x + y + z + d <= u
  BY <1>2, DueTypes DEF Owed, Owe
<1>4. PICK q \in {Undated} \cup Date : q = sale[o] /\ q = reading[o]
  BY RefundSold
<1>5. PICK n \in Int : n = back - amount
  OBVIOUS
<1>6. SumFunctionOnSet(dated', By(t)) = d + (IF q \in By(t) THEN n ELSE 0)
  <2>1. Post(q, EventOf[o], n) /\ EventOf[o] \in Event
    BY <1>1, <1>4, <1>5, ConstantTypes
  <2> QED
    BY <1>2, <2>1, PostSums
<1>7. withdrawn' = x /\ escrow' = y /\ free' = z
  BY <1>2 DEF Refund
<1>8. PICK f, g : f = Earned /\ g = Earned'
  OBVIOUS
<1>9. /\ \A p \in Order : f[p] \in Nat /\ g[p] \in Nat /\ f[p] <= g[p]
      /\ g[o] = f[o] + back
      /\ \A p \in Order \ {o} : g[p] = f[p]
  <2>1. \A p \in Order : f[p] \in Nat
    BY <1>8, KeptTypes
  <2>2. g[o] = f[o] + back /\ \A p \in Order \ {o} : g[p] = f[p]
    BY <1>1, <1>8
  <2>3. g[o] \in Nat /\ f[o] <= g[o]
    BY <2>1, <2>2
  <2> QED
    BY <2>1, <2>2, <2>3
<1>10. CASE q \in By(t)
  <2>1. Owe(t)' = x + y + z + (d + n)
    BY <1>6, <1>7, <1>10 DEF Owe
  <2>2. q \in Date /\ q <= t
    BY <1>10 DEF By
  <2>3. earliest[EventOf[o]] <= t
    <3>1. PICK a \in Nat, b \in Nat : a = earliest[EventOf[o]] /\ b = reading[o]
      <4>1. \A w \in Date : w \in Nat
        BY BoundsAssumption DEF Date
      <4> QED
        BY <1>4, <2>2, <4>1, ConstantTypes, DueTypes
    <3>2. a <= b /\ b <= t
      BY <1>4, <2>2, <3>1 DEF Dates
    <3>3. a <= t
      BY <1>0, <3>2
    <3> QED
      BY <3>1, <3>3
  <2>4. PICK S : S = Due(t)
    OBVIOUS
  <2>5. S = {p \in Sold' : earliest'[EventOf[p]] <= t}
    BY <2>4, RefundSold DEF Due, Refund
  <2>6. o \in S /\ S \subseteq Order /\ IsFiniteSet(S)
    BY <2>3, <2>4, RefundSold, DueTypes DEF Due
  <2>7. SumFunctionOnSet(g, S) = SumFunctionOnSet(f, S) + back
    <3>1. \A p \in S : f[p] \in Int /\ g[p] \in Int
      BY <1>9, <2>6
    <3>2. \A p \in S \ {o} : g[p] = f[p]
      BY <1>9, <2>6
    <3> QED
      BY <1>9, <2>6, <3>1, <3>2, SumGain
  <2>8. SumFunctionOnSet(f, S) = u
    BY <1>3, <1>8, <2>4, DueTypes
  <2>9. DueBy(t)' = u + back
    BY <1>8, <2>5, <2>7, <2>8 DEF DueBy
  <2>10. x + y + z + (d + n) <= u + back
    BY <1>3, <1>5
  <2> QED
    BY <2>1, <2>9, <2>10
<1>11. CASE q \notin By(t)
  <2>1. SumFunctionOnSet(dated', By(t)) = d + 0 /\ d + 0 = d
    BY <1>6, <1>11
  <2>2. Owe(t)' = x + y + z + d
    BY <1>7, <2>1 DEF Owe
  <2>3. u <= DueBy(t)' /\ DueBy(t)' \in Int
    <3>1. Sold \subseteq Sold' /\ earliest' = earliest
      BY RefundSold DEF Refund
    <3>2. /\ \A p \in Order : Earned[p] <= Earned'[p]
          /\ \A e \in Event : earliest'[e] <= earliest[e]
      BY <1>8, <1>9, <3>1, DueTypes
    <3> QED
      BY <1>0, <1>3, <3>1, <3>2, DueGrows
  <2>4. PICK v \in Int : v = DueBy(t)'
    BY <2>3
  <2>5. x + y + z + d <= v
    BY <1>3, <2>3, <2>4
  <2> QED
    BY <2>2, <2>4, <2>5
<1> QED
  BY <1>10, <1>11

\* The verification dates what was held: each event's part of it comes from its
\* own sales, due by then.
LEMMA OwedVerify ==
  ASSUME TypeOK, TypeOK', Unsold, Dates, Before, Verify
  PROVE  Owed'
<1> SUFFICES ASSUME NEW t \in 0..Horizon PROVE (Owe(t) <= DueBy(t))'
  BY DEF Owed
<1>0. t \in Int
  BY BoundsAssumption
<1>1. /\ withdrawn = 0 /\ free + escrow = 0
      /\ \A d \in Date : dated[d] = 0
      /\ \A e \in Event : undated[e] = SumFunctionOnSet(Kept, Of(e))
  BY DEF Before, Verify
<1>2. PICK E : E = {e \in HeldOf : date[e] \in By(t)}
  OBVIOUS
<1>3. E \subseteq Event /\ IsFiniteSet(E)
  <2>1. E \subseteq Event
    BY <1>2 DEF HeldOf
  <2> QED
    BY <2>1, ConstantTypes, FS_Subset
<1>4. SumFunctionOnSet(dated', By(t)) = SumFunctionOnSet(dated, By(t))
        + SumFunctionOnSet(undated, E)
  BY <1>2, Moved
<1>5. SumFunctionOnSet(dated, By(t)) = 0
  <2>1. PICK B : B = By(t)
    OBVIOUS
  <2>2. B \subseteq Date /\ IsFiniteSet(B)
    BY <2>1, ConstantTypes, FS_Subset
  <2>3. (\A d \in B : dated[d] = 0 /\ dated[d] \in Int) /\ {} \in SUBSET B
    BY <1>1, <2>2
  <2>4. SumFunctionOnSet(dated, {}) = 0
    BY <2>2, <2>3, SumIs
  <2>5. SumFunctionOnSet(dated, {}) = SumFunctionOnSet(dated, B)
    BY <2>2, <2>3, SumSame
  <2> QED
    BY <2>1, <2>4, <2>5
<1>6. PICK A : A = {o \in Sold : EventOf[o] \in E}
  OBVIOUS
<1>7. SumFunctionOnSet(undated, E) = SumFunctionOnSet(Kept, A)
  <2>1. PICK k : k = [i \in E |-> SumFunctionOnSet(Kept, {o \in Sold : EventOf[o] = i})]
    OBVIOUS
  <2>2. SumFunctionOnSet(k, E) = SumFunctionOnSet(Kept, A)
    <3>1. IsFiniteSet(Sold) /\ \A o \in Sold : Kept[o] \in Int
      BY KeptTypes
    <3>2. PICK S : S = Sold
      OBVIOUS
    <3>3. /\ IsFiniteSet(S) /\ \A o \in S : Kept[o] \in Int
          /\ k = [i \in E |-> SumFunctionOnSet(Kept, {o \in S : EventOf[o] = i})]
          /\ A = {o \in S : EventOf[o] \in E}
      BY <1>6, <2>1, <3>1, <3>2
    <3> QED
      BY <1>3, <3>3, SumParts
  <2>3. \A e \in E : undated[e] = k[e] /\ undated[e] \in Int /\ k[e] \in Int
    <3>1. \A e \in E : undated[e] = k[e]
      BY <1>1, <1>3, <2>1 DEF Of
    <3>2. \A e \in E : undated[e] \in Int
      BY <1>3 DEF TypeOK
    <3> QED
      BY <3>1, <3>2
  <2>4. SumFunctionOnSet(undated, E) = SumFunctionOnSet(k, E)
    BY <1>3, <2>3, SumSame
  <2> QED
    BY <2>2, <2>4
<1>8. A \subseteq Due(t)
  <2> SUFFICES ASSUME NEW o \in A PROVE o \in Due(t)
    OBVIOUS
  <2>1. PICK e \in Event : e = EventOf[o] /\ o \in Sold /\ date[e] \in By(t)
    BY <1>2, <1>3, <1>6
  <2>2. PICK a \in Nat, b \in Nat : a = earliest[e] /\ b = date[e]
    BY DueTypes
  <2>3. a <= b /\ b <= t
    BY <2>1, <2>2 DEF Dates, By
  <2>4. a <= t
    BY <1>0, <2>3
  <2> QED
    BY <2>1, <2>2, <2>4 DEF Due
<1>9. SumFunctionOnSet(Kept, A) <= SumFunctionOnSet(Earned, Due(t))
  <2>1. PICK S : S = Due(t)
    OBVIOUS
  <2>2. S \subseteq Order /\ IsFiniteSet(S) /\ A \in SUBSET S
    BY <1>8, <2>1, DueTypes
  <2>3. /\ \A o \in S : Kept[o] \in Int /\ Earned[o] \in Int
        /\ \A o \in A : Kept[o] <= Earned[o]
        /\ \A o \in S \ A : 0 <= Earned[o]
    BY <2>2, KeptTypes
  <2>4. SumFunctionOnSet(Kept, A) <= SumFunctionOnSet(Earned, S)
    BY <2>2, <2>3, SumLe
  <2> QED
    BY <2>1, <2>4
<1>10. DueBy(t)' = DueBy(t)
  <2>1. Sold' = Sold /\ Earned' = Earned /\ earliest' = earliest
    BY SameSales DEF Verify, orders
  <2> QED
    BY <2>1 DEF DueBy
<1>11. PICK s, u \in Int : /\ s = SumFunctionOnSet(undated, E) /\ u = DueBy(t)
                           /\ s <= u
  <2>1. PICK s : s = SumFunctionOnSet(undated, E)
    OBVIOUS
  <2>2. s \in Int
    <3>1. (\A e \in Event : undated[e] \in Int) /\ E \in SUBSET Event
      BY <1>3 DEF TypeOK
    <3> QED
      BY <2>1, <3>1, ConstantTypes, SumIs
  <2>3. s <= DueBy(t)
    BY <1>7, <1>9, <2>1, DueTypes
  <2> QED
    BY <2>1, <2>2, <2>3, DueTypes
<1>12. PICK y \in Int, z \in Int : y = escrow /\ z = free /\ z + y = 0
  BY <1>1 DEF TypeOK
<1>13. Owe(t)' = 0 + y + z + (0 + s)
  BY <1>1, <1>4, <1>5, <1>11, <1>12 DEF Owe, Verify
<1>14. 0 + y + z + (0 + s) <= u
  BY <1>11, <1>12
<1> QED
  BY <1>10, <1>11, <1>13, <1>14

\* Nothing was sold or refunded, and money only moved.
LEMMA OwedKeeps ==
  ASSUME TypeOK, TypeOK', Owed, sale' = sale, restored' = restored,
         \A e \in Event : earliest'[e] <= earliest[e], dated' = dated,
         free' + escrow' + withdrawn' = free + escrow + withdrawn
  PROVE  Owed'
<1> SUFFICES ASSUME NEW t \in 0..Horizon PROVE (Owe(t) <= DueBy(t))'
  BY DEF Owed
<1>0. t \in Int /\ t <= t
  BY BoundsAssumption
<1>1. PICK x \in Int, y \in Int, z \in Int, d \in Int :
        /\ x = withdrawn /\ y = escrow /\ z = free
        /\ d = SumFunctionOnSet(dated, By(t))
  BY BalanceTypes DEF TypeOK
<1>2. PICK a \in Int, b \in Int, c \in Int :
        a = withdrawn' /\ b = escrow' /\ c = free'
  <2>1. withdrawn' \in Int /\ escrow' \in Int /\ free' \in Int
    BY DEF TypeOK
  <2> QED
    BY <2>1
<1>3. c + b + a = z + y + x
  BY <1>1, <1>2, Zenon
<1>4. PICK u \in Int : u = DueBy(t) /\ x + y + z + d <= u
  BY <1>1, DueTypes DEF Owed, Owe
<1>5. PICK v \in Int : v = DueBy(t)' /\ u <= v
  BY <1>0, <1>4, DueKeeps
<1>6. Owe(t)' = a + b + c + d
  BY <1>1, <1>2 DEF Owe
<1>7. a + b + c + d <= v
  BY <1>3, <1>4, <1>5
<1> QED
  BY <1>5, <1>6, <1>7

LEMMA OwedStep ==
  ASSUME TypeOK, TypeOK', Unsold, Dates, Before, Owed, [Next]_vars
  PROVE  Owed'
<1>0. \A e \in Event : earliest'[e] <= earliest[e]
  BY DatesStep
<1>1. ASSUME NEW o \in Order, SaleRead(o) PROVE Owed'
  <2>1. /\ UNCHANGED <<pockets, withdrawn>>
        /\ sale' = sale /\ restored' = restored
    BY <1>1 DEF SaleRead
  <2> QED
    BY <1>0, <2>1, OwedKeeps DEF pockets
<1>2. ASSUME NEW o \in Order, SaleWrite(o) PROVE Owed'
  BY <1>2, OwedSale
<1>3. ASSUME NEW o \in Order, NEW fees \in BOOLEAN, Refund(o, fees) PROVE Owed'
  BY <1>3, OwedRefund
<1>4. CASE Verify
  BY <1>4, OwedVerify
<1>5. ASSUME NEW r \in Requester,
             RequestRead(r) \/ RequestWrite(r) \/ PayoutPaid(r) \/ PayoutFails(r)
      PROVE  Owed'
  <2>1. /\ dated' = dated /\ UNCHANGED orders
        /\ escrow' = escrow /\ free' + withdrawn' = free + withdrawn
    BY <1>5, RequestMoves
  <2>2. free' + escrow' + withdrawn' = free + escrow + withdrawn
    <3>1. PICK a \in Int, b \in Int, c \in Int, d \in Int, f \in Int :
            /\ a = free /\ b = escrow /\ c = withdrawn
            /\ d = free' /\ f = withdrawn'
      <4>1. free' \in Int /\ withdrawn' \in Int
        BY DEF TypeOK
      <4> QED
        BY <4>1 DEF TypeOK
    <3>2. d + f = a + c
      BY <2>1, <3>1, Zenon
    <3>3. d + b + f = a + b + c
      BY <3>2
    <3> QED
      BY <2>1, <3>1, <3>3, Zenon
  <2> QED
    BY <1>0, <2>1, <2>2, OwedKeeps DEF orders
<1>6. ASSUME NEW k \in Officer, FreezeRead(k) \/ UnfreezeRead(k) \/ FreezeWrite(k)
      PROVE  Owed'
  <2>1. /\ dated' = dated /\ UNCHANGED orders
        /\ withdrawn' = withdrawn /\ free' + escrow' = free + escrow
    BY <1>6, FreezeMoves
  <2> QED
    BY <1>0, <2>1, OwedKeeps DEF orders
<1>7. CASE UNCHANGED vars \/ Tick \/ \E e \in Event : Reschedule(e)
  <2>1. UNCHANGED <<pockets, orders, withdrawn>>
    BY <1>7 DEF vars, Tick, Reschedule
  <2> QED
    BY <1>0, <2>1, OwedKeeps DEF pockets, orders
<1> QED
  BY <1>1, <1>2, <1>3, <1>4, <1>5, <1>6, <1>7 DEF Next

OwedInv == Unsold /\ Conserved /\ Dates /\ Before /\ Owed

LEMMA OwedInit == Init => OwedInv
<1> SUFFICES ASSUME Init PROVE OwedInv
  OBVIOUS
<1>0. TypeOK
  BY TypeInit
<1>1. Sold = {}
  BY DEF Init, Sold
<1>2. Unsold /\ Conserved
  BY ConservedInit
<1>3. Dates
  <2>1. NoSale \notin Date
    BY BoundsAssumption DEF NoSale, Date
  <2>2. \A e \in Event : earliest[e] \in Nat /\ earliest[e] = date[e]
    BY <1>0, DueTypes DEF Init
  <2> QED
    BY <2>1, <2>2 DEF Init, Dates
<1>4. SumFunctionOnSet(Kept, {}) = 0 /\ SumFunctionOnSet(Earned, {}) = 0
  BY <1>0, KeptTypes, ConstantTypes, SumIs
<1>5. Before
  <2>1. \A e : Of(e) = {}
    BY <1>1 DEF Of
  <2>2. \A e \in Event : undated[e] = SumFunctionOnSet(Kept, Of(e))
    BY <1>4, <2>1 DEF Init
  <2>3. \A r \in Requester : request[r].pc = "idle"
    BY DEF Init, Resting
  <2>4. withdrawn = 0 /\ free + escrow = 0
    BY DEF Init
  <2> QED
    BY <2>2, <2>3, <2>4 DEF Init, Before
<1>6. Owed
  <2> SUFFICES ASSUME NEW t \in 0..Horizon PROVE Owe(t) <= DueBy(t)
    BY DEF Owed
  <2>1. DueBy(t) = 0
    <3>1. Due(t) = {}
      BY <1>1 DEF Due
    <3> QED
      BY <1>0, <1>4, <3>1, DueTypes
  <2>2. SumFunctionOnSet(dated, By(t)) = 0
    <3>1. PICK B : B = By(t)
      OBVIOUS
    <3>2. B \subseteq Date /\ IsFiniteSet(B)
      BY <3>1, ConstantTypes, FS_Subset
    <3>3. (\A d \in B : dated[d] = 0 /\ dated[d] \in Int) /\ {} \in SUBSET B
      BY <3>2 DEF Init
    <3>4. SumFunctionOnSet(dated, {}) = 0
      BY <3>2, <3>3, SumIs
    <3>5. SumFunctionOnSet(dated, {}) = SumFunctionOnSet(dated, B)
      BY <3>2, <3>3, SumSame
    <3> QED
      BY <3>1, <3>4, <3>5
  <2>3. withdrawn = 0 /\ escrow = 0 /\ free = 0
    BY DEF Init
  <2>4. Owe(t) = 0 + 0 + 0 + 0
    BY <2>2, <2>3 DEF Owe
  <2> QED
    BY <2>1, <2>4
<1> QED
  BY <1>2, <1>3, <1>5, <1>6 DEF OwedInv

LEMMA OwedInvStep ==
  ASSUME TypeOK, TypeOK', OwedInv, [Next]_vars
  PROVE  OwedInv'
BY ConservedStep, DatesStep, BeforeStep, OwedStep DEF OwedInv

\* However the sales, refunds, requests, freezes and changes of date overlap,
\* what was withdrawn, is set apart or will be available on a day is no more
\* than what the sales due by that day brought: a freeze or a verification
\* never brings the money of a sale forward.
THEOREM OwedCorrect == Spec => []Owed
<1> DEFINE I == TypeOK /\ Debited /\ OwedInv
<1>1. Init => I
  BY TypeInit, OwedInit
<1>2. I /\ [Next]_vars => I'
  BY TypeStep, OwedInvStep
<1>3. I => Owed
  BY DEF OwedInv
<1> QED
  BY <1>1, <1>2, <1>3, PTL DEF Spec

-----------------------------------------------------------------------------
(* One request at a time *)

OneRequester == \A r, q \in Requester : r = q
OneOfficer == \A k, q \in Officer : k = q

\* What is read is still there when it is written.
Alone ==
  /\ escrow >= 0
  /\ \A k \in Officer : office[k].pc = "unfreeze" => office[k].amount <= escrow
  /\ withdrawn <= DueBy(now)
  /\ \A r \in Requester :
       request[r].pc = "read" => withdrawn + request[r].amount <= DueBy(now)

LEMMA AloneInit == Init => Alone
<1> SUFFICES ASSUME Init PROVE Alone
  OBVIOUS
<1>1. TypeOK
  BY TypeInit
<1>2. DueBy(now) = 0
  <2>1. Due(now) = {}
    BY DEF Init, Due, Sold
  <2>2. SumFunctionOnSet(Earned, {}) = 0
    BY <1>1, KeptTypes, ConstantTypes, SumIs
  <2> QED
    BY <1>1, <2>1, <2>2, DueTypes
<1>3. escrow = 0 /\ withdrawn = 0
  BY DEF Init
<1>4. /\ \A r \in Requester : request[r].pc = "idle"
      /\ \A k \in Officer : office[k].pc = "idle"
  BY DEF Init, Resting
<1> QED
  BY <1>2, <1>3, <1>4 DEF Alone

\* The bound of a withdrawal grows with every step.
LEMMA BoundGrows ==
  ASSUME TypeOK, TypeOK', Unsold, Dates, [Next]_vars
  PROVE  /\ DueBy(now) \in Int /\ DueBy(now)' \in Int
         /\ DueBy(now) <= DueBy(now)'
<1>1. \A e \in Event : earliest'[e] <= earliest[e]
  BY DatesStep
<1>2. PICK t \in Int, u \in Int : t = now /\ u = now' /\ t <= u
  <2>1. now \in Int /\ now' \in Int
    <3>1. now \in 0..Horizon /\ now' \in 0..Horizon
      BY DEF TypeOK
    <3> QED
      BY <3>1, BoundsAssumption
  <2>2. now' = now \/ now' = now + 1
    BY DEF Next, vars, SaleRead, SaleWrite, Refund, Verify, RequestRead,
           RequestWrite, PayoutPaid, PayoutFails, FreezeRead, UnfreezeRead,
           FreezeWrite, Tick, Reschedule
  <2>3. now <= now'
    BY <2>1, <2>2
  <2> QED
    BY <2>1, <2>3
<1>3. Sold \subseteq Sold' /\ \A o \in Order : Earned[o] <= Earned'[o]
  <2>1. \A o \in Order : Earned[o] \in Nat
    BY KeptTypes
  <2>2. ASSUME NEW o \in Order, SaleWrite(o)
        PROVE  Sold \subseteq Sold' /\ Earned' = Earned
    BY <2>2, SaleSold
  <2>3. ASSUME NEW o \in Order, NEW fees \in BOOLEAN, Refund(o, fees)
        PROVE  Sold' = Sold /\ \A q \in Order : Earned[q] <= Earned'[q]
    <3>1. PICK back \in Nat :
            /\ Earned'[o] = Earned[o] + back
            /\ \A q \in Order \ {o} : Earned'[q] = Earned[q]
      BY <2>3, RefundSold
    <3>2. PICK x \in Nat : x = Earned[o]
      BY <2>1
    <3>3. Earned[o] <= Earned'[o]
      BY <3>1, <3>2
    <3>4. \A q \in Order \ {o} : Earned[q] <= Earned'[q]
      BY <2>1, <3>1
    <3> QED
      BY <2>3, <3>3, <3>4, RefundSold
  <2>4. ASSUME NEW o \in Order, SaleRead(o) PROVE Sold' = Sold /\ Earned' = Earned
    BY <2>4, SameSales DEF SaleRead
  <2>5. CASE UNCHANGED orders
    BY <2>1, <2>5, SameSales DEF orders
  <2>6. ASSUME NEW r \in Requester,
               RequestRead(r) \/ RequestWrite(r) \/ PayoutPaid(r) \/ PayoutFails(r)
        PROVE  UNCHANGED orders
    BY <2>6, RequestMoves
  <2>7. ASSUME NEW k \in Officer, FreezeRead(k) \/ UnfreezeRead(k) \/ FreezeWrite(k)
        PROVE  UNCHANGED orders
    BY <2>7, FreezeMoves
  <2>8. ASSUME Verify \/ Tick \/ (\E e \in Event : Reschedule(e)) \/ UNCHANGED vars
        PROVE  UNCHANGED orders
    BY <2>8 DEF Verify, Tick, Reschedule, vars
  <2> QED
    BY <2>1, <2>2, <2>3, <2>4, <2>5, <2>6, <2>7, <2>8 DEF Next
<1>4. DueBy(t) <= DueBy(u)' /\ DueBy(u)' \in Int
  BY <1>1, <1>2, <1>3, DueGrows
<1>5. DueBy(now)' = DueBy(u)'
  BY <1>2 DEF DueBy
<1> QED
  BY <1>2, <1>4, <1>5, DueTypes

LEMMA AloneKeeps ==
  ASSUME TypeOK, TypeOK', Alone, Unsold, Dates, [Next]_vars,
         withdrawn' = withdrawn, request' = request
  PROVE  /\ withdrawn' <= DueBy(now)'
         /\ \A r \in Requester : request'[r].pc = "read" =>
              withdrawn' + request'[r].amount <= DueBy(now)'
<1>1. PICK u \in Int, v \in Int, w \in Nat :
        u = DueBy(now) /\ v = DueBy(now)' /\ u <= v /\ w = withdrawn
  BY BoundGrows DEF TypeOK
<1>2. w <= u
  BY <1>1 DEF Alone
<1>3. w <= v
  BY <1>1, <1>2
<1>4. ASSUME NEW r \in Requester, request[r].pc = "read"
      PROVE  w + request[r].amount <= v
  <2>1. PICK x \in Nat : x = request[r].amount
    BY DEF TypeOK
  <2>2. w + x <= u
    BY <1>1, <1>4, <2>1 DEF Alone
  <2>3. w + x <= v
    BY <1>1, <2>2
  <2> QED
    BY <2>1, <2>3
<1> QED
  BY <1>1, <1>3, <1>4

LEMMA AloneRequest ==
  ASSUME OneRequester, TypeOK, TypeOK', OwedInv, Alone, [Next]_vars,
         NEW r \in Requester,
         RequestRead(r) \/ RequestWrite(r) \/ PayoutPaid(r) \/ PayoutFails(r)
  PROVE  Alone'
<1>0. \A q \in Requester : q = r
  BY DEF OneRequester
<1>1. PICK u \in Int, v \in Int, w \in Nat, x \in Nat :
        /\ u = DueBy(now) /\ v = DueBy(now)' /\ u <= v
        /\ w = withdrawn /\ x = request[r].amount
  <2>1. DueBy(now) \in Int /\ DueBy(now)' \in Int /\ DueBy(now) <= DueBy(now)'
    BY BoundGrows DEF OwedInv
  <2>2. withdrawn \in Nat /\ request[r].amount \in Nat
    BY DEF TypeOK
  <2> QED
    BY <2>1, <2>2
<1>2. w <= u /\ (request[r].pc = "read" => w + x <= u)
  BY <1>1 DEF Alone
<1>3. escrow' = escrow /\ office' = office
  BY DEF RequestRead, RequestWrite, PayoutPaid, PayoutFails, pockets
<1>4. SUFFICES /\ withdrawn' <= v
               /\ request'[r].pc = "read" => withdrawn' + request'[r].amount <= v
  BY <1>0, <1>1, <1>3 DEF Alone
<1>5. CASE RequestRead(r)
  <2>1. PICK a \in {MinPayout, Available} :
          request' = [request EXCEPT ![r] = [pc |-> "read", amount |-> a]]
    BY <1>5 DEF RequestRead
  <2>2. PICK y \in Int, z \in Int, d \in Int :
          y = escrow /\ z = free /\ d = SumFunctionOnSet(dated, By(now))
    BY BalanceTypes DEF TypeOK
  <2>3. a \in Int /\ a <= z + d
    <3>1. Available = z + d /\ MinPayout \in Int
      BY <2>2, BalanceTypes, BoundsAssumption
    <3>2. MinPayout <= z + d
      BY <1>5, <3>1 DEF RequestRead
    <3> QED
      BY <2>2, <3>1, <3>2
  <2>4. w + y + z + d <= u
    <3>1. now \in 0..Horizon
      BY DEF TypeOK
    <3>2. Owe(now) <= DueBy(now)
      BY <3>1 DEF OwedInv, Owed
    <3> QED
      BY <1>1, <2>2, <3>2 DEF Owe
  <2>5. 0 <= y
    BY <2>2 DEF Alone, TypeOK
  <2>6. w <= v /\ w + a <= v
    BY <1>1, <1>2, <2>3, <2>4, <2>5
  <2>7. request'[r].amount = a /\ withdrawn' = w
    BY <1>1, <1>5, <2>1 DEF TypeOK, RequestRead
  <2> QED
    BY <2>6, <2>7
<1>6. CASE RequestWrite(r)
  <2>1. withdrawn' = w + x /\ request'[r].pc = "debited"
    BY <1>1, <1>6 DEF RequestWrite, TypeOK
  <2>2. w + x <= v
    BY <1>1, <1>2, <1>6 DEF RequestWrite
  <2> QED
    BY <2>1, <2>2
<1>7. CASE PayoutPaid(r) \/ PayoutFails(r)
  <2>1. withdrawn' = w \/ withdrawn' = w - x
    BY <1>1, <1>7 DEF PayoutPaid, PayoutFails
  <2>2. request'[r].pc = "idle"
    BY <1>7 DEF PayoutPaid, PayoutFails, Resting, TypeOK
  <2>3. w <= v /\ w - x <= v
    BY <1>1, <1>2
  <2> QED
    BY <2>1, <2>2, <2>3
<1> QED
  BY <1>5, <1>6, <1>7

LEMMA AloneOffice ==
  ASSUME OneOfficer, TypeOK, TypeOK', OwedInv, Alone, [Next]_vars,
         NEW k \in Officer, FreezeRead(k) \/ UnfreezeRead(k) \/ FreezeWrite(k)
  PROVE  Alone'
<1>0. \A q \in Officer : q = k
  BY DEF OneOfficer
<1>1. withdrawn' = withdrawn /\ request' = request
  BY DEF FreezeRead, UnfreezeRead, FreezeWrite
<1>2. PICK x \in Nat, y \in Int : x = office[k].amount /\ y = escrow /\ 0 <= y
  BY DEF Alone, TypeOK
<1>3. /\ 0 <= escrow'
      /\ office'[k].pc = "unfreeze" => office'[k].amount <= escrow'
  <2>1. CASE FreezeRead(k)
    <3>1. escrow' = y /\ office'[k].pc = "freeze"
      BY <1>2, <2>1 DEF FreezeRead, pockets, TypeOK
    <3> QED
      BY <1>2, <3>1
  <2>2. CASE UnfreezeRead(k)
    <3>1. PICK a \in {1, escrow} :
            office' = [office EXCEPT ![k] = [pc |-> "unfreeze", amount |-> a]]
      BY <2>2 DEF UnfreezeRead
    <3>2. office'[k].amount = a /\ escrow' = y /\ y > 0
      BY <1>2, <2>2, <3>1 DEF UnfreezeRead, pockets, TypeOK
    <3>3. a <= y
      BY <1>2, <3>2
    <3> QED
      BY <1>2, <3>2, <3>3
  <2>3. CASE FreezeWrite(k)
    <3>1. office'[k].pc = "idle"
      BY <2>3 DEF FreezeWrite, Resting, TypeOK
    <3>2. office[k].pc \in {"freeze", "unfreeze"}
      BY <2>3 DEF FreezeWrite, TypeOK
    <3>3. CASE office[k].pc = "freeze"
      <4>1. escrow' = y + x
        BY <1>2, <2>3, <3>3 DEF FreezeWrite
      <4>2. 0 <= y + x
        BY <1>2
      <4> QED
        BY <3>1, <4>1, <4>2
    <3>4. CASE office[k].pc = "unfreeze"
      <4>1. escrow' = y + (-x)
        BY <1>2, <2>3, <3>4 DEF FreezeWrite
      <4>2. x <= y
        BY <1>2, <3>4 DEF Alone
      <4>3. 0 <= y + (-x)
        BY <4>2
      <4> QED
        BY <3>1, <4>1, <4>3
    <3> QED
      BY <3>2, <3>3, <3>4
  <2> QED
    BY <2>1, <2>2, <2>3
<1>4. escrow' >= 0
  <2>1. escrow' \in Int
    BY DEF TypeOK
  <2> QED
    BY <1>3, <2>1
<1> QED
  BY <1>0, <1>1, <1>3, <1>4, AloneKeeps DEF Alone, OwedInv

LEMMA AloneStep ==
  ASSUME OneRequester, OneOfficer, TypeOK, TypeOK', OwedInv, Alone, [Next]_vars
  PROVE  Alone'
<1>1. ASSUME NEW r \in Requester,
             RequestRead(r) \/ RequestWrite(r) \/ PayoutPaid(r) \/ PayoutFails(r)
      PROVE  Alone'
  BY <1>1, AloneRequest
<1>2. ASSUME NEW k \in Officer, FreezeRead(k) \/ UnfreezeRead(k) \/ FreezeWrite(k)
      PROVE  Alone'
  BY <1>2, AloneOffice
<1>3. CASE UNCHANGED <<withdrawn, request, escrow, office>>
  BY <1>3, AloneKeeps DEF Alone, OwedInv
<1>4. ASSUME NEW o \in Order,
             SaleRead(o) \/ SaleWrite(o) \/ \E fees \in BOOLEAN : Refund(o, fees)
      PROVE  UNCHANGED <<withdrawn, request, escrow, office>>
  BY <1>4 DEF SaleRead, SaleWrite, Refund, pockets
<1>5. ASSUME Verify \/ Tick \/ (\E e \in Event : Reschedule(e)) \/ UNCHANGED vars
      PROVE  UNCHANGED <<withdrawn, request, escrow, office>>
  BY <1>5 DEF Verify, Tick, Reschedule, vars, pockets
<1> QED
  BY <1>1, <1>2, <1>3, <1>4, <1>5 DEF Next

\* Where requests follow one another, and so do freezes, an organisation never
\* withdraws before it is verified, nor more than the sales already due have
\* brought.  With two requests under way it may withdraw the same money twice,
\* since neither reads the balance again when it writes.
THEOREM HeldUntilDueCorrect ==
  ASSUME OneRequester, OneOfficer
  PROVE  Spec => []HeldUntilDue
<1> DEFINE I == TypeOK /\ Debited /\ OwedInv /\ Alone
<1>1. Init => I
  BY TypeInit, OwedInit, AloneInit
<1>2. I /\ [Next]_vars => I'
  <2> SUFFICES ASSUME I, [Next]_vars PROVE I'
    OBVIOUS
  <2>1. TypeOK' /\ Debited'
    BY TypeStep
  <2>2. OwedInv'
    BY <2>1, OwedInvStep
  <2>3. Alone'
    BY <2>1, AloneStep
  <2> QED
    BY <2>1, <2>2, <2>3
<1>3. I => HeldUntilDue
  BY DEF OwedInv, Before, Alone, HeldUntilDue
<1> QED
  BY <1>1, <1>2, <1>3, PTL DEF Spec
=============================================================================
