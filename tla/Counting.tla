------------------------------ MODULE Counting ------------------------------
(***************************************************************************)
(* Facts about the sizes of finite sets that the proofs of the reference   *)
(* counts share: b_count, f_count, i_count and mem_map all say how many    *)
(* there are of something, and a step changes one of it; about unions; the *)
(* least of some numbers; and remainders, for indices that wrap.           *)
(***************************************************************************)
EXTENDS Integers, FiniteSets, FiniteSetsExt, FiniteSetTheorems, WellFoundedInduction,
        TLAPS

(* Two sets that differ in x at most differ in size by whether x is in.    *)
LEMMA ChangeOne ==
  ASSUME NEW S, NEW T, NEW x, IsFiniteSet(S), S \ {x} = T \ {x}
  PROVE  /\ IsFiniteSet(T)
         /\ Cardinality(S) \in Nat /\ Cardinality(T) \in Nat
         /\ Cardinality(T) = Cardinality(S) - (IF x \in S THEN 1 ELSE 0)
                                            + (IF x \in T THEN 1 ELSE 0)
<1> DEFINE R == S \ {x}
<1>1. IsFiniteSet(R)
  BY FS_RemoveElement
<1>2. IsFiniteSet(R \cup {x}) /\ Cardinality(R \cup {x}) = Cardinality(R) + 1
  BY <1>1, FS_AddElement
<1>3. /\ x \in S => S = R \cup {x}
      /\ x \notin S => S = R
      /\ x \in T => T = R \cup {x}
      /\ x \notin T => T = R
  OBVIOUS
<1>4. Cardinality(R) \in Nat
  BY <1>1, FS_CardinalityType
<1> HIDE DEF R
<1>5. Cardinality(S) = Cardinality(R) + (IF x \in S THEN 1 ELSE 0)
  <2>1. CASE x \in S
    BY <1>2, <1>3, <2>1
  <2>2. CASE x \notin S
    BY <1>3, <1>4, <2>2
  <2>3. QED
    BY <2>1, <2>2
<1>6. Cardinality(T) = Cardinality(R) + (IF x \in T THEN 1 ELSE 0)
  <2>1. CASE x \in T
    BY <1>2, <1>3, <2>1
  <2>2. CASE x \notin T
    BY <1>3, <1>4, <2>2
  <2>3. QED
    BY <2>1, <2>2
<1>7. IsFiniteSet(T)
  BY <1>1, <1>2, <1>3
<1>8. QED
  BY <1>4, <1>5, <1>6, <1>7

(* The part of a finite set that has a property is finite, and empty when  *)
(* there are none of it.                                                   *)
LEMMA CountPart ==
  ASSUME NEW S, NEW T \in SUBSET S, IsFiniteSet(S)
  PROVE  /\ IsFiniteSet(T) /\ Cardinality(T) \in Nat
         /\ Cardinality(T) <= Cardinality(S)
         /\ Cardinality(T) = 0 <=> T = {}
         /\ \A x : T = {x} => Cardinality(T) = 1
<1>1. IsFiniteSet(T) /\ Cardinality(T) <= Cardinality(S)
  BY FS_Subset
<1>2. Cardinality(T) \in Nat /\ (Cardinality(T) = 0 <=> T = {})
  BY <1>1, FS_CardinalityType, FS_EmptySet
<1>3. QED
  BY <1>1, <1>2, FS_Singleton

(* The least of some natural numbers is one of them.                       *)
LEMMA NatMin ==
  ASSUME NEW T \in SUBSET Nat, T # {}
  PROVE  Min(T) \in T /\ \A y \in T : Min(T) <= y
<1>1. PICK x \in T : \A y \in T : ~(<<y, x>> \in {ss \in Nat \X Nat : ss[1] < ss[2]})
  BY NatLessThanWellFounded, WFMin DEF OpToRel
<1>2. \A y \in T : x <= y
  <2> SUFFICES ASSUME NEW y \in T PROVE x <= y
    OBVIOUS
  <2>1. ~(y < x)
    BY <1>1
  <2>2. QED
    BY <2>1
<1>3. QED
  BY <1>2 DEF Min

(* The remainder of what is off a range by less than its length.           *)
LEMMA ModNear ==
  ASSUME NEW n \in Nat \ {0}, NEW a \in -n .. (2 * n - 1)
  PROVE  a % n = IF a < 0 THEN a + n ELSE IF a < n THEN a ELSE a - n
<1>1. \A b \in 0 .. (n - 1) : b % n = b /\ (b + n) % n = b /\ (b - n) % n = b
  OBVIOUS
<1>2. CASE a < 0
  <2>1. a + n \in 0 .. (n - 1) /\ a = (a + n) - n
    BY <1>2
  <2>2. QED
    BY <1>1, <1>2, <2>1
<1>3. CASE a >= 0 /\ a < n
  BY <1>1, <1>3
<1>4. CASE a >= n
  <2>1. a - n \in 0 .. (n - 1) /\ a = (a - n) + n
    BY <1>4
  <2>2. QED
    BY <1>1, <1>4, <2>1
<1>5. QED
  BY <1>2, <1>3, <1>4

(* A set of one is known by any of its elements.                           *)
LEMMA OnlyOne ==
  ASSUME NEW S, IsFiniteSet(S), Cardinality(S) = 1, NEW x \in S
  PROVE  S = {x}
<1> DEFINE R == S \ {x}
<1>1. IsFiniteSet(R) /\ Cardinality(R) = 0
  BY FS_RemoveElement
<1>2. R = {}
  BY <1>1, FS_EmptySet
<1>3. QED
  BY <1>2

(* Pairs that begin with t are as many as the second halves they have.     *)
LEMMA AddRow ==
  ASSUME NEW S, IsFiniteSet(S), NEW A, IsFiniteSet(A), NEW t, S \cap ({t} \X A) = {}
  PROVE  /\ IsFiniteSet(S \cup ({t} \X A))
         /\ Cardinality(S \cup ({t} \X A)) = Cardinality(S) + Cardinality(A)
<1> DEFINE T == {t} \X A
<1>1. IsFiniteSet({t}) /\ Cardinality({t}) = 1
  BY FS_Singleton
<1>2. IsFiniteSet(T) /\ Cardinality(T) = Cardinality({t}) * Cardinality(A)
  BY <1>1, FS_Product
<1>3. Cardinality(S) \in Nat /\ Cardinality(A) \in Nat
  BY FS_CardinalityType
<1>4. Cardinality(T) = Cardinality(A)
  BY <1>1, <1>2, <1>3
<1> HIDE DEF T
<1>5. Cardinality(S \cap T) = 0
  BY FS_EmptySet DEF T
<1>6. /\ IsFiniteSet(S \cup T)
      /\ Cardinality(S \cup T) = Cardinality(S) + Cardinality(T) - Cardinality(S \cap T)
  BY <1>2, FS_Union
<1>7. QED
  BY <1>3, <1>4, <1>5, <1>6 DEF T

(* Sets that have m elements at most have m times as many together.        *)
LEMMA UnionFew ==
  ASSUME NEW S, IsFiniteSet(S), NEW m \in Nat, NEW f,
         \A x \in S : IsFiniteSet(f[x]) /\ Cardinality(f[x]) <= m
  PROVE  /\ IsFiniteSet(UNION {f[x] : x \in S})
         /\ Cardinality(UNION {f[x] : x \in S}) <= Cardinality(S) * m
<1> DEFINE All(T) == UNION {f[x] : x \in T}
           Few(T) == IsFiniteSet(All(T)) /\ Cardinality(All(T)) <= Cardinality(T) * m
           Bad == {k \in Nat : \E T \in SUBSET S : Cardinality(T) = k /\ ~Few(T)}
<1>1. Bad = {}
  <2>1. SUFFICES ASSUME Bad # {} PROVE FALSE
    OBVIOUS
  <2>2. PICK k \in Bad : \A j \in Bad : k <= j
    <3>1. Bad \in SUBSET Nat
      OBVIOUS
    <3> HIDE DEF Bad
    <3>2. QED
      BY <2>1, <3>1, NatMin
  <2>3. PICK T \in SUBSET S : Cardinality(T) = k /\ ~Few(T)
    OBVIOUS
  <2>4. IsFiniteSet(T)
    BY FS_Subset
  <2>5. CASE T = {}
    <3>1. All(T) = {}
      BY <2>5
    <3>2. IsFiniteSet(All(T)) /\ Cardinality(All(T)) = 0 /\ Cardinality(T) = 0
      BY <2>5, <3>1, FS_EmptySet
    <3> HIDE DEF All, Bad
    <3>3. 0 * m = 0
      OBVIOUS
    <3>4. QED
      BY <2>3, <3>2, <3>3
  <2>6. CASE T # {}
    <3>1. PICK t \in T : TRUE
      BY <2>6
    <3> DEFINE U == T \ {t}
    <3>2. IsFiniteSet(U) /\ Cardinality(U) = k - 1 /\ k - 1 \in Nat /\ U \in SUBSET S
      <4>1. IsFiniteSet(U) /\ Cardinality(U) = Cardinality(T) - 1
        BY <2>4, <3>1, FS_RemoveElement
      <4>2. Cardinality(U) \in Nat /\ U \in SUBSET S
        BY <4>1, FS_CardinalityType
      <4> HIDE DEF U
      <4>3. QED
        BY <2>3, <4>1, <4>2
    <3>3. Few(U)
      <4>1. k \in Nat
        OBVIOUS
      <4>2. ~(k <= k - 1)
        BY <4>1
      <4>3. k - 1 \notin Bad
        BY <2>2, <4>2
      <4> HIDE DEF Few, U
      <4>4. QED
        BY <3>2, <4>3
    <3> DEFINE A == All(U)
               F == f[t]
    <3>4. All(T) = A \cup F
      BY <3>1
    <3>5. /\ IsFiniteSet(A) /\ Cardinality(A) <= (k - 1) * m
          /\ IsFiniteSet(F) /\ Cardinality(F) <= m
      BY <3>1, <3>2, <3>3
    <3> HIDE DEF A, F
    <3>6. /\ IsFiniteSet(A \cup F)
          /\ Cardinality(A \cup F) = Cardinality(A) + Cardinality(F) - Cardinality(A \cap F)
      BY <3>5, FS_Union
    <3>7. Cardinality(A \cap F) \in Nat /\ Cardinality(A) \in Nat /\ Cardinality(F) \in Nat
      BY <3>5, FS_Intersection, FS_CardinalityType
    <3>8. (k - 1) * m + m = k * m
      <4>1. k \in Nat
        OBVIOUS
      <4> HIDE DEF Bad
      <4>2. QED
        BY <4>1
    <3>9. Cardinality(A \cup F) <= k * m
      <4>1. (k - 1) * m \in Int /\ k * m \in Int
        BY <3>2
      <4> HIDE DEF Bad
      <4>2. QED
        BY <3>5, <3>6, <3>7, <3>8, <4>1
    <3> HIDE DEF All
    <3>10. QED
      BY <2>3, <3>4, <3>6, <3>9
  <2>7. QED
    BY <2>5, <2>6
<1>2. IsFiniteSet(S) /\ Cardinality(S) \in Nat
  BY FS_CardinalityType
<1> HIDE DEF Few
<1>3. Few(S)
  BY <1>1, <1>2
<1>4. QED
  BY <1>3 DEF Few
=============================================================================
