---------------------------- MODULE ThreadLemmas ----------------------------
(***************************************************************************)
(* What the proofs keep needing about a finite set of threads, as facts    *)
(* about constants: how the number of threads at some points changes when  *)
(* one thread moves, how a sum over the threads changes when one of its    *)
(* terms does or one is added, and induction over numbers and over finite  *)
(* sets, for a set of numbers or of sets instead of a predicate.           *)
(***************************************************************************)
EXTENDS Integers, FiniteSets, FiniteSetTheorems, WellFoundedInduction, TLAPS

(* A set of natural numbers has a least element. *)
LEMMA LeastNatural ==
  ASSUME NEW S \in SUBSET Nat, S # {}
  PROVE  \E x \in S : \A y \in S : x <= y
<1> DEFINE R == OpToRel(<, Nat)
<1>1. IsWellFoundedOn(R, Nat)
  BY NatLessThanWellFounded, Zenon
<1>2. \A x, y \in Nat : x < y => <<x, y>> \in R
  BY DEF OpToRel
<1> HIDE DEF R
<1>3. PICK x \in S : \A y \in S : ~ (<<y, x>> \in R)
  BY <1>1, WFMin
<1>4. ASSUME NEW y \in S PROVE x <= y
  <2>1. x \in Nat /\ y \in Nat /\ ~(y < x)
    BY <1>2, <1>3, Zenon
  <2> QED BY <2>1
<1> QED BY <1>4

(* A set with 0 and with the successors of its members has every number. *)
LEMMA NumberInduction ==
  ASSUME NEW S, 0 \in S, \A n \in Nat : n \in S => n + 1 \in S
  PROVE  \A n \in Nat : n \in S
<1> SUFFICES ASSUME Nat \ S # {} PROVE FALSE
  OBVIOUS
<1>1. PICK x \in Nat \ S : \A y \in Nat \ S : x <= y
  BY LeastNatural
<1>2. x \in Nat /\ x # 0 /\ x - 1 \in Nat
  BY <1>1
<1>3. x - 1 \in S
  BY <1>1, <1>2
<1> QED BY <1>1, <1>2, <1>3

(* A family of sets with the empty one, closed under adding an element of  *)
(* a finite set, has that finite set.                                      *)
LEMMA SetInduction ==
  ASSUME NEW T, IsFiniteSet(T), NEW F, {} \in F,
         \A A \in SUBSET T : \A t \in T \ A : A \in F => A \cup {t} \in F
  PROVE  T \in F
<1> DEFINE N == {n \in Nat : \A A \in SUBSET T : Cardinality(A) = n => A \in F}
<1>1. 0 \in N
  <2>1. ASSUME NEW A \in SUBSET T, Cardinality(A) = 0 PROVE A = {}
    BY <2>1, FS_Subset, FS_EmptySet
  <2> QED BY <2>1
<1>2. ASSUME NEW n \in Nat, n \in N PROVE n + 1 \in N
  <2> SUFFICES ASSUME NEW A \in SUBSET T, Cardinality(A) = n + 1 PROVE A \in F
    OBVIOUS
  <2>1. IsFiniteSet(A) /\ A # {}
    BY FS_Subset, FS_EmptySet
  <2>2. PICK t : t \in A
    BY <2>1
  <2>3. Cardinality(A \ {t}) = n
    <3>1. Cardinality(A \ {t}) = Cardinality(A) - 1
      BY <2>1, <2>2, FS_RemoveElement
    <3> QED BY <3>1
  <2>4. A \ {t} \in F
    BY <1>2, <2>3
  <2>5. (A \ {t}) \cup {t} = A /\ t \in T \ (A \ {t}) /\ A \ {t} \in SUBSET T
    BY <2>2
  <2> QED BY <2>4, <2>5
<1> HIDE DEF N
<1>3. \A n \in Nat : n \in N
  BY <1>1, <1>2, NumberInduction
<1>4. Cardinality(T) \in N
  BY <1>3, FS_CardinalityType
<1> QED BY <1>4 DEF N

(* Finitely many natural numbers have a bound. *)
LEMMA NumbersBounded ==
  ASSUME NEW T, IsFiniteSet(T), NEW v, \A t \in T : v[t] \in Nat
  PROVE  \E B \in Nat : \A t \in T : v[t] \in 0 .. B
<1> DEFINE F == {A \in SUBSET T : \E B \in Nat : \A t \in A : v[t] \in 0 .. B}
<1>1. {} \in F
  OBVIOUS
<1>2. ASSUME NEW A \in SUBSET T, NEW t \in T \ A, A \in F PROVE A \cup {t} \in F
  <2>1. PICK B \in Nat : \A u \in A : v[u] \in 0 .. B
    BY <1>2
  <2>2. B + v[t] \in Nat /\ v[t] \in 0 .. (B + v[t])
    OBVIOUS
  <2>3. \A u \in A : v[u] \in 0 .. (B + v[t])
    BY <2>1
  <2> QED BY <2>2, <2>3
<1> HIDE DEF F
<1>3. T \in F
  BY <1>1, <1>2, SetInduction
<1> QED BY <1>3 DEF F
-----------------------------------------------------------------------------
(* The threads of T that the function f takes into P. *)
At(T, f, P) == {t \in T : f[t] \in P}

(* Their number is a natural number, at most the number of threads. *)
LEMMA CountNat ==
  ASSUME NEW T, IsFiniteSet(T), NEW f, NEW P
  PROVE  /\ IsFiniteSet(At(T, f, P))
         /\ Cardinality(At(T, f, P)) \in Nat
         /\ Cardinality(T) \in Nat
         /\ Cardinality(At(T, f, P)) <= Cardinality(T)
<1>1. At(T, f, P) \in SUBSET T
  BY DEF At
<1> QED BY <1>1, FS_Subset, FS_CardinalityType

(* It is zero exactly when there is none. *)
LEMMA CountZero ==
  ASSUME NEW T, IsFiniteSet(T), NEW f, NEW P
  PROVE  Cardinality(At(T, f, P)) = 0 <=> \A t \in T : f[t] \notin P
<1>1. Cardinality(At(T, f, P)) = 0 <=> At(T, f, P) = {}
  BY CountNat, FS_EmptySet
<1> QED BY <1>1 DEF At

(* How the number changes when only thread t moves. *)
LEMMA CountMoves ==
  ASSUME NEW T, IsFiniteSet(T), NEW f, NEW g, NEW P, NEW t \in T,
         \A u \in T : u # t => g[u] = f[u]
  PROVE  Cardinality(At(T, g, P)) =
           Cardinality(At(T, f, P)) + (IF g[t] \in P THEN 1 ELSE 0)
                                    - (IF f[t] \in P THEN 1 ELSE 0)
<1> DEFINE A == At(T, f, P)
           B == At(T, g, P)
<1> SUFFICES Cardinality(B) = Cardinality(A) + (IF g[t] \in P THEN 1 ELSE 0)
                                            - (IF f[t] \in P THEN 1 ELSE 0)
  OBVIOUS
<1>1. IsFiniteSet(A) /\ Cardinality(A) \in Nat
  BY CountNat
<1>2. t \in A <=> f[t] \in P
  BY DEF At
<1>3. CASE g[t] \in P
  <2>1. B = A \cup {t}
    BY <1>3 DEF At
  <2>2. Cardinality(B) = IF t \in A THEN Cardinality(A) ELSE Cardinality(A) + 1
    BY <1>1, <2>1, FS_AddElement
  <2> HIDE DEF A, B
  <2> QED BY <1>1, <1>2, <1>3, <2>2
<1>4. CASE g[t] \notin P
  <2>1. B = A \ {t}
    BY <1>4 DEF At
  <2>2. Cardinality(B) = IF t \in A THEN Cardinality(A) - 1 ELSE Cardinality(A)
    BY <1>1, <2>1, FS_RemoveElement
  <2> HIDE DEF A, B
  <2> QED BY <1>1, <1>2, <1>4, <2>2
<1> QED BY <1>3, <1>4
-----------------------------------------------------------------------------
(* The sum of the natural numbers v[t] for t in A, as the number of the    *)
(* units that make them up.  (A number of elements needs no recursion.)    *)
Units(A, v) == {p \in A \X Nat : p[2] < v[p[1]]}

Tally(A, v) == Cardinality(Units(A, v))

(* The units are finitely many when the v[t] have a bound. *)
LEMMA TallyNat ==
  ASSUME NEW A, IsFiniteSet(A), NEW B \in Nat, NEW v,
         \A t \in A : v[t] \in 0 .. B
  PROVE  IsFiniteSet(Units(A, v)) /\ Tally(A, v) \in Nat
<1>0. IsFiniteSet(0 .. B)
  BY FS_Interval
<1>1. IsFiniteSet(A \X (0 .. B))
  BY <1>0, FS_Product
<1>2. Units(A, v) \in SUBSET (A \X (0 .. B))
  BY DEF Units
<1> QED BY <1>1, <1>2, FS_Subset, FS_CardinalityType DEF Tally

(* A sum of no terms is 0. *)
LEMMA TallyEmpty ==
  ASSUME NEW v
  PROVE  Tally({}, v) = 0
<1>1. Units({}, v) = {}
  BY DEF Units
<1> QED BY <1>1, FS_EmptySet DEF Tally

(* So is a sum of zeros. *)
LEMMA TallyZero ==
  ASSUME NEW A, NEW v, \A t \in A : v[t] = 0
  PROVE  Tally(A, v) = 0
<1>1. Units(A, v) = {}
  BY DEF Units
<1> QED BY <1>1, FS_EmptySet DEF Tally

(* A sum depends on its terms only. *)
LEMMA TallySame ==
  ASSUME NEW A, NEW v, NEW w, \A t \in A : w[t] = v[t]
  PROVE  Tally(A, w) = Tally(A, v)
<1>1. Units(A, w) = Units(A, v)
  BY DEF Units
<1> QED BY <1>1 DEF Tally

(* There are n numbers below n. *)
LEMMA BelowCount ==
  ASSUME NEW n \in Nat
  PROVE  IsFiniteSet(0 .. n - 1) /\ Cardinality(0 .. n - 1) = n
<1>1. 0 \in Int /\ n - 1 \in Int
  OBVIOUS
<1>2. /\ IsFiniteSet(0 .. n - 1)
      /\ Cardinality(0 .. n - 1) = IF 0 > n - 1 THEN 0 ELSE n - 1 - 0 + 1
  BY <1>1, FS_Interval
<1> QED BY <1>2

(* A sum of equal terms is a product. *)
LEMMA TallyConstant ==
  ASSUME NEW A, IsFiniteSet(A), NEW n \in Nat, NEW v, \A t \in A : v[t] = n
  PROVE  Tally(A, v) = Cardinality(A) * n
<1>1. Units(A, v) = A \X (0 .. n - 1)
  BY DEF Units
<1>2. PICK B : B = 0 .. n - 1 /\ IsFiniteSet(B) /\ Cardinality(B) = n
  BY BelowCount
<1>3. Cardinality(A \X B) = Cardinality(A) * Cardinality(B)
  BY ONLY IsFiniteSet(A), <1>2, FS_Product
<1> QED BY <1>1, <1>2, <1>3 DEF Tally

(* A term more is added. *)
LEMMA TallyAdd ==
  ASSUME NEW A, IsFiniteSet(A), NEW B \in Nat, NEW v, NEW t,
         t \notin A, \A u \in A \cup {t} : v[u] \in 0 .. B
  PROVE  Tally(A \cup {t}, v) = Tally(A, v) + v[t]
<1> DEFINE U == Units(A, v)
           V == {t} \X (0 .. v[t] - 1)
<1>1. IsFiniteSet(U) /\ Cardinality(U) \in Nat
  BY TallyNat DEF Tally
<1>2. IsFiniteSet(V) /\ Cardinality(V) = v[t]
  <2>1. v[t] \in Nat
    OBVIOUS
  <2>2. IsFiniteSet({t}) /\ Cardinality({t}) = 1
    BY FS_Singleton
  <2>3. IsFiniteSet(0 .. v[t] - 1) /\ Cardinality(0 .. v[t] - 1) = v[t]
    BY <2>1, BelowCount
  <2> QED BY <2>1, <2>2, <2>3, FS_Product
<1>3. Units(A \cup {t}, v) = U \cup V
  <2>1. v[t] \in Nat
    OBVIOUS
  <2>2. ASSUME NEW p \in Units(A \cup {t}, v) PROVE p \in U \cup V
    BY <2>1, <2>2 DEF Units
  <2>3. ASSUME NEW p \in U \cup V PROVE p \in Units(A \cup {t}, v)
    BY <2>1, <2>3 DEF Units
  <2> QED BY <2>2, <2>3
<1>4. U \cap V = {}
  BY DEF Units
<1>5. Cardinality(U \cup V) = Cardinality(U) + Cardinality(V) - 0
  BY <1>1, <1>2, <1>4, FS_Union, FS_EmptySet
<1> HIDE DEF U, V
<1>6. Cardinality(U \cup V) = Cardinality(U) + v[t]
  BY <1>1, <1>2, <1>5
<1> QED BY <1>3, <1>6 DEF Tally, U

(* Larger terms, and more of them, make a larger sum. *)
LEMMA TallyMonotone ==
  ASSUME NEW C, IsFiniteSet(C), NEW A \in SUBSET C, NEW B \in Nat, NEW v, NEW w,
         \A t \in C : w[t] \in 0 .. B,
         \A t \in A : v[t] \in Int /\ v[t] <= w[t]
  PROVE  Tally(A, v) <= Tally(C, w)
<1>1. Units(A, v) \in SUBSET Units(C, w)
  BY DEF Units
<1> QED BY <1>1, TallyNat, FS_Subset DEF Tally

(* A term can be taken out of a sum. *)
LEMMA TallyTake ==
  ASSUME NEW A, IsFiniteSet(A), NEW B \in Nat, NEW v, NEW t \in A,
         \A u \in A : v[u] \in 0 .. B
  PROVE  /\ Tally(A, v) = Tally(A \ {t}, v) + v[t]
         /\ Tally(A \ {t}, v) \in Nat
<1> DEFINE D == A \ {t}
<1>1. IsFiniteSet(D) /\ t \notin D /\ D \cup {t} = A /\ D \subseteq A
  BY FS_RemoveElement
<1> SUFFICES Tally(A, v) = Tally(D, v) + v[t] /\ Tally(D, v) \in Nat
  OBVIOUS
<1> HIDE DEF D
<1>2. Tally(D \cup {t}, v) = Tally(D, v) + v[t]
  <2>1. \A u \in D \cup {t} : v[u] \in 0 .. B
    BY <1>1
  <2> QED BY <1>1, <2>1, TallyAdd
<1>3. Tally(D, v) \in Nat
  BY <1>1, TallyNat
<1> QED BY <1>1, <1>2, <1>3

(* A term is at most the sum. *)
LEMMA TallyTerm ==
  ASSUME NEW A, IsFiniteSet(A), NEW B \in Nat, NEW v, NEW t \in A,
         \A u \in A : v[u] \in 0 .. B
  PROVE  v[t] <= Tally(A, v)
<1>1. /\ Tally(A, v) = Tally(A \ {t}, v) + v[t]
      /\ Tally(A \ {t}, v) \in Nat
  BY TallyTake
<1>2. v[t] \in Nat
  OBVIOUS
<1> QED BY <1>1, <1>2

(* One term grows by one. *)
LEMMA TallyIncrement ==
  ASSUME NEW A, IsFiniteSet(A), NEW B \in Nat, NEW v, NEW w, NEW t \in A,
         w[t] = v[t] + 1,
         \A u \in A : u # t => w[u] = v[u],
         \A u \in A : v[u] \in 0 .. B /\ w[u] \in 0 .. B
  PROVE  Tally(A, w) = Tally(A, v) + 1
<1>1. /\ Tally(A, v) = Tally(A \ {t}, v) + v[t]
      /\ Tally(A \ {t}, v) \in Nat
  BY TallyTake
<1>2. Tally(A, w) = Tally(A \ {t}, w) + w[t]
  BY TallyTake
<1>3. Tally(A \ {t}, w) = Tally(A \ {t}, v)
  BY TallySame
<1>4. v[t] \in Int
  OBVIOUS
<1> QED BY <1>1, <1>2, <1>3, <1>4
=============================================================================
