---------------------------- MODULE SysbenchProofs ---------------------------
(***************************************************************************)
(* What sysbench.c promises.  Startup: for any command line, configuration *)
(* files, drivers and ranges the options are as given, a test runs as it   *)
(* was configured, and the numbers a script draws are sound.  RunTest: for *)
(* any number of runner threads, requests and checkpoints run_test ends    *)
(* every thread it started and silences reports before the last one.       *)
(***************************************************************************)
EXTENDS Startup, RunTest, ThreadLemmas

(* Arithmetic: what the generators divide and wrap. *)

(* What the division of an integer leaves. *)
LEMMA Division ==
  ASSUME NEW k \in Int, NEW n \in Nat \ {0}
  PROVE  k \div n \in Int /\ k % n \in 0 .. n - 1 /\ k = (k \div n) * n + (k % n)
  OBVIOUS

(* The remainder is the only number below the divisor that is left. *)
LEMMA Remainder ==
  ASSUME NEW q \in Int, NEW n \in Nat \ {0}, NEW r \in 0 .. n - 1, NEW k \in Int,
         k = q * n + r
  PROVE  k % n = r
  OBVIOUS

(* The larger of two products of a positive number has the larger factor. *)
LEMMA Factor ==
  ASSUME NEW n \in Nat \ {0}, NEW c \in Int, NEW d \in Int, d * n < (c + 1) * n
  PROVE  d <= c
<1> SUFFICES ASSUME d >= c + 1 PROVE FALSE
  OBVIOUS
<1>1. PICK e \in Nat : d = c + 1 + e
  <2>1. d - c - 1 \in Nat /\ d = c + 1 + (d - c - 1)
    OBVIOUS
  <2> QED BY <2>1
<1>2. d * n = (c + 1) * n + e * n
  BY <1>1
<1>3. e * n \in Nat
  OBVIOUS
<1> QED BY <1>2, <1>3

(* A quotient of a natural number lies between 0 and what its dividend is  *)
(* below.                                                                  *)
LEMMA QuotientBelow ==
  ASSUME NEW x \in Nat, NEW n \in Nat \ {0}, NEW c \in Int, x < (c + 1) * n
  PROVE  x \div n \in 0 .. c
<1>1. PICK d \in Int, r \in 0 .. n - 1 : d = x \div n /\ x = d * n + r
  BY Division
<1>2. d <= c
  <2>1. d * n < (c + 1) * n
    <3>1. d * n \in Int /\ (c + 1) * n \in Int
      OBVIOUS
    <3> QED BY <1>1, <3>1
  <2> QED BY <2>1, Factor
<1>3. -1 < d
  <2>1. (-d) * n < (0 + 1) * n
    <3>1. (-d) * n = r - x
      BY <1>1
    <3> QED BY <3>1
  <2>2. -d <= 0
    BY <2>1, Factor
  <2> QED BY <2>2
<1> QED BY <1>1, <1>2, <1>3

(* A number that wraps does not grow. *)
LEMMA WrapBelow ==
  ASSUME NEW x \in Nat, NEW n \in Nat \ {0}
  PROVE  x % n \in 0 .. x
<1>1. PICK d \in Int, r \in 0 .. n - 1 : r = x % n /\ x = d * n + r /\ d = x \div n
  BY Division
<1>2. d \in Nat
  <2>1. x < (x + 1) * n
    <3>1. PICK m \in Nat : n = m + 1
      <4>1. n - 1 \in Nat /\ n = (n - 1) + 1
        OBVIOUS
      <4> QED BY <4>1
    <3>2. (x + 1) * n = x * m + m + x + 1
      BY <3>1
    <3>3. x * m \in Nat
      OBVIOUS
    <3> QED BY <3>2, <3>3
  <2> QED BY <1>1, <2>1, QuotientBelow
<1>3. d * n \in Nat
  BY <1>2
<1> QED BY <1>1, <1>3
-----------------------------------------------------------------------------
(* The widths of the numbers. *)
LEMMA WordFacts ==
  /\ INT_MAX \in Nat \ {0, 1} /\ WORD \in Nat \ {0} /\ WORD = 2 * (INT_MAX + 1)
  /\ Ints = (-INT_MAX - 1) .. INT_MAX
  BY SbRandAssumption DEF WORD, Ints

(* An int is what its bits stand for. *)
LEMMA SignedFits ==
  ASSUME NEW x \in Ints
  PROVE  Signed(x) = x
<1>1. PICK m \in Nat, w \in Nat \ {0} : m = INT_MAX /\ w = WORD /\ w = 2 * (m + 1)
  BY WordFacts
<1>2. x \in Int /\ -m - 1 <= x /\ x <= m
  BY <1>1, WordFacts
<1>3. PICK d \in Int : d = x % w /\ (x >= 0 => d = x) /\ (x < 0 => d = x + w)
  <2>1. CASE x >= 0
    <3>1. x \in 0 .. w - 1 /\ x = 0 * w + x
      BY <1>1, <1>2, <2>1
    <3>2. x % w = x
      BY <3>1, Remainder
    <3> QED BY <2>1, <3>1, <3>2
  <2>2. CASE x < 0
    <3>1. x + w \in 0 .. w - 1 /\ x = (-1) * w + (x + w)
      BY <1>1, <1>2, <2>2
    <3>2. x % w = x + w
      BY <1>2, <3>1, Remainder
    <3> QED BY <1>2, <2>2, <3>1, <3>2
  <2> QED BY <1>2, <2>1, <2>2
<1>4. Signed(x) = IF d > m THEN d - w ELSE d
  BY <1>1, <1>3, Zenon DEF Signed
<1> QED BY <1>1, <1>2, <1>3, <1>4

(* What lies between two ints is an int. *)
LEMMA BetweenInts ==
  ASSUME NEW a \in Ints, NEW b \in Ints, NEW x \in a .. b
  PROVE  x \in Ints
<1>1. PICK m \in Nat : m = INT_MAX /\ Ints = (-m - 1) .. m
  BY WordFacts
<1> QED BY <1>1

(* The size of a range as an unsigned int and as an int. *)
LEMMA SizeFacts ==
  ASSUME NEW a \in Ints, NEW b \in Ints, a <= b
  PROVE  /\ a \in Int /\ b \in Int
         /\ b - a + 1 \in 1 .. WORD
         /\ b - a + 1 < WORD <=> Size(a, b) # 0
         /\ b - a + 1 < WORD => Size(a, b) = b - a + 1
         /\ b - a + 1 <= INT_MAX => Signed(b - a + 1) = b - a + 1
         /\ b - a + 1 > INT_MAX /\ b - a + 1 < WORD =>
              Signed(b - a + 1) = b - a + 1 - WORD
<1>1. PICK m \in Nat, w \in Nat \ {0} : m = INT_MAX /\ w = WORD /\ w = 2 * (m + 1)
  BY WordFacts
<1>2. PICK t \in 1 .. w : t = b - a + 1 /\ a \in Int /\ b \in Int
  <2>1. a \in Int /\ b \in Int /\ -m - 1 <= a /\ b <= m
    BY <1>1, WordFacts
  <2>2. b - a + 1 \in 1 .. w
    BY <1>1, <2>1
  <2> QED BY <2>1, <2>2
<1>3. PICK d \in Int : d = t % w /\ (t < w => d = t) /\ (t = w => d = 0)
  <2>1. CASE t < w
    <3>1. t \in 0 .. w - 1 /\ t = 0 * w + t
      BY <2>1
    <3>2. t % w = t
      BY <3>1, Remainder
    <3> QED BY <2>1, <3>1, <3>2
  <2>2. CASE t = w
    <3>1. 0 \in 0 .. w - 1 /\ t = 1 * w + 0
      BY <2>2
    <3>2. t % w = 0
      BY <3>1, Remainder
    <3> QED BY <2>2, <3>2
  <2> QED BY <2>1, <2>2
<1>4. Size(a, b) = d
  BY <1>1, <1>2, <1>3, Zenon DEF Size
<1>5. Signed(b - a + 1) = IF d > m THEN d - w ELSE d
  BY <1>1, <1>2, <1>3, Zenon DEF Signed
<1> QED BY <1>1, <1>2, <1>3, <1>4, <1>5

(* sb_rand_uniform stays in the range, also where the size is negative. *)
LEMMA UniformFits ==
  ASSUME NEW a \in Ints, NEW b \in Ints, a <= b, Size(a, b) # 0,
         NEW n \in sb_rand_uniform(a, b)
  PROVE  n \in a .. b
<1>1. PICK m \in Nat, w \in Nat : m = INT_MAX /\ w = WORD /\ w = 2 * (m + 1)
  BY WordFacts
<1>2. PICK t \in 1 .. w : t = b - a + 1 /\ t < w
  BY <1>1, SizeFacts
<1>3. PICK s \in Int : s = Signed(b - a + 1) /\ (t <= m => s = t) /\ (t > m => s = t - w)
  BY <1>1, <1>2, SizeFacts
<1>4. PICK u \in Nat : u = (IF s < 0 THEN -s ELSE s) /\ u <= t
  <2>1. (IF s < 0 THEN -s ELSE s) \in Nat /\ (IF s < 0 THEN -s ELSE s) <= t
    BY <1>1, <1>2, <1>3
  <2> QED BY <2>1
<1>5. PICK r \in sb_rnd(u) : n = a + r
  BY <1>3, <1>4, Zenon DEF sb_rand_uniform
<1>6. SB_MAX_RND \in Int
  BY SbRandAssumption, Division DEF SB_MAX_RND
<1>7. r \in 0 .. u - 1
  BY <1>6 DEF sb_rnd
<1> QED BY <1>2, <1>4, <1>5, <1>7, SizeFacts

(* sb_rand_gaussian does, even if the sum of the numbers wraps. *)
LEMMA GaussianFits ==
  ASSUME NEW a \in Ints, NEW b \in Ints, a <= b, Size(a, b) # 0,
         NEW n \in sb_rand_gaussian(a, b)
  PROVE  n \in a .. b
<1>1. WORD \in Nat \ {0} /\ rand_iter \in Nat \ {0} /\ SB_MAX_RND \in Int
  BY WordFacts, SbRandAssumption, Division DEF SB_MAX_RND
<1>2. PICK t \in Nat \ {0} : t = Size(a, b) /\ t = b - a + 1
  BY WordFacts, SizeFacts
<1>3. PICK largest \in Int :
        /\ largest <= t - 1
        /\ \E sum \in 0 .. (rand_iter * largest) :
             n = Signed(a + ((sum % WORD) \div rand_iter))
  <2>1. PICK l \in Int : l = (IF t < SB_MAX_RND THEN t ELSE SB_MAX_RND) - 1 /\ l <= t - 1
    <3>1. (IF t < SB_MAX_RND THEN t ELSE SB_MAX_RND) - 1 \in Int
          /\ (IF t < SB_MAX_RND THEN t ELSE SB_MAX_RND) - 1 <= t - 1
      BY <1>1
    <3> QED BY <3>1
  <2>2. \E sum \in 0 .. (rand_iter * l) : n = Signed(a + ((sum % WORD) \div rand_iter))
    BY <1>2, <2>1, Zenon DEF sb_rand_gaussian
  <2> QED BY <2>1, <2>2
<1>4. PICK sum \in 0 .. (rand_iter * largest) : n = Signed(a + ((sum % WORD) \div rand_iter))
  BY <1>3
<1>5. PICK c \in Nat : c = b - a /\ largest <= c
  BY <1>2, <1>3, SizeFacts
<1>6. PICK m \in Nat : m = sum % WORD /\ m <= rand_iter * c
  <2>1. rand_iter * largest <= rand_iter * c
    <3>1. PICK e \in Nat : c = largest + e
      <4>1. c - largest \in Nat /\ c = largest + (c - largest)
        BY <1>5
      <4> QED BY <4>1
    <3>2. rand_iter * c = rand_iter * largest + rand_iter * e
      BY <1>1, <3>1
    <3>3. rand_iter * e \in Nat /\ rand_iter * largest \in Int
      BY <1>1
    <3> QED BY <3>2, <3>3
  <2>2. sum \in Nat /\ sum <= rand_iter * largest /\ rand_iter * largest \in Int
    BY <1>1
  <2>3. sum % WORD \in 0 .. sum
    BY <1>1, <2>2, WrapBelow
  <2>4. rand_iter * c \in Nat
    BY <1>1
  <2> QED BY <2>1, <2>2, <2>3, <2>4
<1>7. m < (c + 1) * rand_iter
  <2>1. (c + 1) * rand_iter = rand_iter * c + rand_iter
    BY <1>1
  <2>2. rand_iter * c \in Nat
    BY <1>1
  <2> QED BY <1>1, <1>6, <2>1, <2>2
<1>8. PICK q \in 0 .. c : q = m \div rand_iter
  <2>1. m \div rand_iter \in 0 .. c
    BY <1>1, <1>7, QuotientBelow
  <2> QED BY <2>1
<1>9. n = Signed(a + q)
  BY <1>4, <1>6, <1>8, Zenon
<1>10. a + q \in a .. b /\ a + q \in Ints
  <2>1. a + q \in a .. b
    BY <1>5, <1>8, SizeFacts
  <2> QED BY <2>1, BetweenInts
<1> QED BY <1>9, <1>10, SignedFits

(* A product of a positive number grows with its factor. *)
LEMMA ProductGrows ==
  ASSUME NEW n \in Nat \ {0}, NEW c \in Int, NEW d \in Int, c <= d
  PROVE  c * n <= d * n
<1>1. PICK e \in Nat : d = c + e
  <2>1. d - c \in Nat /\ d = c + (d - c)
    OBVIOUS
  <2> QED BY <2>1
<1>2. d * n = c * n + e * n
  BY <1>1
<1>3. e * n \in Nat /\ c * n \in Int
  OBVIOUS
<1> QED BY <1>2, <1>3

(* What is truncated toward zero stays between two ints around zero. *)
LEMMA TruncatedFits ==
  ASSUME NEW s \in Nat \ {0}, NEW a \in Int, NEW b \in Nat, a <= b, NEW x \in Int,
         a * s <= x, x < (b + 1) * s
  PROVE  Truncated(x, s) \in a .. b
<1>1. CASE x >= 0
  <2>1. Truncated(x, s) = x \div s
    BY <1>1 DEF Truncated
  <2>2. PICK q \in Int : q = x \div s /\ q \in 0 .. b
    BY <1>1, QuotientBelow
  <2>3. PICK r \in 0 .. s - 1 : x = q * s + r
    BY <2>2, Division
  <2>4. a * s < (q + 1) * s
    <3>1. (q + 1) * s = q * s + s /\ q * s \in Int /\ a * s \in Int
      OBVIOUS
    <3> QED BY <2>3, <3>1
  <2>5. a <= q
    BY <2>4, Factor
  <2> QED BY <2>1, <2>2, <2>5
<1>2. CASE x < 0
  <2>1. Truncated(x, s) = -((-x) \div s)
    BY <1>2 DEF Truncated
  <2>2. -x \in Nat /\ -x < ((-a) + 1) * s
    <3>1. ((-a) + 1) * s = s - a * s /\ a * s \in Int
      OBVIOUS
    <3> QED BY <1>2, <3>1
  <2>3. (-x) \div s \in 0 .. (-a)
    <3>1. -a \in Int
      OBVIOUS
    <3> QED BY <2>2, <3>1, QuotientBelow
  <2> QED BY <2>1, <2>3
<1> QED BY <1>1, <1>2

(* sb_rand_pareto stays in the range unless it ends below zero or is wide. *)
LEMMA ParetoFits ==
  ASSUME NEW a \in Ints, NEW b \in Ints, a <= b, b >= 0, b - a + 1 <= INT_MAX,
         NEW n \in sb_rand_pareto(a, b)
  PROVE  n \in a .. b
<1>1. Steps \in Nat \ {0}
  BY SbRandAssumption
<1>2. PICK t \in Nat \ {0} :
        t = b - a + 1 /\ t = Signed(b - a + 1) /\ a \in Int /\ b \in Nat
  BY WordFacts, SizeFacts
<1>3. PICK k \in 0 .. (Steps - 1) :
        n \in LET v == Truncated(a * Steps + Signed(b - a + 1) * k, Steps)
              IN IF v \in Ints THEN {v} ELSE Ints
  BY Zenon DEF sb_rand_pareto
<1>4. PICK x \in Int : /\ x = a * Steps + Signed(b - a + 1) * k
                       /\ a * Steps <= x /\ x < (b + 1) * Steps
  <2>1. PICK e \in Nat \ {0} : Steps = k + e
    <3>1. Steps - k \in Nat \ {0} /\ Steps = k + (Steps - k)
      BY <1>1
    <3> QED BY <3>1
  <2>2. PICK y \in Nat, z \in Nat \ {0} : y = t * k /\ z = t * e
    <3>1. t * k \in Nat /\ t * e \in Nat
      OBVIOUS
    <3>2. PICK t1 \in Nat, e1 \in Nat : t = t1 + 1 /\ e = e1 + 1
      <4>1. t - 1 \in Nat /\ e - 1 \in Nat /\ t = (t - 1) + 1 /\ e = (e - 1) + 1
        OBVIOUS
      <4> QED BY <4>1
    <3>3. t * e = t1 * e1 + t1 + e1 + 1 /\ t1 * e1 \in Nat
      BY <3>2
    <3> QED BY <3>1, <3>3
  <2>3. t * Steps = y + z
    BY <2>1, <2>2
  <2>4. PICK u \in Int : u = a * Steps
    <3>1. a * Steps \in Int
      BY <1>1, <1>2
    <3> QED BY <3>1
  <2>5. (b + 1) * Steps = u + (y + z)
    <3>1. b + 1 = a + t
      BY <1>2
    <3>2. (a + t) * Steps = a * Steps + t * Steps
      BY <1>1, <1>2
    <3> QED BY <2>3, <2>4, <3>1, <3>2
  <2>6. Signed(b - a + 1) * k = y
    BY <1>2, <2>2
  <2> QED BY <2>2, <2>4, <2>5, <2>6
<1>5. PICK v \in a .. b : v = Truncated(x, Steps)
  BY <1>1, <1>2, <1>4, TruncatedFits
<1>6. v \in Ints
  BY <1>2, <1>5, WordFacts
<1>7. n = v
  BY <1>3, <1>4, <1>5, <1>6, Zenon
<1> QED BY <1>5, <1>7

(* The special values lie around the centre, and not beyond the ends. *)
LEMMA SpecialFits ==
  ASSUME NEW a \in Ints, NEW b \in Ints, a < b, RangeSize(a, b) # 0,
         NEW n \in sb_rand_special(a, b)
  PROVE  n \in a .. b
<1>1. WORD \in Nat \ {0} /\ rand_pct \in 0 .. 100 /\ rand_res \in 0 .. 99
      /\ a \in Int /\ b \in Int /\ SB_MAX_RND \in Int
  BY SbRandAssumption, WordFacts, Division DEF SB_MAX_RND
<1>2. Size(a, b) # 0
  <2> SUFFICES ASSUME Size(a, b) = 0 PROVE FALSE
    OBVIOUS
  <2>1. PICK f \in Int : f = 100 \div (100 - rand_res)
    <3>1. PICK e \in Nat \ {0} : e = 100 - rand_res
      BY <1>1
    <3>2. 100 \div e \in Int
      BY Division
    <3> QED BY <3>1, <3>2
  <2>2. RangeSize(a, b) = (0 * f) % WORD
    BY <2>1, Zenon DEF RangeSize
  <2>3. 0 * f = 0 * WORD + 0 /\ 0 \in 0 .. WORD - 1 /\ 0 * f \in Int
    BY <1>1
  <2>4. (0 * f) % WORD = 0
    BY <1>1, <2>3, Remainder
  <2> QED BY <2>2, <2>4
<1> DEFINE t == Size(a, b)
           m == (t * rand_pct) % WORD
           d == m \div 100
           width == IF d < 1 THEN 1 ELSE d
           start == (t \div 2) - (m \div 200)
<1>4. n \in UNION {IF res < t THEN sb_rand_gaussian(a, b)
                   ELSE {Signed(a + (res % width) + start)} :
                     res \in sb_rnd(RangeSize(a, b))}
  <2>1. ~(a >= b)
    BY <1>1
  <2> QED BY <2>1, Zenon DEF sb_rand_special
<1>3. t \in Nat \ {0, 1} /\ t = b - a + 1
  BY <1>1, <1>2, SizeFacts
<1> HIDE DEF t
<1>5. m \in Nat /\ m <= 100 * t
  <2>1. PICK p \in Nat : p = t * rand_pct /\ p <= 100 * t
    <3>1. PICK e \in Nat : 100 = rand_pct + e
      <4>1. 100 - rand_pct \in Nat /\ 100 = rand_pct + (100 - rand_pct)
        BY <1>1
      <4> QED BY <4>1
    <3>2. t * 100 = t * rand_pct + t * e
      BY <1>1, <1>3, <3>1
    <3>3. t * e \in Nat /\ t * rand_pct \in Nat
      BY <1>1, <1>3
    <3> QED BY <1>3, <3>2, <3>3
  <2>2. p % WORD \in 0 .. p
    BY <1>1, WrapBelow
  <2> QED BY <1>3, <2>1, <2>2
<1> HIDE DEF m
<1>6. /\ width \in 1 .. t
      /\ start \in 0 .. t - 1
      /\ start + width <= t
  BY <1>3, <1>5
<1> HIDE DEF d, width, start
<1>7. PICK res \in sb_rnd(RangeSize(a, b)) :
        n \in IF res < t THEN sb_rand_gaussian(a, b)
              ELSE {Signed(a + (res % width) + start)}
  BY <1>4, Zenon
<1>8. CASE n \in sb_rand_gaussian(a, b)
  BY <1>1, <1>2, <1>8, GaussianFits
<1>9. CASE n = Signed(a + (res % width) + start)
  <2>1. PICK w \in Nat \ {0} : w = width
    BY <1>3, <1>6
  <2>2. PICK r \in 0 .. w - 1 : r = res % w
    <3>1. res \in Int
      BY DEF sb_rnd
    <3> QED BY <3>1, Division
  <2>3. PICK v \in a .. b : v = a + (res % width) + start
    BY <1>1, <1>3, <1>6, <2>1, <2>2
  <2>4. v \in Ints
    BY <1>1, WordFacts
  <2> QED BY <1>9, <2>3, <2>4, SignedFits
<1> QED BY <1>7, <1>8, <1>9, Zenon

(* Every distribution. *)
LEMMA RandFits ==
  ASSUME NEW type \in {"uniform", "gaussian", "special", "pareto"},
         NEW a \in Ints, NEW b \in Ints, a <= b, ~DividesByZero(type, a, b),
         NEW n \in sb_rand(type, a, b), NEW d,
         d = [type |-> type, a |-> a, b |-> b, n |-> n]
  PROVE  InRange(d)
<1>1. \/ type = "uniform" /\ n \in sb_rand_uniform(a, b) /\ Size(a, b) # 0
      \/ type = "gaussian" /\ n \in sb_rand_gaussian(a, b) /\ Size(a, b) # 0
      \/ type = "special" /\ n \in sb_rand_special(a, b) /\ ~(a < b /\ RangeSize(a, b) = 0)
      \/ type = "pareto" /\ n \in sb_rand_pareto(a, b)
  BY DEF sb_rand, DividesByZero
<1>2. d.type = type /\ d.a = a /\ d.b = b /\ d.n = n
  OBVIOUS
<1>3. INT_MAX \in Int /\ a \in Int /\ b \in Int
  BY WordFacts, SizeFacts
<1>4. CASE type \in {"uniform", "gaussian"}
  <2>1. n \in a .. b
    BY <1>1, <1>4, UniformFits, GaussianFits
  <2> QED BY <1>2, <2>1, Zenon DEF InRange
<1>5. CASE type = "special"
  <2>1. a = b \/ n \in a .. b
    BY <1>1, <1>3, <1>5, SpecialFits
  <2> QED BY <1>2, <1>5, <2>1, Zenon DEF InRange
<1>6. CASE type = "pareto"
  <2>1. b < 0 \/ b - a + 1 > INT_MAX \/ n \in a .. b
    BY <1>1, <1>3, <1>6, ParetoFits
  <2> QED BY <1>2, <1>6, <2>1, Zenon DEF InRange
<1> QED BY <1>4, <1>5, <1>6

(* A division by zero needs a range that fills a word. *)
LEMMA KilledFits ==
  ASSUME NEW type \in {"uniform", "gaussian", "special", "pareto", "uniq"},
         NEW a \in Ints, NEW b \in Ints, a <= b, DividesByZero(type, a, b)
  PROVE  (b - a + 1) * (100 \div (100 - rand_res)) >= WORD
<1>1. PICK w \in Nat \ {0}, t \in Nat \ {0} :
        /\ w = WORD /\ t = b - a + 1 /\ t <= w
        /\ t < w <=> Size(a, b) # 0
        /\ t < w => Size(a, b) = t
  BY WordFacts, SizeFacts
<1>2. PICK f \in Nat \ {0} : f = 100 \div (100 - rand_res)
  <2>1. PICK e \in 1 .. 100 : e = 100 - rand_res
    BY SbRandAssumption
  <2>2. PICK q \in Int, r \in 0 .. e - 1 : q = 100 \div e /\ 100 = q * e + r
    BY Division
  <2>3. 0 * e < (q + 1 - 1 + 1) * e
    <3>1. (q + 1) * e = q * e + e /\ q * e \in Int
      OBVIOUS
    <3> QED BY <2>2, <3>1
  <2>4. q # 0
    BY <2>2
  <2>5. 0 <= q
    BY <2>3, Factor
  <2> QED BY <2>1, <2>2, <2>4, <2>5
<1>3. CASE t = w
  <2>1. 1 * w <= f * w
    BY <1>2, ProductGrows
  <2> QED BY <1>1, <1>2, <1>3, <2>1
<1>4. CASE t < w
  <2>1. RangeSize(a, b) = 0 /\ type = "special"
    BY <1>1, <1>4 DEF DividesByZero
  <2>2. PICK p \in Nat \ {0} : p = t * f
    <3>1. PICK t1 \in Nat, f1 \in Nat : t = t1 + 1 /\ f = f1 + 1
      <4>1. t - 1 \in Nat /\ f - 1 \in Nat /\ t = (t - 1) + 1 /\ f = (f - 1) + 1
        BY <1>1
      <4> QED BY <4>1
    <3>2. t * f = t1 * f1 + t1 + f1 + 1 /\ t1 * f1 \in Nat
      BY <3>1
    <3>3. t * f \in Nat \ {0}
      BY <3>2
    <3> QED BY <3>3
  <2>3. p % w = 0
    BY <1>1, <1>2, <1>4, <2>1, <2>2, Zenon DEF RangeSize
  <2>4. p < w => p % w = p
    <3>1. p < w => p \in 0 .. w - 1 /\ p = 0 * w + p
      OBVIOUS
    <3> QED BY <3>1, Remainder
  <2> QED BY <1>1, <1>2, <2>2, <2>3, <2>4
<1> QED BY <1>1, <1>3, <1>4
-----------------------------------------------------------------------------
(* Steps of a prime meet no number twice before they have met all: the     *)
(* least step that returns divides the size, and would leave the prime.    *)
LEMMA PrimeSteps ==
  ASSUME NEW p \in Nat \ {0, 1}, \A q \in 2 .. p - 1 : p % q # 0,
         NEW t \in Nat \ {0}, t % p # 0, NEW d \in 1 .. t - 1
  PROVE  (d * p) % t # 0
<1> SUFFICES ASSUME (d * p) % t = 0 PROVE FALSE
  OBVIOUS
<1> DEFINE T == {e \in 1 .. t : \E c \in Int : e * p = c * t}
<1>1. d \in T
  <2>1. d * p \in Int
    OBVIOUS
  <2>2. PICK c \in Int : d * p = c * t + 0
    BY <2>1, Division
  <2> QED BY <2>2
<1>2. t \in T
  <2>1. t * p = p * t /\ t \in 1 .. t /\ p \in Int
    OBVIOUS
  <2> QED BY <2>1
<1>3. PICK m \in T : \A y \in T : m <= y
  <2>1. T \subseteq 1 .. t
    OBVIOUS
  <2>2. d \in T
    BY <1>1
  <2> HIDE DEF T
  <2>3. T \in SUBSET Nat /\ T # {}
    BY <2>1, <2>2
  <2> QED BY <2>3, LeastNatural
<1>4. m \in 1 .. d
  BY <1>1, <1>3
<1>5. PICK c \in Int : m * p = c * t
  BY <1>3
<1>6. PICK q \in Int, r \in 0 .. m - 1 : t = q * m + r
  <2>1. m \in Nat \ {0}
    BY <1>4
  <2>2. t \div m \in Int /\ t % m \in 0 .. m - 1 /\ t = (t \div m) * m + (t % m)
    BY <2>1, Division
  <2> QED BY <2>2
<1>7. r = 0
  <2> SUFFICES ASSUME r # 0 PROVE FALSE
    OBVIOUS
  <2>1. r * p = (p - q * c) * t
    <3>1. r * p = t * p - q * (m * p)
      BY <1>4, <1>6
    <3>2. q * (m * p) = (q * c) * t
      BY <1>4, <1>5
    <3> QED BY <3>1, <3>2
  <2>2. r \in 1 .. t /\ r < m /\ p - q * c \in Int
    BY <1>4
  <2>3. r \in T
    BY <2>1, <2>2
  <2>4. m <= r
    BY <1>3, <2>3
  <2> QED BY <1>4, <2>2, <2>4
<1>8. t = q * m
  BY <1>4, <1>6, <1>7
<1>9. p = c * q
  <2>1. m * p = m * (c * q)
    BY <1>4, <1>5, <1>8
  <2> QED BY <1>4, <2>1
<1>10. q \in 2 .. p
  <2>1. q > 1
    <3>1. CASE q <= 0
      <4>1. PICK e \in Nat : q = -e
        <5>1. -q \in Nat /\ q = -(-q)
          BY <3>1
        <5> QED BY <5>1
      <4>2. t = -(e * m) /\ e * m \in Nat
        BY <1>4, <1>8, <4>1
      <4> QED BY <4>2
    <3>2. CASE q = 1
      BY <1>4, <1>8, <3>2
    <3> QED BY <3>1, <3>2
  <2>2. c >= 1
    <3> SUFFICES ASSUME c <= 0 PROVE FALSE
      OBVIOUS
    <3>1. PICK e \in Nat : c = -e
      <4>1. -c \in Nat /\ c = -(-c)
        OBVIOUS
      <4> QED BY <4>1
    <3>2. PICK h \in Nat : q = h
      BY <2>1
    <3>3. p = -(e * h) /\ e * h \in Nat
      BY <1>9, <3>1, <3>2
    <3> QED BY <3>3
  <2>3. PICK e \in Nat, h \in Nat : c = e + 1 /\ q = h
    <3>1. c - 1 \in Nat /\ c = (c - 1) + 1 /\ q \in Nat
      BY <2>1, <2>2
    <3> QED BY <3>1
  <2>4. p = e * h + h /\ e * h \in Nat
    BY <1>9, <2>3
  <2> QED BY <2>1, <2>3, <2>4
<1>11. p % q = 0
  <2>1. q \in Nat \ {0} /\ 0 \in 0 .. q - 1 /\ p = c * q + 0
    BY <1>9, <1>10
  <2> QED BY <2>1, Remainder
<1>12. q = p
  BY <1>10, <1>11
<1>13. t % p = 0
  <2>1. t = m * p + 0 /\ 0 \in 0 .. p - 1 /\ m \in Int
    BY <1>4, <1>8, <1>12
  <2> QED BY <2>1, Remainder
<1> QED BY <1>13

(* Numbers of one remainder differ by a multiple. *)
LEMMA SameRemainder ==
  ASSUME NEW x \in Int, NEW y \in Int, NEW n \in Nat \ {0}, x % n = y % n
  PROVE  (x - y) % n = 0
<1>1. PICK q \in Int, r \in 0 .. n - 1 : x = q * n + r /\ r = x % n
  BY Division
<1>2. PICK s \in Int, u \in 0 .. n - 1 : y = s * n + u /\ u = y % n
  BY Division
<1>3. x - y = (q - s) * n + 0
  BY <1>1, <1>2
<1>4. q - s \in Int /\ x - y \in Int /\ 0 \in 0 .. n - 1
  OBVIOUS
<1> QED BY <1>3, <1>4, Remainder

(* So two draws less than a range apart differ. *)
LEMMA DrawsDiffer ==
  ASSUME NEW p \in Nat \ {0, 1}, \A q \in 2 .. p - 1 : p % q # 0,
         NEW t \in Nat \ {0}, t % p # 0, NEW j \in Nat, NEW k \in Nat,
         j < k, k - j < t
  PROVE  (p * j) % t # (p * k) % t
<1> SUFFICES ASSUME (p * k) % t = (p * j) % t PROVE FALSE
  OBVIOUS
<1>1. p * k \in Int /\ p * j \in Int
  OBVIOUS
<1>2. (p * k - p * j) % t = 0
  BY <1>1, SameRemainder
<1>3. p * k - p * j = (k - j) * p
  OBVIOUS
<1>4. k - j \in 1 .. t - 1
  OBVIOUS
<1>5. ((k - j) * p) % t # 0
  BY <1>4, PrimeSteps
<1> QED BY <1>2, <1>3, <1>5
-----------------------------------------------------------------------------
(* The unique numbers are made of the first multiples of the prime, of     *)
(* which the seed is the next.                                             *)
UniqInv ==
  /\ uniq \in Seq([range : Ranges, n : Int])
  /\ seed = LARGE_PRIME * (Len(uniq) + 1)
  /\ \A j \in 1 .. Len(uniq) :
       uniq[j].n = UniqNumber(LARGE_PRIME * j, uniq[j].range[1], uniq[j].range[2])

(* A number drawn is in its range, or the process was killed. *)
DrawnInv ==
  /\ status = SIGFPE =>
       /\ phase = "exited"
       /\ (drawn.b - drawn.a + 1) * (100 \div (100 - rand_res)) >= WORD
  /\ status # SIGFPE /\ drawn.type # "none" => InRange(drawn)

(* The ranges are not empty. *)
LEMMA RangeFacts ==
  ASSUME NEW r \in Ranges
  PROVE  /\ r[1] \in Ints /\ r[2] \in Ints /\ r[1] <= r[2]
         /\ r[1] \in Int /\ r[2] \in Int /\ r[2] - r[1] + 1 \in Nat \ {0}
<1>1. r \in Ints \X Ints /\ r[1] <= r[2]
  BY StartupAssumption
<1> QED BY <1>1, WordFacts

(* LARGE_PRIME is a prime. *)
LEMMA PrimeFacts ==
  /\ LARGE_PRIME \in Nat \ {0, 1}
  /\ \A q \in 2 .. LARGE_PRIME - 1 : LARGE_PRIME % q # 0
  BY SbRandAssumption

(* Nothing has been drawn at first. *)
LEMMA InitUniq == MainInit => UniqInv /\ DrawnInv
<1> SUFFICES ASSUME MainInit PROVE UniqInv /\ DrawnInv
  OBVIOUS
<1>1. seed = LARGE_PRIME /\ uniq = <<>> /\ drawn.type = "none" /\ status = -1
  BY DEF MainInit
<1>2. LARGE_PRIME = LARGE_PRIME * (0 + 1) /\ Len(<<>>) = 0
  BY PrimeFacts
<1>3. -1 # SIGFPE
  BY DEF SIGFPE
<1> QED BY <1>1, <1>2, <1>3 DEF UniqInv, DrawnInv

(* A conversion gives an int. *)
LEMMA SignedInt ==
  ASSUME NEW x \in Int
  PROVE  Signed(x) \in Int
<1>1. PICK w \in Nat \ {0}, m \in Nat : w = WORD /\ m = INT_MAX
  BY WordFacts
<1>2. x % w \in Int
  BY Division
<1> QED BY <1>1, <1>2 DEF Signed

(* A unique number is an int. *)
LEMMA UniqInt ==
  ASSUME NEW r \in Ranges, NEW s \in Int, Size(r[1], r[2]) # 0
  PROVE  UniqNumber(s, r[1], r[2]) \in Int
<1>1. PICK t \in Int : t = Signed(r[2] - r[1] + 1)
  <2>1. r[2] - r[1] + 1 \in Int
    BY RangeFacts
  <2> QED BY <2>1, SignedInt
<1>2. PICK x \in Int : x = r[1] + IF t < 0 THEN s ELSE s % t
  <2>1. t >= 0 => s % t \in Int
    <3>1. r[2] - r[1] + 1 < WORD /\ r[2] - r[1] + 1 \in Nat \ {0}
      BY RangeFacts, SizeFacts
    <3>2. PICK m \in Nat, w \in Nat, u \in Nat \ {0} :
            m = INT_MAX /\ w = WORD /\ u = r[2] - r[1] + 1 /\ u < w
      BY <3>1, WordFacts
    <3>3. (u <= m => t = u) /\ (u > m => t = u - w)
      BY <1>1, <3>1, <3>2, RangeFacts, SizeFacts
    <3>4. t # 0
      BY <3>2, <3>3
    <3> QED BY <3>4, Division
  <2> QED BY <2>1, RangeFacts
<1>3. UniqNumber(s, r[1], r[2]) = Signed(x)
  BY <1>1, <1>2, Zenon DEF UniqNumber
<1> QED BY <1>2, <1>3, SignedInt

(* A unique number more is made of the next multiple of the prime. *)
LEMMA UniqStep ==
  ASSUME UniqInv, NEW r \in Ranges, Size(r[1], r[2]) # 0,
         uniq' = Append(uniq, [range |-> r, n |-> UniqNumber(seed, r[1], r[2])]),
         seed' = NextSeed(seed)
  PROVE  UniqInv'
<1>1. PICK m \in Nat : m = Len(uniq) /\ seed = LARGE_PRIME * (m + 1)
  BY DEF UniqInv
<1>2. PICK n \in Int : n = UniqNumber(seed, r[1], r[2])
  <2>1. seed \in Int
    BY <1>1, PrimeFacts
  <2> QED BY <2>1, UniqInt
<1>3. PICK e \in [range : Ranges, n : Int] :
        e = [range |-> r, n |-> n] /\ e.range = r /\ e.n = n
  <2>1. [range |-> r, n |-> n] \in [range : Ranges, n : Int]
    OBVIOUS
  <2> QED BY <2>1
<1>4. PICK s \in Seq([range : Ranges, n : Int]) : s = uniq
  BY DEF UniqInv
<1>5. uniq' = Append(s, e)
  BY <1>2, <1>3, <1>4, Zenon
<1>6. /\ uniq' \in Seq([range : Ranges, n : Int]) /\ Len(uniq') = m + 1
      /\ uniq'[m + 1] = e /\ \A j \in 1 .. m : uniq'[j] = uniq[j]
  BY <1>1, <1>4, <1>5
<1>7. seed' = LARGE_PRIME * ((m + 1) + 1)
  BY <1>1, PrimeFacts DEF NextSeed
<1>8. ASSUME NEW j \in 1 .. m + 1
      PROVE  uniq'[j].n = UniqNumber(LARGE_PRIME * j, uniq'[j].range[1], uniq'[j].range[2])
  <2>1. CASE j \in 1 .. m
    BY <1>1, <1>6, <2>1, Zenon DEF UniqInv
  <2>2. CASE j = m + 1
    BY <1>1, <1>2, <1>3, <1>6, <2>2, Zenon
  <2>3. j \in 1 .. m \/ j = m + 1
    BY <1>8
  <2> QED BY <2>1, <2>2, <2>3, Zenon
<1> QED BY <1>6, <1>7, <1>8, Zenon DEF UniqInv

(* A step that draws nothing. *)
LEMMA SameNumbers ==
  ASSUME UniqInv, DrawnInv, UNCHANGED <<seed, uniq, drawn>>,
         \/ phase # "exited" /\ status' \in {status, 0, 1}
         \/ UNCHANGED <<phase, status>>
  PROVE  UniqInv' /\ DrawnInv'
<1>1. UniqInv'
  BY Zenon DEF UniqInv
<1>2. InRange(drawn)' <=> InRange(drawn)
  BY Zenon DEF InRange
<1>3. SIGFPE \notin {0, 1}
  BY DEF SIGFPE
<1> QED BY <1>1, <1>2, <1>3, Zenon DEF DrawnInv

(* A draw that kills the process. *)
LEMMA KilledInv ==
  ASSUME NEW type \in {"uniform", "gaussian", "special", "pareto", "uniq"},
         NEW r \in Ranges, Killed(type, r)
  PROVE  DrawnInv'
<1>1. /\ DividesByZero(type, r[1], r[2]) /\ phase' = "exited" /\ status' = SIGFPE
      /\ drawn' = [type |-> type, a |-> r[1], b |-> r[2], n |-> 0]
  BY DEF Killed, Exit
<1>2. drawn'.a = r[1] /\ drawn'.b = r[2]
  BY <1>1
<1>3. (r[2] - r[1] + 1) * (100 \div (100 - rand_res)) >= WORD
  BY <1>1, RangeFacts, KilledFits
<1> QED BY <1>1, <1>2, <1>3, Zenon DEF DrawnInv

(* Every step keeps what is known of the numbers. *)
LEMMA NextUniq == UniqInv /\ DrawnInv /\ [MainNext]_mainVars => UniqInv' /\ DrawnInv'
<1> SUFFICES ASSUME UniqInv, DrawnInv, [MainNext]_mainVars PROVE UniqInv' /\ DrawnInv'
  OBVIOUS
<1>1. ASSUME NEW type \in {"uniform", "gaussian", "special", "pareto"}, Draw(type)
      PROVE  UniqInv' /\ DrawnInv'
  <2>1. UniqInv'
    <3>1. UNCHANGED <<seed, uniq>>
      BY <1>1 DEF Draw
    <3> QED BY <3>1, Zenon DEF UniqInv
  <2>2. PICK r \in Ranges :
          \/ Killed(type, r)
          \/ /\ ~DividesByZero(type, r[1], r[2])
             /\ \E n \in sb_rand(type, r[1], r[2]) :
                  drawn' = [type |-> type, a |-> r[1], b |-> r[2], n |-> n]
             /\ UNCHANGED <<phase, status>>
    BY <1>1, Zenon DEF Draw
  <2>3. CASE Killed(type, r)
    BY <2>1, <2>3, KilledInv
  <2>4. CASE /\ ~DividesByZero(type, r[1], r[2])
             /\ \E n \in sb_rand(type, r[1], r[2]) :
                  drawn' = [type |-> type, a |-> r[1], b |-> r[2], n |-> n]
             /\ UNCHANGED <<phase, status>>
    <3>1. PICK n \in sb_rand(type, r[1], r[2]) :
            drawn' = [type |-> type, a |-> r[1], b |-> r[2], n |-> n]
      BY <2>4
    <3>2. InRange(drawn')
      BY <2>4, <3>1, RangeFacts, RandFits
    <3>3. status # SIGFPE
      <4>1. phase = "running" /\ "running" # "exited"
        BY <1>1 DEF Draw, DrawsNumbers
      <4> QED BY <4>1 DEF DrawnInv
    <3>4. InRange(drawn)'
      BY <3>2, Zenon DEF InRange
    <3>5. DrawnInv'
      BY <2>4, <3>3, <3>4, Zenon DEF DrawnInv
    <3> QED BY <2>1, <3>5
  <2> QED BY <2>2, <2>3, <2>4
<1>2. ASSUME NEW r \in Ranges, sb_rand_uniq(r) PROVE UniqInv' /\ DrawnInv'
  <2>1. CASE Killed("uniq", r) /\ UNCHANGED <<seed, uniq>>
    <3>1. UniqInv'
      BY <2>1, Zenon DEF UniqInv
    <3> QED BY <2>1, <3>1, KilledInv
  <2>2. CASE /\ ~DividesByZero("uniq", r[1], r[2])
             /\ uniq' = Append(uniq, [range |-> r, n |-> UniqNumber(seed, r[1], r[2])])
             /\ seed' = NextSeed(seed)
             /\ UNCHANGED <<phase, status, drawn>>
    <3>1. Size(r[1], r[2]) # 0
      BY <2>2 DEF DividesByZero
    <3>2. UniqInv'
      BY <2>2, <3>1, UniqStep
    <3>3. InRange(drawn)' <=> InRange(drawn)
      BY <2>2, Zenon DEF InRange
    <3>4. DrawnInv'
      BY <2>2, <3>3, Zenon DEF DrawnInv
    <3> QED BY <3>2, <3>4
  <2> QED BY <1>2, <2>1, <2>2, Zenon DEF sb_rand_uniq
<1>3. CASE ParseCommand
  BY <1>3, SameNumbers, Zenon DEF ParseCommand, Exit, runVars
<1>4. CASE ParseOption
  BY <1>4, SameNumbers DEF ParseOption, Exit, Go, runVars
<1>5. CASE Parsed
  BY <1>5, SameNumbers DEF Parsed, Go, runVars
<1>6. CASE Dispatch
  BY <1>6, SameNumbers DEF Dispatch, Exit, Go, runVars
<1>7. CASE init
  BY <1>7, SameNumbers DEF init, Exit, Go, runVars
<1>8. CASE LoadTest
  BY <1>8, SameNumbers DEF LoadTest, Exit, Go, runVars
<1>9. CASE RunCommand
  BY <1>9, SameNumbers DEF RunCommand, Exit, Go, runVars
<1>10. CASE db_init
  BY <1>10, SameNumbers DEF db_init
<1>11. CASE RunEnds
  BY <1>11, SameNumbers DEF RunEnds, Exit, runVars
<1>12. CASE MainExited \/ UNCHANGED mainVars
  BY <1>12, SameNumbers DEF MainExited, mainVars
<1> QED
  BY <1>1, <1>2, <1>3, <1>4, <1>5, <1>6, <1>7, <1>8, <1>9, <1>10, <1>11, <1>12,
     Zenon DEF MainNext

(* A unique number of a range an int can count is in it. *)
LEMMA UniqFits ==
  ASSUME NEW r \in Ranges, NEW s \in Int, NEW t \in Nat \ {0}, t = r[2] - r[1] + 1,
         t <= INT_MAX
  PROVE  UniqNumber(s, r[1], r[2]) = r[1] + (s % t) /\ s % t \in 0 .. t - 1
<1>1. Signed(r[2] - r[1] + 1) = t /\ ~(t < 0)
  BY RangeFacts, SizeFacts
<1>2. PICK x \in 0 .. t - 1 : x = s % t
  BY Division
<1>3. r[1] + x \in Ints
  <2>1. r[1] + x \in r[1] .. r[2]
    BY RangeFacts
  <2> QED BY <2>1, RangeFacts, BetweenInts
<1>4. UniqNumber(s, r[1], r[2]) = Signed(r[1] + x)
  BY <1>1, <1>2, Zenon DEF UniqNumber
<1> QED BY <1>2, <1>3, <1>4, SignedFits

(* The members of a sequence. *)
LEMMA MemberOfSeq ==
  ASSUME NEW S, NEW s \in Seq(S), NEW k \in 1 .. Len(s)
  PROVE  s[k] \in S
  OBVIOUS

(* So they are in their ranges and do not repeat too early. *)
LEMMA UniqSound == UniqInv /\ DrawnInv => NumbersSound
<1> SUFFICES ASSUME UniqInv, DrawnInv, NEW k \in DOMAIN uniq,
                    uniq[k].range[2] - uniq[k].range[1] + 1 <= INT_MAX
             PROVE  /\ uniq[k].n \in uniq[k].range[1] .. uniq[k].range[2]
                    /\ \A j \in DOMAIN uniq :
                         /\ uniq[j].range = uniq[k].range
                         /\ (uniq[k].range[2] - uniq[k].range[1] + 1) % LARGE_PRIME # 0
                         /\ j < k /\ k - j < uniq[k].range[2] - uniq[k].range[1] + 1
                         => uniq[j].n # uniq[k].n
  BY Zenon DEF NumbersSound, DrawnInv
<1>1. PICK m \in Nat : m = Len(uniq) /\ DOMAIN uniq = 1 .. m
  BY DEF UniqInv
<1>2. PICK r \in Ranges : r = uniq[k].range
  <2>1. uniq[k] \in [range : Ranges, n : Int]
    <3>1. uniq \in Seq([range : Ranges, n : Int]) /\ k \in 1 .. Len(uniq)
      BY <1>1 DEF UniqInv
    <3> QED BY <3>1, MemberOfSeq, Zenon
  <2> QED BY <2>1
<1>3. PICK t \in Nat \ {0} : t = r[2] - r[1] + 1 /\ t <= INT_MAX
  BY <1>2, RangeFacts
<1>4. ASSUME NEW j \in DOMAIN uniq, uniq[j].range = r
      PROVE  /\ uniq[j].n = r[1] + ((LARGE_PRIME * j) % t)
             /\ (LARGE_PRIME * j) % t \in 0 .. t - 1
             /\ j \in Nat
  <2>1. j \in 1 .. m
    BY <1>1
  <2>2. LARGE_PRIME * j \in Int
    BY <2>1, PrimeFacts
  <2>3. uniq[j].n = UniqNumber(LARGE_PRIME * j, r[1], r[2])
    BY <1>1, <1>4, <2>1, Zenon DEF UniqInv
  <2> QED BY <1>3, <2>1, <2>2, <2>3, UniqFits
<1>5. PICK y \in 0 .. t - 1 : y = (LARGE_PRIME * k) % t /\ uniq[k].n = r[1] + y /\ k \in Nat
  BY <1>2, <1>4
<1>6. ASSUME NEW j \in DOMAIN uniq, uniq[j].range = r, t % LARGE_PRIME # 0, j < k, k - j < t
      PROVE  uniq[j].n # uniq[k].n
  <2>1. PICK x \in 0 .. t - 1 :
          x = (LARGE_PRIME * j) % t /\ uniq[j].n = r[1] + x /\ j \in Nat
    BY <1>4, <1>6
  <2>2. x # y
    BY <1>5, <1>6, <2>1, PrimeFacts, DrawsDiffer
  <2> QED BY <1>5, <2>1, <2>2, RangeFacts
<1> QED BY <1>2, <1>3, <1>5, <1>6, RangeFacts

(* Of every distribution, prime and set of ranges, in the arithmetic of C: *)
(* a number drawn is in its range but for the cases NumbersSound names,    *)
(* the unique ones do not repeat early even if other ranges are drawn from *)
(* in between, and only ranges that fill a word kill the process.          *)
THEOREM DrawsAreSound == MainSpec => []NumbersSound
<1>1. MainSpec => [](UniqInv /\ DrawnInv)
  BY InitUniq, NextUniq, PTL DEF MainSpec
<1> QED BY <1>1, UniqSound, PTL
-----------------------------------------------------------------------------
(* The options: those registered are there with their types, and only      *)
(* --config-file is a file.                                                *)
IsOption(v) ==
  /\ v = [type |-> v.type, values |-> v.values]
  /\ v.type \in Types \cup {"NULL"}
  /\ IsSeq(v.values)

IsOptions(o) ==
  /\ o = [n \in DOMAIN o |-> o[n]]
  /\ \A n \in DOMAIN o : IsOption(o[n])
  /\ DOMAIN args \subseteq DOMAIN o
  /\ \A n \in DOMAIN args : o[n].type = args[n].type
  /\ \A n \in DOMAIN o : o[n].type = "FILE" => n = "config-file"

(* p has what o has, and for each name but --config-file what the last of  *)
(* the settings s for it says.                                             *)
Applied(o, s, p) ==
  /\ IsOptions(p)
  /\ DOMAIN o \subseteq DOMAIN p
  /\ \A n \in DOMAIN o : p[n].type = o[n].type
  /\ \A n \in DOMAIN p \ {"config-file"} :
       \/ n \in DOMAIN o /\ p[n] = o[n] /\ \A k \in DOMAIN s : s[k].name # n
       \/ \E k \in DOMAIN s :
            /\ s[k].name = n
            /\ \A l \in DOMAIN s : s[l].name = n => l <= k
            /\ p[n].values = IF s[k].from = "file" THEN s[k].values
                             ELSE ValuesOf(p[n].type, s[k].values)

(* Sequences: none, one element, and their domain. *)
LEMMA SeqFacts ==
  /\ IsSeq(<<>>)
  /\ \A x : IsSeq(<<x>>)
  /\ \A s : IsSeq(s) => Len(s) \in Nat /\ DOMAIN s = 1 .. Len(s)
<1>1. IsSeq(<<>>)
  BY DEF IsSeq
<1>2. ASSUME NEW x PROVE IsSeq(<<x>>)
  <2>1. x \in Range(<<x>>)
    BY DEF Range
  <2> QED BY <2>1 DEF IsSeq
<1>3. ASSUME NEW s, IsSeq(s) PROVE Len(s) \in Nat /\ DOMAIN s = 1 .. Len(s)
  BY <1>3 DEF IsSeq
<1> QED BY <1>1, <1>2, <1>3

(* A setting leaves a sequence of values, --config-file leaves none. *)
LEMMA ValuesFacts ==
  ASSUME NEW type \in Types \cup {"NULL"}, NEW values, IsSeq(values)
  PROVE  IsSeq(ValuesOf(type, values)) /\ ValuesOf("FILE", values) = <<>>
<1>1. \/ \E x : ValuesOf(type, values) = <<x>>
      \/ ValuesOf(type, values) = <<>>
      \/ ValuesOf(type, values) = values
  BY DEF ValuesOf, Types
<1>2. ValuesOf("FILE", values) = <<>>
  BY DEF ValuesOf
<1> QED BY <1>1, <1>2, SeqFacts, Zenon

(* add_option keeps the options there are. *)
LEMMA AddFacts ==
  ASSUME NEW o, IsOptions(o), NEW name
  PROVE  /\ IsOptions(add_option(o, name))
         /\ DOMAIN add_option(o, name) = DOMAIN o \cup {name}
         /\ \A n \in DOMAIN o : add_option(o, name)[n] = o[n]
         /\ name \notin DOMAIN o =>
              add_option(o, name)[name] = [type |-> "NULL", values |-> <<>>]
<1>1. CASE name \in DOMAIN o
  <2>1. add_option(o, name) = o
    BY <1>1 DEF add_option
  <2> QED BY <1>1, <2>1
<1>2. CASE name \notin DOMAIN o
  <2>1. PICK p : p = add_option(o, name)
    OBVIOUS
  <2>2. p = [n \in DOMAIN o \cup {name} |->
               IF n = name THEN [type |-> "NULL", values |-> <<>>] ELSE o[n]]
    BY <1>2, <2>1, Zenon DEF add_option
  <2>3. /\ DOMAIN p = DOMAIN o \cup {name}
        /\ \A n \in DOMAIN o : p[n] = o[n]
        /\ p[name] = [type |-> "NULL", values |-> <<>>]
    BY <1>2, <2>2
  <2>4. p[name].type = "NULL" /\ p[name].values = <<>>
    BY <2>3
  <2>5. IsOption(p[name])
    BY <2>3, <2>4, SeqFacts, Zenon DEF IsOption
  <2>6. p = [n \in DOMAIN p |-> p[n]] /\ \A n \in DOMAIN p : IsOption(p[n])
    <3>1. p = [n \in DOMAIN p |-> p[n]]
      BY <2>2
    <3> QED BY <2>3, <2>5, <3>1, Zenon DEF IsOptions
  <2>7. /\ DOMAIN args \subseteq DOMAIN p
        /\ \A n \in DOMAIN args : p[n].type = args[n].type
        /\ \A n \in DOMAIN p : p[n].type = "FILE" => n = "config-file"
    BY <2>3, <2>4 DEF IsOptions
  <2>8. IsOptions(p)
    BY <2>6, <2>7, Zenon DEF IsOptions
  <2> QED BY <1>2, <2>1, <2>3, <2>8, Zenon
<1> QED BY <1>1, <1>2

(* An option that is there gets other values. *)
LEMMA ChangeFacts ==
  ASSUME NEW o, IsOptions(o), NEW name \in DOMAIN o, NEW v, IsOption(v),
         NEW p, p = [o EXCEPT ![name] = v],
         name \in DOMAIN args => v.type = args[name].type,
         v.type = "FILE" => name = "config-file"
  PROVE  /\ IsOptions(p) /\ DOMAIN p = DOMAIN o /\ p[name] = v
         /\ \A n \in DOMAIN o : n # name => p[n] = o[n]
<1>1. p = [n \in DOMAIN p |-> p[n]] /\ DOMAIN p = DOMAIN o
  OBVIOUS
<1>2. p[name] = v /\ \A n \in DOMAIN o : n # name => p[n] = o[n]
  OBVIOUS
<1>3. \A n \in DOMAIN p : IsOption(p[n])
  BY <1>1, <1>2, Zenon DEF IsOptions
<1>4. /\ DOMAIN args \subseteq DOMAIN p
      /\ \A n \in DOMAIN args : p[n].type = args[n].type
      /\ \A n \in DOMAIN p : p[n].type = "FILE" => n = "config-file"
  BY <1>1, <1>2, Zenon DEF IsOptions
<1> QED BY <1>1, <1>2, <1>3, <1>4, Zenon DEF IsOptions

(* The lines read of a file are a sequence, and their values are. *)
LEMMA LinesFacts ==
  ASSUME NEW file \in DOMAIN config_files
  PROVE  /\ IsSeq(LinesOf(file))
         /\ \A k \in DOMAIN LinesOf(file) :
              /\ IsSeq(LinesOf(file)[k].values)
              /\ NotSet \notin Range(LinesOf(file)[k].values)
<1>1. PICK lines : /\ lines = config_files[file] /\ lines \in Seq(Range(lines))
                   /\ \A k \in DOMAIN lines :
                        IsSeq(lines[k].values) /\ NotSet \notin Range(lines[k].values)
  BY StartupAssumption DEF IsSeq
<1> DEFINE open == {n \in DOMAIN lines : ~lines[n].closed}
<1>2. CASE open = {}
  <2>1. LinesOf(file) = lines
    BY <1>1, <1>2, Zenon DEF LinesOf
  <2> QED BY <1>1, <2>1 DEF IsSeq
<1>3. CASE open # {}
  <2>1. PICK m \in DOMAIN lines : LinesOf(file) = SubSeq(lines, 1, m)
    <3>1. PICK n : n = CHOOSE x \in open : \A y \in open : x <= y
      OBVIOUS
    <3>2. LinesOf(file) = SubSeq(lines, 1, n)
      BY <1>1, <1>3, <3>1, Zenon DEF LinesOf
    <3>3. \E x \in open : \A y \in open : x <= y
      <4>1. open \subseteq Nat
        BY <1>1
      <4> QED BY <1>3, <4>1, LeastNatural
    <3>4. n \in open
      BY <3>1, <3>3, Zenon
    <3> QED BY <3>2, <3>4
  <2>2. PICK s : s = SubSeq(lines, 1, m)
    OBVIOUS
  <2>3. s \in Seq(Range(lines)) /\ Len(s) = m /\ \A k \in 1 .. m : s[k] = lines[k]
    BY <1>1, <2>2
  <2>4. s \in Seq(Range(s))
    BY <2>3 DEF Range
  <2>5. \A k \in DOMAIN s : IsSeq(s[k].values) /\ NotSet \notin Range(s[k].values)
    BY <1>1, <2>3
  <2> QED BY <2>1, <2>2, <2>4, <2>5, Zenon DEF IsSeq
<1> QED BY <1>2, <1>3

(* What a line changes. *)
LineRead(o, line, p) ==
  /\ IsOptions(p) /\ DOMAIN p = DOMAIN o \cup {line.name}
  /\ \A n \in DOMAIN o : p[n].type = o[n].type
  /\ \A n \in DOMAIN o : n # line.name => p[n] = o[n]
  /\ p[line.name].values = line.values

(* A line sets the values of its option and nothing else. *)
LEMMA ReadLineFacts ==
  ASSUME NEW o, IsOptions(o), NEW line, IsSeq(line.values),
         NEW p, p = ReadLine(o, line)
  PROVE  LineRead(o, line, p)
<1>1. PICK name, values : name = line.name /\ values = line.values /\ IsSeq(values)
  OBVIOUS
<1>2. PICK q : q = add_option(o, name)
  OBVIOUS
<1>3. /\ IsOptions(q)
      /\ DOMAIN q = DOMAIN o \cup {name}
      /\ \A n \in DOMAIN o : q[n] = o[n]
  <2>1. /\ IsOptions(add_option(o, name))
        /\ DOMAIN add_option(o, name) = DOMAIN o \cup {name}
        /\ \A n \in DOMAIN o : add_option(o, name)[n] = o[n]
    BY ONLY IsOptions(o), AddFacts, Zenon
  <2> QED BY <1>2, <2>1
<1>5. p = [q EXCEPT ![name] = [q[name] EXCEPT !.values = values]]
  BY <1>1, <1>2 DEF ReadLine
<1>6. PICK v : /\ v = [q[name] EXCEPT !.values = values]
               /\ IsOption(v) /\ v.type = q[name].type /\ v.values = values
  <2>1. PICK type : type = q[name].type /\ type \in Types \cup {"NULL"}
    BY <1>3 DEF IsOptions, IsOption
  <2>2. q[name] = [type |-> type, values |-> q[name].values]
    BY <1>3, <2>1 DEF IsOptions, IsOption
  <2>3. PICK v : v = [q[name] EXCEPT !.values = values]
    OBVIOUS
  <2>4. v = [type |-> type, values |-> values]
    BY <2>2, <2>3
  <2>5. v.type = type /\ v.values = values
    BY <2>4
  <2>6. IsOption(v)
    BY <1>1, <2>1, <2>4, <2>5, Zenon DEF IsOption
  <2> QED BY <2>1, <2>3, <2>5, <2>6
<1>7. name \in DOMAIN q /\ (name \in DOMAIN args => v.type = args[name].type)
      /\ (v.type = "FILE" => name = "config-file")
  BY <1>3, <1>6 DEF IsOptions
<1>8. /\ IsOptions(p) /\ DOMAIN p = DOMAIN q /\ p[name] = v
      /\ \A n \in DOMAIN q : n # name => p[n] = q[n]
  <2>1. p = [q EXCEPT ![name] = v]
    BY <1>5, <1>6, Zenon
  <2> QED BY ONLY <1>3, <1>6, <1>7, <2>1, ChangeFacts, Zenon
<1>9. \A n \in DOMAIN o : p[n].type = o[n].type
  BY <1>3, <1>6, <1>8
<1> QED BY <1>1, <1>3, <1>6, <1>8, <1>9 DEF LineRead

(* What the first m lines make of the options. *)
ReadUpTo(o, lines, m, p) ==
  /\ IsOptions(p)
  /\ DOMAIN o \subseteq DOMAIN p
  /\ \A n \in DOMAIN o : p[n].type = o[n].type
  /\ \A n \in DOMAIN p :
       \/ n \in DOMAIN o /\ p[n] = o[n] /\ \A k \in 1 .. m : lines[k].name # n
       \/ \E k \in 1 .. m :
            /\ lines[k].name = n /\ p[n].values = lines[k].values
            /\ \A l \in 1 .. m : lines[l].name = n => l <= k

(* One line more. *)
LEMMA ReadOneMore ==
  ASSUME NEW o, NEW lines, IsSeq(lines), \A k \in DOMAIN lines : IsSeq(lines[k].values),
         NEW m \in Nat, m + 1 <= Len(lines), NEW p, ReadUpTo(o, lines, m, p),
         NEW q, q = ReadLine(p, lines[m + 1])
  PROVE  ReadUpTo(o, lines, m + 1, q)
<1>1. PICK line : line = lines[m + 1] /\ IsSeq(line.values)
  <2>1. m + 1 \in DOMAIN lines
    BY SeqFacts
  <2> QED BY <2>1
<1>2. /\ IsOptions(q) /\ DOMAIN q = DOMAIN p \cup {line.name}
      /\ \A n \in DOMAIN p : q[n].type = p[n].type
      /\ \A n \in DOMAIN p : n # line.name => q[n] = p[n]
      /\ q[line.name].values = line.values
  <2>1. IsOptions(p) /\ IsSeq(line.values) /\ q = ReadLine(p, line)
    BY <1>1 DEF ReadUpTo
  <2>2. LineRead(p, line, q)
    BY <2>1, ReadLineFacts
  <2> QED BY <2>2, Zenon DEF LineRead
<1>3. DOMAIN o \subseteq DOMAIN q /\ \A n \in DOMAIN o : q[n].type = o[n].type
  BY <1>2 DEF ReadUpTo
<1>4. ASSUME NEW n \in DOMAIN q
      PROVE  \/ n \in DOMAIN o /\ q[n] = o[n] /\ \A k \in 1 .. m + 1 : lines[k].name # n
             \/ \E k \in 1 .. m + 1 :
                  /\ lines[k].name = n /\ q[n].values = lines[k].values
                  /\ \A l \in 1 .. m + 1 : lines[l].name = n => l <= k
  <2>1. \A k \in 1 .. m + 1 : k \in 1 .. m \/ k = m + 1
    OBVIOUS
  <2>2. CASE n = line.name
    <3>1. m + 1 \in 1 .. m + 1 /\ \A l \in 1 .. m + 1 : l <= m + 1
      OBVIOUS
    <3> QED BY <1>1, <1>2, <2>2, <3>1, Zenon
  <2>3. CASE n # line.name
    <3>1. n \in DOMAIN p /\ q[n] = p[n] /\ lines[m + 1].name # n
      BY <1>1, <1>2, <2>3
    <3>2. CASE n \in DOMAIN o /\ p[n] = o[n] /\ \A k \in 1 .. m : lines[k].name # n
      BY <2>1, <3>1, <3>2, Zenon
    <3>3. ASSUME NEW k \in 1 .. m, lines[k].name = n, p[n].values = lines[k].values,
                 \A l \in 1 .. m : lines[l].name = n => l <= k
          PROVE  \E x \in 1 .. m + 1 :
                   /\ lines[x].name = n /\ q[n].values = lines[x].values
                   /\ \A l \in 1 .. m + 1 : lines[l].name = n => l <= x
      <4>1. k \in 1 .. m + 1
        OBVIOUS
      <4> QED BY <2>1, <3>1, <3>3, <4>1, Zenon
    <3> QED BY <3>1, <3>2, <3>3, Zenon DEF ReadUpTo
  <2> QED BY <2>2, <2>3
<1> QED BY <1>2, <1>3, <1>4, Zenon DEF ReadUpTo

(* g is what read_config computes, line by line. *)
Reading(o, lines, g) ==
  g = [n \in 0 .. Len(lines) |-> IF n = 0 THEN o ELSE ReadLine(g[n - 1], lines[n])]

(* There is such a function. *)
LEMMA ReadExists ==
  ASSUME NEW o, NEW lines, IsSeq(lines)
  PROVE  \E g : Reading(o, lines, g)
<1> DEFINE S == {m \in Nat : \E g : g = [n \in 0 .. m |->
                      IF n = 0 THEN o ELSE ReadLine(g[n - 1], lines[n])]}
<1>1. 0 \in S
  <2>1. PICK g : g = [n \in 0 .. 0 |-> o]
    OBVIOUS
  <2>2. \A n \in 0 .. 0 : n = 0
    OBVIOUS
  <2>3. g = [n \in 0 .. 0 |-> IF n = 0 THEN o ELSE ReadLine(g[n - 1], lines[n])]
    BY <2>1, <2>2, Zenon
  <2> QED BY <2>3
<1>2. ASSUME NEW m \in Nat, m \in S PROVE m + 1 \in S
  <2>1. PICK g : g = [n \in 0 .. m |-> IF n = 0 THEN o ELSE ReadLine(g[n - 1], lines[n])]
    BY <1>2
  <2>2. PICK h : h = [n \in 0 .. m + 1 |->
                        IF n \in 0 .. m THEN g[n] ELSE ReadLine(g[m], lines[m + 1])]
    OBVIOUS
  <2>3. \A n \in 0 .. m : h[n] = g[n]
    <3>1. \A n \in 0 .. m : n \in 0 .. m + 1
      OBVIOUS
    <3> QED BY <2>2, <3>1, Zenon
  <2>4. ASSUME NEW n \in 0 .. m + 1
        PROVE  h[n] = IF n = 0 THEN o ELSE ReadLine(h[n - 1], lines[n])
    <3>1. CASE n = 0
      <4>1. 0 \in 0 .. m
        OBVIOUS
      <4>2. g[0] = o
        BY <2>1, <4>1, Zenon
      <4> QED BY <2>3, <3>1, <4>1, <4>2, Zenon
    <3>2. CASE n \in 0 .. m /\ n # 0
      <4>1. n - 1 \in 0 .. m
        BY <3>2
      <4>2. g[n] = ReadLine(g[n - 1], lines[n])
        BY <2>1, <3>2, Zenon
      <4> QED BY <2>3, <3>2, <4>1, <4>2, Zenon
    <3>3. CASE n = m + 1
      <4>1. m + 1 \notin 0 .. m /\ m + 1 # 0 /\ (m + 1) - 1 = m /\ m \in 0 .. m
        OBVIOUS
      <4>2. h[m + 1] = ReadLine(g[m], lines[m + 1])
        BY <2>2, <3>3, <4>1, Zenon
      <4> QED BY <2>3, <3>3, <4>1, <4>2, Zenon
    <3> QED BY <3>1, <3>2, <3>3
  <2>5. h = [n \in 0 .. m + 1 |-> IF n = 0 THEN o ELSE ReadLine(h[n - 1], lines[n])]
    BY <2>2, <2>4, Zenon
  <2>6. m + 1 \in Nat
    OBVIOUS
  <2> QED BY <2>5, <2>6, Zenon
<1>3. Len(lines) \in Nat
  BY SeqFacts
<1> HIDE DEF S
<1>4. Len(lines) \in S
  BY <1>1, <1>2, <1>3, NumberInduction
<1> QED BY <1>4, Zenon DEF S, Reading

(* The last line for a name counts, and what is there keeps its type. *)
LEMMA ReadConfigFacts ==
  ASSUME NEW o, IsOptions(o), NEW file \in DOMAIN config_files
  PROVE  ReadUpTo(o, LinesOf(file), Len(LinesOf(file)), read_config(o, file))
<1>1. PICK lines : /\ lines = LinesOf(file) /\ IsSeq(lines)
                   /\ \A k \in DOMAIN lines : IsSeq(lines[k].values)
  BY LinesFacts
<1>2. PICK read : /\ read = CHOOSE g : g = [n \in 0 .. Len(LinesOf(file)) |->
                                IF n = 0 THEN o ELSE ReadLine(g[n - 1], LinesOf(file)[n])]
                  /\ read_config(o, file) = read[Len(LinesOf(file))]
  BY Zenon DEF read_config
<1>3. \E g : g = [n \in 0 .. Len(LinesOf(file)) |->
                   IF n = 0 THEN o ELSE ReadLine(g[n - 1], LinesOf(file)[n])]
  <2>1. PICK g : Reading(o, lines, g)
    BY <1>1, ReadExists
  <2>2. g = [n \in 0 .. Len(LinesOf(file)) |->
               IF n = 0 THEN o ELSE ReadLine(g[n - 1], LinesOf(file)[n])]
    BY <1>1, <2>1, Zenon DEF Reading
  <2> QED BY <2>2, Zenon
<1>4. read = [n \in 0 .. Len(LinesOf(file)) |->
                IF n = 0 THEN o ELSE ReadLine(read[n - 1], LinesOf(file)[n])]
  BY <1>2, <1>3, Zenon
<1>5. \A n \in 0 .. Len(lines) :
        read[n] = IF n = 0 THEN o ELSE ReadLine(read[n - 1], lines[n])
  BY <1>1, <1>4, Zenon
<1> DEFINE S == {m \in Nat : m <= Len(lines) => ReadUpTo(o, lines, m, read[m])}
<1>6. 0 \in S
  <2>1. 0 \in 0 .. Len(lines) /\ \A k \in 1 .. 0 : FALSE
    BY <1>1, SeqFacts
  <2>2. read[0] = o
    BY <1>5, <2>1, Zenon
  <2>3. ReadUpTo(o, lines, 0, o)
    BY <2>1, Zenon DEF ReadUpTo
  <2> QED BY <2>2, <2>3
<1>7. ASSUME NEW m \in Nat, m \in S PROVE m + 1 \in S
  <2> SUFFICES ASSUME m + 1 <= Len(lines) PROVE ReadUpTo(o, lines, m + 1, read[m + 1])
    OBVIOUS
  <2>1. m + 1 \in 0 .. Len(lines) /\ m + 1 # 0 /\ (m + 1) - 1 = m /\ m <= Len(lines)
    BY <1>1, SeqFacts
  <2>2. read[m + 1] = ReadLine(read[m], lines[m + 1])
    BY <1>5, <2>1, Zenon
  <2>3. ReadUpTo(o, lines, m, read[m])
    BY <1>7, <2>1
  <2> QED BY <1>1, <2>2, <2>3, ReadOneMore, Zenon
<1>8. Len(lines) \in Nat /\ Len(lines) <= Len(lines)
  BY <1>1, SeqFacts
<1> HIDE DEF S
<1>9. Len(lines) \in S
  BY <1>6, <1>7, <1>8, NumberInduction
<1>10. ReadUpTo(o, lines, Len(lines), read[Len(lines)])
  BY <1>8, <1>9 DEF S
<1> QED BY <1>1, <1>2, <1>10, Zenon
-----------------------------------------------------------------------------
(* The type set_option is called with. *)
LEMMA TypeFacts ==
  ASSUME NEW o, IsOptions(o), NEW name
  PROVE  /\ TypeFor(o, name) \in Types \cup {"NULL"}
         /\ name \in DOMAIN o => TypeFor(o, name) = o[name].type
         /\ name \in DOMAIN args => TypeFor(o, name) = args[name].type
         /\ TypeFor(o, name) = "FILE" <=> name = "config-file"
<1>1. "STRING" \in Types /\ "STRING" # "FILE"
  BY DEF Types
<1>2. "config-file" \in DOMAIN args /\ args["config-file"].type = "FILE"
  BY StartupAssumption
<1> QED BY <1>1, <1>2, Zenon DEF TypeFor, IsOptions, IsOption

(* The values of one option, with its type. *)
OptionSet(o, name, values, p) ==
  /\ IsOptions(p)
  /\ DOMAIN p = DOMAIN o \cup {name}
  /\ \A n \in DOMAIN o : p[n].type = o[n].type
  /\ \A n \in DOMAIN o : n # name => p[n] = o[n]
  /\ p[name].values = ValuesOf(p[name].type, values)

(* Setting an option leaves the others and every type as they are. *)
LEMMA SetFacts ==
  ASSUME NEW o, IsOptions(o), NEW name, NEW values, IsSeq(values),
         NEW type, type = TypeFor(o, name),
         NEW p, p = [add_option(o, name) EXCEPT
                       ![name] = [type |-> type, values |-> ValuesOf(type, values)]]
  PROVE  OptionSet(o, name, values, p)
<1>1. PICK q : q = add_option(o, name)
  OBVIOUS
<1>2. /\ IsOptions(q)
      /\ DOMAIN q = DOMAIN o \cup {name}
      /\ \A n \in DOMAIN o : q[n] = o[n]
  <2>1. /\ IsOptions(add_option(o, name))
        /\ DOMAIN add_option(o, name) = DOMAIN o \cup {name}
        /\ \A n \in DOMAIN o : add_option(o, name)[n] = o[n]
    BY ONLY IsOptions(o), AddFacts, Zenon
  <2> QED BY <1>1, <2>1
<1>3. /\ type \in Types \cup {"NULL"}
      /\ name \in DOMAIN o => type = o[name].type
      /\ name \in DOMAIN args => type = args[name].type
      /\ type = "FILE" => name = "config-file"
  BY TypeFacts, Zenon
<1>4. PICK v : v = [type |-> type, values |-> ValuesOf(type, values)]
  OBVIOUS
<1>5. v.type = type /\ v.values = ValuesOf(type, values)
  BY <1>4
<1>6. IsOption(v)
  <2>1. IsSeq(ValuesOf(type, values))
    BY <1>3, ValuesFacts
  <2> QED BY <1>3, <1>4, <1>5, <2>1, Zenon DEF IsOption
<1>7. p = [q EXCEPT ![name] = v] /\ name \in DOMAIN q
  BY <1>1, <1>2, <1>4
<1>8. /\ IsOptions(p) /\ DOMAIN p = DOMAIN q /\ p[name] = v
      /\ \A n \in DOMAIN q : n # name => p[n] = q[n]
  <2>1. (name \in DOMAIN args => v.type = args[name].type)
        /\ (v.type = "FILE" => name = "config-file")
    BY <1>3, <1>5
  <2> QED BY ONLY <1>2, <1>6, <1>7, <2>1, ChangeFacts, Zenon
<1>9. \A n \in DOMAIN o : p[n].type = o[n].type
  BY <1>2, <1>3, <1>5, <1>8, Zenon
<1>10. p[name].values = ValuesOf(p[name].type, values)
  BY <1>5, <1>8, Zenon
<1>11. \A n \in DOMAIN o : n # name => p[n] = o[n]
  BY <1>2, <1>8, Zenon
<1> QED BY <1>2, <1>8, <1>9, <1>10, <1>11, Zenon DEF OptionSet

(* The settings of an argument. *)
LEMMA SettingsFacts ==
  ASSUME NEW a
  PROVE  /\ a.kind = "command" => SettingsOf(a) = <<>>
         /\ a.kind = "option" /\ a.name # "config-file" =>
              SettingsOf(a) = <<[from |-> "line", name |-> a.name, values |-> a.values]>>
         /\ a.kind = "option" /\ a.name = "config-file" =>
              IF a.values # <<>> /\ a.values[1].text \in DOMAIN config_files
              THEN SettingsOf(a) =
                     [k \in DOMAIN LinesOf(a.values[1].text) |->
                        [from |-> "file", name |-> LinesOf(a.values[1].text)[k].name,
                         values |-> LinesOf(a.values[1].text)[k].values]]
              ELSE SettingsOf(a) = <<>>
<1>1. a.kind = "command" => SettingsOf(a) = <<>>
  BY DEF SettingsOf
<1>2. ASSUME a.kind = "option", a.name # "config-file"
      PROVE  SettingsOf(a) = <<[from |-> "line", name |-> a.name, values |-> a.values]>>
  BY <1>2 DEF SettingsOf
<1>3. ASSUME a.kind = "option", a.name = "config-file"
      PROVE  SettingsOf(a) =
               IF a.values # <<>> /\ a.values[1].text \in DOMAIN config_files
               THEN [k \in DOMAIN LinesOf(a.values[1].text) |->
                      [from |-> "file", name |-> LinesOf(a.values[1].text)[k].name,
                       values |-> LinesOf(a.values[1].text)[k].values]]
               ELSE <<>>
  <2>1. "option" # "command"
    OBVIOUS
  <2> QED BY <1>3, <2>1 DEF SettingsOf
<1> QED BY <1>1, <1>2, <1>3, Zenon

(* set_option applies them. *)
LEMMA SetOptionFacts ==
  ASSUME NEW o, IsOptions(o), NEW a, a.kind = "option", IsSeq(a.values),
         NEW p, p = set_option(o, a.name, a.values, TypeFor(o, a.name))
  PROVE  Applied(o, SettingsOf(a), p)
<1>1. PICK name, values, type : /\ name = a.name /\ values = a.values /\ type = TypeFor(o, name)
                               /\ IsSeq(values)
  OBVIOUS
<1>2. PICK s : s = SettingsOf(a)
  OBVIOUS
<1>3. PICK q : q = [add_option(o, name) EXCEPT
                      ![name] = [type |-> type, values |-> ValuesOf(type, values)]]
  OBVIOUS
<1>4. OptionSet(o, name, values, q)
  BY <1>1, <1>3, SetFacts
<1>5. p = IF type = "FILE" /\ values # <<>> /\ values[1].text \in DOMAIN config_files
          THEN read_config(q, values[1].text) ELSE q
  BY <1>1, <1>3, Zenon DEF set_option
<1>6. type = "FILE" <=> name = "config-file"
  BY <1>1, TypeFacts
<1>7. CASE name # "config-file"
  <2>1. p = q
    BY <1>5, <1>6, <1>7
  <2>2. PICK e : e = [from |-> "line", name |-> name, values |-> values] /\ s = <<e>>
    BY <1>1, <1>2, <1>7, SettingsFacts, Zenon
  <2>3. DOMAIN s = {1} /\ s[1].name = name /\ s[1].from = "line" /\ s[1].values = values
    BY <2>2
  <2>4. ASSUME NEW n \in DOMAIN p
        PROVE  \/ n \in DOMAIN o /\ p[n] = o[n] /\ \A k \in DOMAIN s : s[k].name # n
               \/ \E k \in DOMAIN s :
                    /\ s[k].name = n
                    /\ \A l \in DOMAIN s : s[l].name = n => l <= k
                    /\ p[n].values = IF s[k].from = "file" THEN s[k].values
                                     ELSE ValuesOf(p[n].type, s[k].values)
    <3>1. CASE n = name
      <4>1. \A l \in DOMAIN s : l <= 1
        BY <2>3
      <4>2. 1 \in DOMAIN s
        BY <2>3
      <4>3. p[n].values = ValuesOf(p[n].type, s[1].values)
        BY <1>4, <2>1, <2>3, <3>1, Zenon DEF OptionSet
      <4>4. s[1].from # "file"
        BY <2>3
      <4> QED BY <2>3, <3>1, <4>1, <4>2, <4>3, <4>4, Zenon
    <3>2. CASE n # name
      BY <1>4, <2>1, <2>3, <3>2, Zenon DEF OptionSet
    <3> QED BY <3>1, <3>2
  <2>5. Applied(o, s, p)
    BY <1>4, <2>1, <2>4, Zenon DEF OptionSet, Applied
  <2> QED BY <1>2, <2>5
<1>8. CASE name = "config-file" /\ ~(values # <<>> /\ values[1].text \in DOMAIN config_files)
  <2>1. p = q
    BY <1>5, <1>8
  <2>2. s = <<>>
    BY <1>1, <1>2, <1>8, SettingsFacts, Zenon
  <2>3. \A k \in DOMAIN s : FALSE
    BY <2>2
  <2>4. Applied(o, s, p)
    BY <1>4, <1>8, <2>1, <2>3, Zenon DEF OptionSet, Applied
  <2> QED BY <1>2, <2>4
<1>9. CASE name = "config-file" /\ values # <<>> /\ values[1].text \in DOMAIN config_files
  <2>1. PICK file \in DOMAIN config_files : file = values[1].text
    BY <1>9
  <2>2. PICK lines : /\ lines = LinesOf(file) /\ DOMAIN lines = 1 .. Len(lines)
                     /\ Len(lines) \in Nat
    BY LinesFacts, SeqFacts
  <2>3. p = read_config(q, file)
    BY <1>5, <1>6, <1>9, <2>1, Zenon
  <2>4. IsOptions(q)
    BY <1>4 DEF OptionSet
  <2>5. ReadUpTo(q, lines, Len(lines), p)
    BY <2>2, <2>3, <2>4, ReadConfigFacts, Zenon
  <2>6. s = [k \in DOMAIN lines |-> [from |-> "file", name |-> lines[k].name,
                                     values |-> lines[k].values]]
    BY <1>1, <1>2, <1>9, <2>1, <2>2, SettingsFacts, Zenon
  <2>7. /\ DOMAIN s = 1 .. Len(lines)
        /\ \A k \in 1 .. Len(lines) : /\ s[k].name = lines[k].name /\ s[k].from = "file"
                                       /\ s[k].values = lines[k].values
    BY <2>2, <2>6
  <2>8. IsOptions(p) /\ DOMAIN o \subseteq DOMAIN p /\ \A n \in DOMAIN o : p[n].type = o[n].type
    BY <1>4, <2>5, Zenon DEF OptionSet, ReadUpTo
  <2>9. ASSUME NEW n \in DOMAIN p \ {"config-file"}
        PROVE  \/ n \in DOMAIN o /\ p[n] = o[n] /\ \A k \in DOMAIN s : s[k].name # n
               \/ \E k \in DOMAIN s :
                    /\ s[k].name = n
                    /\ \A l \in DOMAIN s : s[l].name = n => l <= k
                    /\ p[n].values = IF s[k].from = "file" THEN s[k].values
                                     ELSE ValuesOf(p[n].type, s[k].values)
    <3>1. CASE n \in DOMAIN q /\ p[n] = q[n] /\ \A k \in 1 .. Len(lines) : lines[k].name # n
      <4>1. n \in DOMAIN o /\ q[n] = o[n]
        BY <1>4, <1>9, <3>1, Zenon DEF OptionSet
      <4> QED BY <2>7, <3>1, <4>1, Zenon
    <3>2. ASSUME NEW k \in 1 .. Len(lines),
                 lines[k].name = n, p[n].values = lines[k].values,
                 \A l \in 1 .. Len(lines) : lines[l].name = n => l <= k
          PROVE  \E x \in DOMAIN s :
                    /\ s[x].name = n
                    /\ \A l \in DOMAIN s : s[l].name = n => l <= x
                    /\ p[n].values = IF s[x].from = "file" THEN s[x].values
                                     ELSE ValuesOf(p[n].type, s[x].values)
      BY <2>7, <3>2, Zenon
    <3> QED BY <2>5, <3>1, <3>2, Zenon DEF ReadUpTo
  <2>10. Applied(o, s, p)
    BY <2>8, <2>9, Zenon DEF Applied
  <2> QED BY <1>2, <2>10
<1> QED BY <1>7, <1>8, <1>9
-----------------------------------------------------------------------------
(* An option has the type it is registered with, and its default or the    *)
(* values of the last setting of it: as its type has them from the command *)
(* line, as they stand from a file.                                        *)
SetBy(name) ==
  /\ name \in DOMAIN args => options[name].type = args[name].type
  /\ \/ Positions(name) = {} /\ options[name] = Registered[name]
     \/ \E p \in Positions(name) :
          LET last == Setting(p[1], p[2]) IN
          /\ \A q \in Positions(name) : q # p => Before(q, p)
          /\ options[name].values =
               IF last.from = "file" THEN last.values
               ELSE ValuesOf(options[name].type, last.values)

AllSet ==
  phase \in {"parse", "dispatch"} =>
    \A name \in DOMAIN options \ {"config-file"} : SetBy(name)

(* The options are typed, and as set while arguments are parsed. *)
OptInv ==
  /\ i \in Nat \ {0}
  /\ argv \in CommandLines
  /\ IsOptions(options)
  /\ AllSet

(* The registered options are typed. *)
LEMMA RegisteredFacts ==
  /\ IsOptions(Registered)
  /\ DOMAIN Registered = DOMAIN args
<1>1. PICK o : o = Registered
  OBVIOUS
<1>2. /\ o = [n \in DOMAIN o |-> o[n]] /\ DOMAIN o = DOMAIN args
      /\ \A n \in DOMAIN args :
           o[n] = [type |-> args[n].type, values |-> ValuesOf(args[n].type, args[n].values)]
  BY <1>1 DEF Registered
<1>3. ASSUME NEW n \in DOMAIN args
      PROVE  o[n].type = args[n].type /\ IsOption(o[n])
             /\ (o[n].type = "FILE" => n = "config-file")
  <2>1. PICK type, values : /\ type = args[n].type /\ values = args[n].values
                            /\ type \in Types /\ IsSeq(values)
                            /\ (type = "FILE" => n = "config-file")
    BY StartupAssumption
  <2>2. o[n] = [type |-> type, values |-> ValuesOf(type, values)]
    BY <1>2, <2>1
  <2>3. o[n].type = type /\ o[n].values = ValuesOf(type, values)
    BY <2>2
  <2>4. IsSeq(ValuesOf(type, values))
    BY <2>1, ValuesFacts
  <2>5. IsOption(o[n])
    BY <2>1, <2>2, <2>3, <2>4, Zenon DEF IsOption
  <2> QED BY <2>1, <2>3, <2>5
<1>4. IsOptions(o)
  BY <1>2, <1>3, Zenon DEF IsOptions
<1> QED BY <1>1, <1>2, <1>4

(* Before the first argument every option has its default. *)
LEMMA InitOpt == MainInit => OptInv
<1> SUFFICES ASSUME MainInit PROVE OptInv
  OBVIOUS
<1>1. argv \in CommandLines /\ i = 1 /\ options = Registered
  BY DEF MainInit
<1>2. ASSUME NEW name \in DOMAIN options \ {"config-file"} PROVE SetBy(name)
  <2>1. Positions(name) = {}
    BY <1>1 DEF Positions
  <2>2. name \in DOMAIN args => options[name].type = args[name].type
    BY <1>1, RegisteredFacts, Zenon DEF IsOptions
  <2> QED BY <1>1, <2>1, <2>2, Zenon DEF SetBy
<1>3. 1 \in Nat \ {0}
  OBVIOUS
<1> QED BY <1>1, <1>2, <1>3, RegisteredFacts, Zenon DEF OptInv, AllSet

(* The settings of an argument are numbered. *)
LEMMA SettingsDomain ==
  ASSUME NEW a, a.kind \in {"command", "option"}
  PROVE  DOMAIN SettingsOf(a) \subseteq Nat
<1>1. PICK s : s = SettingsOf(a)
  OBVIOUS
<1>2. CASE s = <<>>
  BY <1>1, <1>2
<1>3. CASE s = <<[from |-> "line", name |-> a.name, values |-> a.values]>>
  BY <1>1, <1>3
<1>4. ASSUME NEW file \in DOMAIN config_files,
             s = [k \in DOMAIN LinesOf(file) |->
                    [from |-> "file", name |-> LinesOf(file)[k].name,
                     values |-> LinesOf(file)[k].values]]
      PROVE  DOMAIN s \subseteq Nat
  <2>1. DOMAIN s = DOMAIN LinesOf(file)
    BY <1>4
  <2>2. IsSeq(LinesOf(file))
    BY LinesFacts
  <2>3. Len(LinesOf(file)) \in Nat /\ DOMAIN LinesOf(file) = 1 .. Len(LinesOf(file))
    BY <2>2, SeqFacts
  <2> QED BY <2>1, <2>3
<1> QED BY <1>1, <1>2, <1>3, <1>4, SettingsFacts, Zenon

(* An argument more: a setting in it is behind all the settings before. *)
LEMMA GivenStep ==
  ASSUME i \in Nat \ {0}, NEW a, a = argv[i], a.kind \in {"command", "option"},
         Applied(options, SettingsOf(a), options'),
         i' = i + 1, argv' = argv,
         \A name \in DOMAIN options \ {"config-file"} : SetBy(name),
         NEW name \in DOMAIN options' \ {"config-file"}
  PROVE  SetBy(name)'
<1>1. PICK s : s = SettingsOf(a) /\ s = SettingsOf(argv[i]) /\ DOMAIN s \subseteq Nat
  BY SettingsDomain
<1>2. \A p : p \in Positions(name) <=>
         \E j \in 1 .. (i - 1) : \E k \in DOMAIN SettingsOf(argv[j]) :
           p = <<j, k>> /\ SettingsOf(argv[j])[k].name = name
  BY DEF Positions, Setting
<1>3. \A p : p \in Positions(name)' <=>
         \E j \in 1 .. i : \E k \in DOMAIN SettingsOf(argv[j]) :
           p = <<j, k>> /\ SettingsOf(argv[j])[k].name = name
  <2>1. 1 .. (i' - 1) = 1 .. i
    OBVIOUS
  <2>2. \A p : p \in Positions(name)' <=>
         \E j \in 1 .. (i' - 1) : \E k \in DOMAIN SettingsOf(argv'[j]) :
           p = <<j, k>> /\ SettingsOf(argv'[j])[k].name = name
    BY DEF Positions, Setting
  <2> QED BY <2>1, <2>2
<1>4. \A j \in 1 .. i : j = i \/ j \in 1 .. (i - 1)
  OBVIOUS
<1>5. i \in 1 .. i /\ \A j \in 1 .. (i - 1) : j \in 1 .. i /\ j < i
  OBVIOUS
<1>6. name \in DOMAIN args => options'[name].type = args[name].type
  BY DEF Applied, IsOptions
<1>7. CASE /\ name \in DOMAIN options /\ options'[name] = options[name]
           /\ \A k \in DOMAIN s : s[k].name # name
  <2>1. Positions(name)' = Positions(name)
    <3>1. ASSUME NEW p \in Positions(name) PROVE p \in Positions(name)'
      BY <1>2, <1>3, <1>5, Zenon
    <3>2. ASSUME NEW p \in Positions(name)' PROVE p \in Positions(name)
      <4>1. PICK j \in 1 .. i : \E k \in DOMAIN SettingsOf(argv[j]) :
              p = <<j, k>> /\ SettingsOf(argv[j])[k].name = name
        BY <1>3, <3>2, Zenon
      <4>2. j # i
        BY <1>1, <1>7, <4>1, Zenon
      <4> QED BY <1>2, <1>4, <4>1, <4>2, Zenon
    <3> QED BY <3>1, <3>2
  <2>2. SetBy(name)
    BY <1>7
  <2>3. CASE Positions(name) = {} /\ options[name] = Registered[name]
    BY <1>6, <1>7, <2>1, <2>3, Zenon DEF SetBy
  <2>4. ASSUME NEW p \in Positions(name),
               \A q \in Positions(name) : q # p => Before(q, p),
               options[name].values =
                 IF Setting(p[1], p[2]).from = "file" THEN Setting(p[1], p[2]).values
                 ELSE ValuesOf(options[name].type, Setting(p[1], p[2]).values)
        PROVE  SetBy(name)'
    <3>1. Setting(p[1], p[2])' = Setting(p[1], p[2])
      BY Zenon DEF Setting
    <3>2. p \in Positions(name)' /\ \A q \in Positions(name)' : q # p => Before(q, p)
      BY <2>1, <2>4
    <3> QED BY <1>6, <1>7, <2>4, <3>1, <3>2, Zenon DEF SetBy
  <2> QED BY <2>2, <2>3, <2>4, Zenon DEF SetBy
<1>8. ASSUME NEW k \in DOMAIN s, s[k].name = name,
             \A l \in DOMAIN s : s[l].name = name => l <= k,
             options'[name].values = IF s[k].from = "file" THEN s[k].values
                                     ELSE ValuesOf(options'[name].type, s[k].values)
      PROVE  SetBy(name)'
  <2>1. PICK p : p = <<i, k>> /\ p[1] = i /\ p[2] = k
    <3>1. <<i, k>>[1] = i /\ <<i, k>>[2] = k
      OBVIOUS
    <3> QED BY <3>1, Zenon
  <2>2. p \in Positions(name)'
    BY <1>1, <1>3, <1>5, <1>8, <2>1, Zenon
  <2>3. ASSUME NEW q \in Positions(name)', q # p PROVE Before(q, p)
    <3>0. PICK j \in 1 .. i : \E l \in DOMAIN SettingsOf(argv[j]) :
            q = <<j, l>> /\ SettingsOf(argv[j])[l].name = name
      BY <1>3, <2>3, Zenon
    <3>1. PICK l \in DOMAIN SettingsOf(argv[j]) :
            q = <<j, l>> /\ SettingsOf(argv[j])[l].name = name
      BY <3>0, Zenon
    <3>2. q[1] = j /\ q[2] = l
      BY <3>1
    <3>3. CASE j = i
      <4>1. l \in DOMAIN s /\ s[l].name = name /\ l # k
        BY <1>1, <2>1, <2>3, <3>1, <3>3, Zenon
      <4>2. l \in Nat /\ k \in Nat /\ l <= k
        BY <1>1, <1>8, <4>1
      <4>3. l < k
        BY <4>1, <4>2
      <4> QED BY <2>1, <3>2, <3>3, <4>3, Zenon DEF Before
    <3>4. CASE j \in 1 .. (i - 1)
      BY <1>5, <2>1, <3>2, <3>4, Zenon DEF Before
    <3> QED BY <1>4, <3>3, <3>4
  <2>4. Setting(p[1], p[2])' = s[k]
    BY <1>1, <2>1, Zenon DEF Setting
  <2> QED BY <1>6, <1>8, <2>2, <2>3, <2>4, Zenon DEF SetBy
<1>9. Applied(options, s, options')
  BY <1>1
<1> QED BY <1>7, <1>8, <1>9, Zenon DEF Applied

(* A step that leaves the options and the arguments alone. *)
LEMMA SameOptions ==
  ASSUME OptInv, UNCHANGED <<argv, i, options>>,
         phase' \in {"parse", "dispatch"} => phase \in {"parse", "dispatch"}
  PROVE  OptInv'
<1>1. ASSUME phase' \in {"parse", "dispatch"},
             NEW name \in DOMAIN options' \ {"config-file"}
      PROVE  SetBy(name)'
  <2>1. SetBy(name)
    BY <1>1 DEF OptInv, AllSet
  <2>2. Positions(name)' = Positions(name)
    BY DEF Positions, Setting
  <2>3. \A p : Setting(p[1], p[2])' = Setting(p[1], p[2])
    BY Zenon DEF Setting
  <2> QED BY <2>1, <2>2, <2>3, Zenon DEF SetBy
<1> QED BY <1>1, Zenon DEF OptInv, AllSet

(* An argument is parsed. *)
LEMMA ParsedOne ==
  ASSUME OptInv, phase \in {"parse", "dispatch"}, argv[i].kind \in {"command", "option"},
         Applied(options, SettingsOf(argv[i]), options'), i' = i + 1, argv' = argv
  PROVE  OptInv'
<1>1. i \in Nat \ {0} /\ i' \in Nat \ {0} /\ argv' \in CommandLines /\ IsOptions(options')
  BY DEF OptInv, Applied
<1>2. \A name \in DOMAIN options \ {"config-file"} : SetBy(name)
  BY DEF OptInv, AllSet
<1>3. ASSUME NEW name \in DOMAIN options' \ {"config-file"} PROVE SetBy(name)'
  BY <1>1, <1>2, GivenStep
<1> QED BY <1>1, <1>3, Zenon DEF OptInv, AllSet

(* A command makes no setting. *)
LEMMA ParseCommandOpt == OptInv /\ ParseCommand => OptInv'
<1> SUFFICES ASSUME OptInv, ParseCommand PROVE OptInv'
  OBVIOUS
<1>1. /\ phase = "parse" /\ argv[i].kind = "command" /\ UNCHANGED <<argv, options>>
      /\ \/ phase' = "exited" /\ UNCHANGED i
         \/ i' = i + 1
  BY Zenon DEF ParseCommand, Exit
<1>2. CASE phase' = "exited" /\ UNCHANGED i
  BY <1>1, <1>2, SameOptions
<1>3. CASE i' = i + 1
  <2>1. SettingsOf(argv[i]) = <<>>
    BY <1>1, SettingsFacts
  <2>2. \A k \in DOMAIN SettingsOf(argv[i]) : FALSE
    BY <2>1
  <2>3. IsOptions(options)
    BY DEF OptInv
  <2>4. Applied(options, SettingsOf(argv[i]), options')
    BY <1>1, <2>2, <2>3, Zenon DEF Applied
  <2> QED BY <1>1, <1>3, <2>4, ParsedOne
<1> QED BY <1>1, <1>2, <1>3

(* An option makes its own, or those of its file. *)
LEMMA ParseOptionOpt == OptInv /\ ParseOption => OptInv'
<1> SUFFICES ASSUME OptInv, ParseOption PROVE OptInv'
  OBVIOUS
<1>1. /\ phase = "parse" /\ i <= Len(argv) /\ argv[i].kind = "option" /\ UNCHANGED argv
      /\ \/ UNCHANGED <<i, options>>
         \/ /\ options' = set_option(options, argv[i].name, argv[i].values,
                                     TypeFor(options, argv[i].name))
            /\ i' = i + 1
  BY Zenon DEF ParseOption
<1>2. CASE UNCHANGED <<i, options>>
  BY <1>1, <1>2, SameOptions
<1>3. CASE /\ options' = set_option(options, argv[i].name, argv[i].values,
                                    TypeFor(options, argv[i].name))
           /\ i' = i + 1
  <2>1. IsSeq(argv) /\ \A k \in DOMAIN argv : IsSeq(argv[k].values)
    BY StartupAssumption DEF OptInv
  <2>2. i \in DOMAIN argv
    <3>1. Len(argv) \in Nat /\ DOMAIN argv = 1 .. Len(argv)
      BY <2>1, SeqFacts
    <3> QED BY <1>1, <3>1 DEF OptInv
  <2>3. IsSeq(argv[i].values) /\ IsOptions(options)
    BY <2>1, <2>2 DEF OptInv
  <2>4. Applied(options, SettingsOf(argv[i]), options')
    BY <1>1, <1>3, <2>3, SetOptionFacts
  <2> QED BY <1>1, <1>3, <2>4, ParsedOne
<1> QED BY <1>1, <1>2, <1>3

(* In debug mode the verbosity is changed, and nothing else. *)
LEMMA DebugFacts ==
  ASSUME NEW o, IsOptions(o), NEW values, IsSeq(values),
         NEW p, p = set_option(o, "verbosity", values, o["verbosity"].type)
  PROVE  OptionSet(o, "verbosity", values, p)
<1>1. "verbosity" \in DOMAIN o
  BY StartupAssumption DEF IsOptions
<1>2. PICK type : type = TypeFor(o, "verbosity") /\ type = o["verbosity"].type /\ type # "FILE"
  BY <1>1, TypeFacts
<1>3. p = [add_option(o, "verbosity") EXCEPT
             !["verbosity"] = [type |-> type, values |-> ValuesOf(type, values)]]
  BY <1>2, Zenon DEF set_option
<1> QED BY <1>2, <1>3, SetFacts

(* init changes the verbosity at most. *)
LEMMA InitActionOptions ==
  ASSUME IsOptions(options), init
  PROVE  /\ IsOptions(options')
         /\ \A n \in DOMAIN args \ {"verbosity"} : options'[n] = options[n]
<1>1. CASE UNCHANGED options
  BY <1>1
<1>2. ASSUME options' = set_option(options, "verbosity", <<[num |-> 5, text |-> ""]>>,
                                   options["verbosity"].type)
      PROVE  /\ IsOptions(options')
             /\ \A n \in DOMAIN args \ {"verbosity"} : options'[n] = options[n]
  <2>1. OptionSet(options, "verbosity", <<[num |-> 5, text |-> ""]>>, options')
    <3>1. IsSeq(<<[num |-> 5, text |-> ""]>>)
      BY SeqFacts
    <3> QED BY <1>2, <3>1, DebugFacts
  <2> QED BY <2>1, Zenon DEF OptionSet, IsOptions
<1>3. \/ UNCHANGED options
      \/ options' = set_option(options, "verbosity", <<[num |-> 5, text |-> ""]>>,
                               options["verbosity"].type)
  BY Zenon DEF init
<1> QED BY <1>1, <1>2, <1>3

(* Every step keeps the options as given. *)
LEMMA NextOpt == OptInv /\ [MainNext]_mainVars => OptInv'
<1> SUFFICES ASSUME OptInv, [MainNext]_mainVars PROVE OptInv'
  OBVIOUS
<1>1. CASE ParseCommand
  BY <1>1, ParseCommandOpt
<1>2. CASE ParseOption
  BY <1>2, ParseOptionOpt
<1>3. CASE Parsed
  <2>1. phase = "parse" /\ UNCHANGED <<argv, i, options>>
    BY <1>3 DEF Parsed
  <2> QED BY <2>1, SameOptions
<1>4. CASE Dispatch
  <2>1. phase = "dispatch" /\ UNCHANGED <<argv, i, options>>
    BY <1>4 DEF Dispatch
  <2> QED BY <2>1, SameOptions
<1>5. CASE init
  <2>1. phase' \in {"load", "exited"} /\ UNCHANGED <<argv, i>>
    BY <1>5 DEF init, Go, Exit
  <2>2. IsOptions(options')
    BY <1>5, InitActionOptions DEF OptInv
  <2> QED BY <2>1, <2>2 DEF OptInv, AllSet
<1>6. CASE LoadTest
  <2>1. phase' \in {"command", "exited"} /\ UNCHANGED <<argv, i, options>>
    BY <1>6, Zenon DEF LoadTest, Go, Exit
  <2> QED BY <2>1, SameOptions
<1>7. CASE RunCommand
  <2>1. phase = "command" /\ UNCHANGED <<argv, i, options>>
    BY <1>7, Zenon DEF RunCommand
  <2>2. phase' \in {"running", "exited"}
    BY <1>7, Zenon DEF RunCommand, Go, Exit
  <2> QED BY <2>1, <2>2, SameOptions
<1>8. CASE db_init
  <2>1. UNCHANGED <<argv, i, options, phase>>
    BY <1>8 DEF db_init
  <2> QED BY <2>1, SameOptions
<1>9. CASE RunEnds
  <2>1. phase' = "exited" /\ UNCHANGED <<argv, i, options>>
    BY <1>9 DEF RunEnds, Exit
  <2> QED BY <2>1, SameOptions
<1>10. ASSUME NEW type \in {"uniform", "gaussian", "special", "pareto"}, Draw(type) PROVE OptInv'
  <2>1. UNCHANGED <<argv, i, options>> /\ phase = "running" /\ phase' \in {"running", "exited"}
    BY <1>10, Zenon DEF Draw, DrawsNumbers, Killed, Exit
  <2> QED BY <2>1, SameOptions
<1>11. ASSUME NEW r \in Ranges, sb_rand_uniq(r) PROVE OptInv'
  <2>1. UNCHANGED <<argv, i, options>> /\ phase = "running" /\ phase' \in {"running", "exited"}
    BY <1>11, Zenon DEF sb_rand_uniq, DrawsNumbers, Killed, Exit
  <2> QED BY <2>1, SameOptions
<1>12. CASE MainExited \/ UNCHANGED mainVars
  <2>1. UNCHANGED <<argv, i, options, phase>>
    BY <1>12 DEF MainExited, mainVars
  <2> QED BY <2>1, SameOptions
<1> QED
  BY <1>1, <1>2, <1>3, <1>4, <1>5, <1>6, <1>7, <1>8, <1>9, <1>10, <1>11, <1>12,
     Zenon DEF MainNext

(* A line of a file has the values of one of its lines. *)
LEMMA FileSetting ==
  ASSUME NEW a, NEW k \in DOMAIN SettingsOf(a),
         NEW e, e = SettingsOf(a)[k], e.from = "file"
  PROVE  IsSeq(e.values) /\ NotSet \notin Range(e.values)
<1>1. PICK s : s = SettingsOf(a)
  OBVIOUS
<1>2. s # <<>>
  BY <1>1
<1>3. s # <<[from |-> "line", name |-> a.name, values |-> a.values]>>
  <2> SUFFICES ASSUME s = <<[from |-> "line", name |-> a.name, values |-> a.values]>>
               PROVE  FALSE
    OBVIOUS
  <2>1. k = 1 /\ s[1].from = "line"
    BY <1>1
  <2> QED BY <1>1, <2>1
<1>4. PICK file \in DOMAIN config_files :
        s = [n \in DOMAIN LinesOf(file) |->
               [from |-> "file", name |-> LinesOf(file)[n].name,
                values |-> LinesOf(file)[n].values]]
  BY <1>1, <1>2, <1>3 DEF SettingsOf
<1>5. k \in DOMAIN LinesOf(file) /\ e.values = LinesOf(file)[k].values
  BY <1>1, <1>4
<1> QED BY <1>5, LinesFacts

(* What was set is read as it was given. *)
LEMMA SetReads ==
  ASSUME NEW name, NEW e, options[name].type \in (Types \ {"FILE"}) \cup {"NULL"},
         e.from = "file" => IsSeq(e.values) /\ NotSet \notin Range(e.values),
         options[name].values = IF e.from = "file" THEN e.values
                                ELSE ValuesOf(options[name].type, e.values)
  PROVE  ReadsAs(name, e)
<1>1. CASE e.from # "file"
  <2>1. AsArgument(e) = e.values
    BY <1>1 DEF AsArgument
  <2> QED BY <1>1, <2>1, Zenon DEF ReadsAs
<1>2. CASE e.from = "file"
  <2>1. PICK values : values = e.values /\ values = options[name].values
                      /\ IsSeq(values) /\ NotSet \notin Range(values)
    BY <1>2
  <2>2. PICK type : /\ type = IF e.from = "file" /\ options[name].type = "NULL" THEN "STRING"
                               ELSE options[name].type
                    /\ type \in Types \ {"FILE"}
    BY <1>2 DEF Types
  <2>3. PICK given : given = AsArgument(e) /\ given = IF values = <<>> THEN <<NotSet>> ELSE values
    BY <1>2, <2>1 DEF AsArgument
  <2>4. values # <<>> => values[1] # NotSet
    <3>1. ASSUME values # <<>> PROVE values[1] \in Range(values)
      <4>1. 1 \in DOMAIN values
        BY <2>1, <3>1 DEF IsSeq
      <4> QED BY <4>1 DEF Range
    <3> QED BY <2>1, <3>1
  <2>5. <<NotSet>>[1] = NotSet /\ <<NotSet>> # <<>> /\ NotSet.text = ""
    BY DEF NotSet
  <2>6. FlagOffInFile(type, e) \/ Read(type, values) = Read(type, ValuesOf(type, given))
    <3>1. CASE type = "FLAG"
      <4>1. CASE values = <<>>
        <5>1. given = <<NotSet>>
          BY <2>3, <4>1
        <5>2. ValuesOf(type, given) = <<>>
          BY <2>5, <3>1, <5>1 DEF ValuesOf
        <5> QED BY <4>1, <5>2
      <4>2. CASE values # <<>> /\ values[1].text = "on"
        <5>1. ValuesOf(type, given) # <<>>
          BY <2>3, <3>1, <4>2 DEF ValuesOf
        <5>2. Read(type, values) = (values # <<>>)
              /\ Read(type, ValuesOf(type, given)) = (ValuesOf(type, given) # <<>>)
          BY <3>1, Zenon DEF Read
        <5> QED BY <4>2, <5>1, <5>2
      <4>3. CASE values # <<>> /\ values[1].text # "on"
        BY <1>2, <2>1, <3>1, <4>3 DEF FlagOffInFile
      <4> QED BY <4>1, <4>2, <4>3
    <3>2. CASE type = "LIST"
      <4>1. ValuesOf(type, given) = values
        BY <2>3, <2>4, <2>5, <3>2 DEF ValuesOf
      <4> QED BY <4>1
    <3>3. CASE type \in {"INT", "SIZE", "FLOAT", "STRING"}
      <4>1. Read(type, values) = IF values = <<>> THEN NotSet ELSE values[1]
        BY <3>3 DEF Read
      <4>2. ValuesOf(type, given) = IF values = <<>> THEN <<>> ELSE <<values[1]>>
        BY <2>3, <2>4, <2>5, <3>3 DEF ValuesOf
      <4>3. Read(type, ValuesOf(type, given)) =
              IF ValuesOf(type, given) = <<>> THEN NotSet ELSE ValuesOf(type, given)[1]
        BY <3>3 DEF Read
      <4> QED BY <4>1, <4>2, <4>3
    <3> QED BY <2>2, <3>1, <3>2, <3>3 DEF Types
  <2> QED BY <2>1, <2>2, <2>3, <2>6, Zenon DEF ReadsAs
<1> QED BY <1>1, <1>2

(* So the options are as given. *)
LEMMA OptSound == OptInv => OptionsAsGiven
<1> SUFFICES ASSUME OptInv, phase \in {"parse", "dispatch"},
                    NEW name \in DOMAIN options \ {"config-file"}
             PROVE  AsGiven(name)
  BY Zenon DEF OptionsAsGiven
<1>1. SetBy(name)
  BY DEF OptInv, AllSet
<1>2. CASE Positions(name) = {} /\ options[name] = Registered[name]
  BY <1>1, <1>2, Zenon DEF SetBy, AsGiven
<1>3. ASSUME NEW p \in Positions(name), \A q \in Positions(name) : q # p => Before(q, p),
             options[name].values =
               IF Setting(p[1], p[2]).from = "file" THEN Setting(p[1], p[2]).values
               ELSE ValuesOf(options[name].type, Setting(p[1], p[2]).values)
      PROVE  AsGiven(name)
  <2>0. PICK j \in 1 .. (i - 1) : \E k \in DOMAIN SettingsOf(argv[j]) : p = <<j, k>>
    BY DEF Positions
  <2>1. PICK k \in DOMAIN SettingsOf(argv[j]) : p = <<j, k>>
    BY <2>0
  <2>2. PICK e : e = Setting(p[1], p[2]) /\ e = SettingsOf(argv[j])[k]
    BY <2>1 DEF Setting
  <2>3. e.from = "file" => IsSeq(e.values) /\ NotSet \notin Range(e.values)
    BY <2>2, FileSetting
  <2>4. options[name].type \in (Types \ {"FILE"}) \cup {"NULL"}
    BY DEF OptInv, IsOptions, IsOption
  <2>5. ReadsAs(name, e)
    BY <1>3, <2>2, <2>3, <2>4, SetReads
  <2> QED BY <1>1, <1>3, <2>2, <2>5, Zenon DEF SetBy, AsGiven
<1> QED BY <1>1, <1>2, <1>3, Zenon DEF SetBy

(* set_option, read_config: of any command line and any files, an option   *)
(* is what the last setting of it makes it.                                *)
THEOREM LastSettingCounts == MainSpec => []OptionsAsGiven
<1>1. MainSpec => []OptInv
  BY InitOpt, NextOpt, PTL DEF MainSpec
<1>2. OptInv => OptionsAsGiven
  BY OptSound
<1> QED BY <1>1, <1>2, PTL
-----------------------------------------------------------------------------
(* Checkpoints less than half a word apart are compared as numbers are. *)
LEMMA CompareFacts ==
  ASSUME NEW a \in 0 .. (WORD - 1), NEW b \in 0 .. (WORD - 1),
         a - b <= INT_MAX, b - a <= INT_MAX
  PROVE  checkpoint_cmp(a, b) = a - b
<1>1. a - b \in Ints
  BY WordFacts
<1> QED BY <1>1, SignedFits DEF checkpoint_cmp

(* f puts the first n numbers of list in order. *)
Sorts(n, list, f) ==
  /\ f \in [1 .. n -> 1 .. n]
  /\ \A x, y \in 1 .. n : f[x] = f[y] => x = y
  /\ \A x, y \in 1 .. n : x < y => list[f[x]] <= list[f[y]]

(* The largest of the first numbers. *)
LEMMA LargestOf ==
  ASSUME NEW n \in Nat, NEW list \in [1 .. n + 1 -> Nat]
  PROVE  \E m \in 1 .. n + 1 : \A k \in 1 .. n + 1 : list[k] <= list[m]
<1>1. PICK B \in Nat : \A k \in 1 .. n + 1 : list[k] \in 0 .. B
  <2>1. IsFiniteSet(1 .. n + 1)
    BY FS_Interval
  <2>2. \A k \in 1 .. n + 1 : list[k] \in Nat
    OBVIOUS
  <2> QED BY <2>1, <2>2, NumbersBounded
<1> DEFINE G == {B - list[k] : k \in 1 .. n + 1}
<1>2. G \in SUBSET Nat
  BY <1>1
<1>3. B - list[1] \in G
  OBVIOUS
<1>4. PICK g \in G : \A h \in G : g <= h
  <2> HIDE DEF G
  <2> QED BY <1>2, <1>3, LeastNatural
<1>5. PICK m \in 1 .. n + 1 : g = B - list[m]
  OBVIOUS
<1>6. ASSUME NEW k \in 1 .. n + 1 PROVE list[k] <= list[m]
  <2>1. B - list[k] \in G
    OBVIOUS
  <2>2. B - list[m] <= B - list[k]
    BY <1>4, <1>5, <2>1
  <2> QED BY <2>2
<1> QED BY <1>6

(* Numbers can be put in order. *)
LEMMA SortExists ==
  \A n \in Nat : \A list \in [1 .. n -> Nat] : \E f : Sorts(n, list, f)
<1> DEFINE S == {n \in Nat : \A list \in [1 .. n -> Nat] : \E f : Sorts(n, list, f)}
<1>1. 0 \in S
  <2>1. ASSUME NEW list PROVE \E f : Sorts(0, list, f)
    <3>1. PICK f : f = [k \in 1 .. 0 |-> 0]
      OBVIOUS
    <3>2. \A x \in 1 .. 0 : FALSE
      OBVIOUS
    <3>3. f \in [1 .. 0 -> 1 .. 0]
      BY <3>1, <3>2
    <3> QED BY <3>2, <3>3, Zenon DEF Sorts
  <2> QED BY <2>1
<1>2. ASSUME NEW n \in Nat, n \in S, NEW list \in [1 .. n + 1 -> Nat]
      PROVE  \E f : Sorts(n + 1, list, f)
  <2>1. PICK m \in 1 .. n + 1 : \A k \in 1 .. n + 1 : list[k] <= list[m]
    BY LargestOf
  <2>2. PICK rest : rest = [k \in 1 .. n |-> IF k = m THEN list[n + 1] ELSE list[k]]
    OBVIOUS
  <2>3. rest \in [1 .. n -> Nat]
    BY <2>2
  <2>4. PICK h : Sorts(n, rest, h)
    BY <1>2, <2>3
  <2>5. /\ \A x \in 1 .. n : h[x] \in 1 .. n
        /\ \A x, y \in 1 .. n : h[x] = h[y] => x = y
        /\ \A x, y \in 1 .. n : x < y => rest[h[x]] <= rest[h[y]]
    BY <2>4 DEF Sorts
  <2>6. PICK f : f = [k \in 1 .. n + 1 |->
                        IF k = n + 1 THEN m ELSE IF h[k] = m THEN n + 1 ELSE h[k]]
    OBVIOUS
  <2>7. /\ f[n + 1] = m
        /\ \A k \in 1 .. n : f[k] = IF h[k] = m THEN n + 1 ELSE h[k]
    BY <2>6
  <2>8. ASSUME NEW k \in 1 .. n
        PROVE  f[k] \in 1 .. n + 1 /\ f[k] # m /\ list[f[k]] = rest[h[k]]
    BY <2>2, <2>5, <2>7
  <2>9. f \in [1 .. n + 1 -> 1 .. n + 1]
    BY <2>6, <2>5
  <2>10. \A k \in 1 .. n + 1 : k = n + 1 \/ k \in 1 .. n
    OBVIOUS
  <2>11. ASSUME NEW x \in 1 .. n + 1, NEW y \in 1 .. n + 1, f[x] = f[y] PROVE x = y
    <3>1. CASE x \in 1 .. n /\ y \in 1 .. n
      <4>1. h[x] = h[y]
        BY <2>5, <2>7, <2>11, <3>1
      <4> QED BY <2>5, <3>1, <4>1
    <3> QED BY <2>7, <2>8, <2>10, <2>11, <3>1
  <2>12. ASSUME NEW x \in 1 .. n + 1, NEW y \in 1 .. n + 1, x < y
         PROVE  list[f[x]] <= list[f[y]]
    <3>1. x \in 1 .. n
      BY <2>12
    <3>2. CASE y = n + 1
      BY <2>1, <2>7, <2>8, <3>1, <3>2
    <3>3. CASE y \in 1 .. n
      BY <2>5, <2>8, <2>12, <3>1, <3>3
    <3> QED BY <2>10, <3>2, <3>3
  <2>13. Sorts(n + 1, list, f)
    BY <2>9, <2>11, <2>12, Zenon DEF Sorts
  <2> QED BY <2>13
<1>3. ASSUME NEW n \in Nat, n \in S PROVE n + 1 \in S
  <2>1. n + 1 \in Nat
    OBVIOUS
  <2>2. \A list \in [1 .. n + 1 -> Nat] : \E f : Sorts(n + 1, list, f)
    BY <1>2, <1>3, Zenon
  <2> QED BY <2>1, <2>2, Zenon
<1> HIDE DEF S
<1>4. \A n \in Nat : n \in S
  BY <1>1, <1>3, NumberInduction
<1> QED BY <1>4 DEF S

(* A rearrangement loses nothing and adds nothing. *)
Permuted(D, list, s) ==
  \E f \in [D -> D] : /\ \A x, y \in D : f[x] = f[y] => x = y
                      /\ s = [k \in D |-> list[f[k]]]

Times(D, list, v) == Cardinality({k \in D : list[k] = v})

LEMMA CountPermuted ==
  ASSUME NEW D, IsFiniteSet(D), NEW list, NEW s, Permuted(D, list, s), NEW v
  PROVE  Times(D, list, v) = Times(D, s, v)
<1>0. PICK f \in [D -> D] : /\ \A x, y \in D : f[x] = f[y] => x = y
                            /\ s = [k \in D |-> list[f[k]]]
  BY DEF Permuted
<1> DEFINE A == {k \in D : list[k] = v}
           B == {k \in D : s[k] = v}
<1>1. f \in Surjection(D, D)
  <2>1. f \in Injection(D, D)
    BY <1>0 DEF Injection, IsInjective
  <2> QED BY <2>1, FS_Injection
<1>2. IsFiniteSet(A) /\ IsFiniteSet(B)
  BY FS_Subset
<1>3. PICK g : g = [k \in B |-> f[k]]
  OBVIOUS
<1>4. g \in [B -> A] /\ \A x, y \in B : g[x] = g[y] => x = y
  BY <1>0, <1>3
<1>5. \A a \in A : \E b \in B : g[b] = a
  BY <1>0, <1>1, <1>3 DEF Surjection
<1>6. g \in Bijection(B, A)
  <2> HIDE DEF A, B
  <2>1. g \in Injection(B, A)
    BY <1>4, Zenon DEF Injection, IsInjective
  <2>2. g \in Surjection(B, A)
    BY <1>4, <1>5, Zenon DEF Surjection
  <2> QED BY <2>1, <2>2, Zenon DEF Bijection
<1> HIDE DEF A, B
<1>7. ExistsBijection(B, A)
  BY <1>6 DEF ExistsBijection
<1>8. Cardinality(A) = Cardinality(B)
  BY <1>2, <1>7, FS_Bijection
<1> QED BY <1>8 DEF A, B, Times

(* What qsort returns: the same checkpoints, in the order of time if they  *)
(* are less than half a word apart.                                        *)
Rearranged(list, s) ==
  /\ \A v : Cardinality({k \in DOMAIN list : list[k] = v}) =
             Cardinality({k \in DOMAIN s : s[k] = v})
  /\ (\A x, y \in Range(list) : x - y <= INT_MAX) =>
       \A j, k \in DOMAIN s : j < k => s[j] <= s[k]

(* Whatever qsort does with its comparison, nothing is lost, and the       *)
(* result is sorted if the comparison is right.                            *)
LEMMA QsortFacts ==
  ASSUME NEW n \in Nat, NEW list \in [1 .. n -> 0 .. (WORD - 1)], NEW s \in qsort(list)
  PROVE  Rearranged(list, s)
<1> DEFINE D == DOMAIN list
           perms == {f \in [D -> D] : \A x, y \in D : f[x] = f[y] => x = y}
           orders == {[k \in D |-> list[p[k]]] : p \in perms}
           agreeing == {t \in orders : \A x, y \in D : x < y => checkpoint_cmp(t[x], t[y]) <= 0}
<1>1. D = 1 .. n
  OBVIOUS
<1>2. s \in IF agreeing = {} THEN orders ELSE agreeing
  BY Zenon DEF qsort
<1> HIDE DEF D
<1>3. s \in orders /\ (agreeing # {} => s \in agreeing)
  BY <1>2
<1>4. PICK p \in [D -> D] : /\ \A x, y \in D : p[x] = p[y] => x = y
                            /\ s = [k \in D |-> list[p[k]]]
  BY <1>3
<1>5. DOMAIN s = D /\ \A k \in D : s[k] \in Range(list) /\ s[k] \in 0 .. (WORD - 1)
  BY <1>1, <1>4 DEF Range
<1>6. \A v : Cardinality({k \in DOMAIN list : list[k] = v}) =
             Cardinality({k \in DOMAIN s : s[k] = v})
  <2>1. IsFiniteSet(D)
    BY <1>1, FS_Interval
  <2>2. Permuted(D, list, s)
    BY <1>4, Zenon DEF Permuted
  <2>3. \A v : Times(D, list, v) = Times(D, s, v)
    BY <2>1, <2>2, CountPermuted
  <2> QED BY <1>5, <2>3, Zenon DEF D, Times
<1>7. ASSUME \A x, y \in Range(list) : x - y <= INT_MAX
      PROVE  \A j, k \in D : j < k => s[j] <= s[k]
  <2>1. ASSUME NEW a \in 0 .. (WORD - 1), NEW b \in 0 .. (WORD - 1),
               a \in Range(list), b \in Range(list)
        PROVE  checkpoint_cmp(a, b) <= 0 <=> a <= b
    <3>1. a - b <= INT_MAX /\ b - a <= INT_MAX
      BY <1>7, <2>1
    <3>2. checkpoint_cmp(a, b) = a - b
      BY <3>1, CompareFacts
    <3> QED BY <3>2
  <2>2. PICK f : Sorts(n, list, f)
    <3>1. list \in [1 .. n -> Nat]
      BY <1>1
    <3> QED BY <3>1, SortExists
  <2>3. PICK t : t = [k \in D |-> list[f[k]]]
    OBVIOUS
  <2>4. f \in perms
    BY <1>1, <2>2 DEF Sorts
  <2>5. t \in orders
    BY <2>3, <2>4
  <2>6. ASSUME NEW x \in D, NEW y \in D, x < y PROVE checkpoint_cmp(t[x], t[y]) <= 0
    <3>1. /\ t[x] \in 0 .. (WORD - 1) /\ t[x] \in Range(list)
          /\ t[y] \in 0 .. (WORD - 1) /\ t[y] \in Range(list)
      BY <1>1, <2>2, <2>3 DEF Sorts, Range
    <3>2. t[x] <= t[y]
      BY <1>1, <2>2, <2>3, <2>6 DEF Sorts
    <3> QED BY <2>1, <3>1, <3>2
  <2>7. t \in agreeing
    BY <2>5, <2>6
  <2>8. s \in agreeing
    BY <1>3, <2>7
  <2>9. \A x, y \in D : x < y => checkpoint_cmp(s[x], s[y]) <= 0
    BY <2>8
  <2> QED BY <1>5, <2>1, <2>9
<1> QED BY <1>5, <1>6, <1>7, Zenon DEF Rearranged
-----------------------------------------------------------------------------
(* From init on the run is configured, and a driver is there only then. *)
Configured ==
  /\ Rearranged(Checkpoints, globals.checkpoints)
  /\ globals.force_shutdown => sb_get_value_int("max-time") > 0

DriverAsked ==
  LET asked == sb_get_value_string("db-driver").text IN
  driver \in Range(drivers) /\ asked \in Range(drivers) => driver = asked

ConfInv ==
  /\ phase \in {"load", "command", "running"} => Configured
  /\ phase \notin {"running", "exited"} => driver = "unknown"
  /\ phase = "running" => DriverAsked

(* What the invariant says of a test that runs. *)
LEMMA ConfSound == ConfInv => RunAsConfigured
<1> SUFFICES ASSUME ConfInv, phase = "running" PROVE RunAsConfigured
  BY DEF RunAsConfigured
<1>1. Configured /\ DriverAsked
  BY DEF ConfInv
<1> QED BY <1>1, Zenon DEF Configured, DriverAsked, Rearranged, RunAsConfigured

(* Nothing is configured at first. *)
LEMMA InitConf == MainInit => ConfInv
<1> SUFFICES ASSUME MainInit PROVE ConfInv
  OBVIOUS
<1>1. phase = "parse" /\ driver = "unknown"
  BY DEF MainInit
<1> QED BY <1>1 DEF ConfInv

(* A forced shutdown needs a limit of time. *)
LEMMA ForceFacts == ForcedShutdown.force => sb_get_value_int("max-time") > 0
<1> DEFINE v == sb_get_value_string("forced-shutdown")
           m == sb_get_value_int("max-time")
<1>1. \/ ForcedShutdown = [force |-> FALSE, timeout |-> 0, ok |-> TRUE]
      \/ ForcedShutdown = [force |-> FALSE, timeout |-> 0, ok |-> FALSE]
      \/ m > 0
  BY Zenon DEF ForcedShutdown
<1> QED BY <1>1

(* init configures the run. *)
LEMMA InitActionConf ==
  ASSUME IsOptions(options), ConfInv, init
  PROVE  ConfInv'
<1>1. phase = "init" /\ UNCHANGED driver
  BY Zenon DEF init, runVars
<1>2. driver' = "unknown"
  BY <1>1 DEF ConfInv
<1>3. CASE phase' = "exited"
  BY <1>3 DEF ConfInv
<1>4. CASE init_ok /\ phase' = "load"
  <2>1. PICK sorted \in qsort(Checkpoints) :
          globals' = [checkpoints |-> sorted, force_shutdown |-> ForcedShutdown.force,
                      timeout |-> ForcedShutdown.timeout]
    <3>1. phase' # "exited"
      BY <1>4
    <3> QED BY <3>1, Zenon DEF init, Exit
  <2>2. "report-checkpoints" \in DOMAIN args /\ "max-time" \in DOMAIN args
    BY StartupAssumption
  <2>3. /\ options'["report-checkpoints"] = options["report-checkpoints"]
        /\ options'["max-time"] = options["max-time"]
    BY <2>2, InitActionOptions
  <2>4. Checkpoints' = Checkpoints
    BY <2>3, Zenon DEF Checkpoints, Opt
  <2>5. sb_get_value_int("max-time")' = sb_get_value_int("max-time")
    BY <2>3, Zenon DEF sb_get_value_int, Opt
  <2>6. Rearranged(Checkpoints, sorted)
    <3>1. PICK values : values = Opt("report-checkpoints") /\ IsSeq(values)
      BY <2>2, Zenon DEF Opt, IsOptions, IsOption
    <3>2. Len(values) \in Nat /\ DOMAIN values = 1 .. Len(values)
      BY <3>1, SeqFacts
    <3>3. \A k \in DOMAIN values : values[k].num \in 0 .. (WORD - 1)
      BY <1>4, <3>1, Zenon DEF init_ok
    <3>4. Checkpoints = [k \in DOMAIN values |-> values[k].num]
      BY <3>1, Zenon DEF Checkpoints
    <3>5. Checkpoints \in [1 .. Len(values) -> 0 .. (WORD - 1)]
      BY <3>2, <3>3, <3>4
    <3> QED BY <3>2, <3>5, QsortFacts
  <2>7. globals'.checkpoints = sorted /\ globals'.force_shutdown = ForcedShutdown.force
    BY <2>1
  <2>8. Configured'
    BY <2>4, <2>5, <2>6, <2>7, ForceFacts, Zenon DEF Configured
  <2> QED BY <1>2, <1>4, <2>8 DEF ConfInv
<1> QED BY <1>3, <1>4, Zenon DEF init, Go, Exit

(* db_init takes the driver asked for, if there is one of that name. *)
LEMMA DbInitConf ==
  ASSUME ConfInv, db_init
  PROVE  ConfInv'
<1> DEFINE asked == sb_get_value_string("db-driver").text
<1>1. /\ phase = "running" /\ UNCHANGED <<phase, options, globals>>
      /\ driver' = IF sb_get_value_string("db-ps-mode").text \notin {"auto", "disable"} THEN "failed"
                   ELSE IF asked = "" THEN IF Len(drivers) = 1 THEN drivers[1] ELSE "failed"
                   ELSE IF asked \in Range(drivers) THEN asked
                   ELSE drivers[Len(drivers)]
  BY DEF db_init
<1>2. "failed" \notin Range(drivers)
  BY StartupAssumption
<1>3. Len(drivers) = 1 => Range(drivers) = {drivers[1]}
  <2>1. DOMAIN drivers = 1 .. Len(drivers)
    BY StartupAssumption, SeqFacts
  <2> QED BY <2>1 DEF Range
<1>4. driver' \in Range(drivers) /\ asked \in Range(drivers) => driver' = asked
  <2>1. PICK a : a = asked
    OBVIOUS
  <2> HIDE DEF asked
  <2> QED BY <1>1, <1>2, <1>3
<1>5. asked' = asked
  BY <1>1 DEF sb_get_value_string, Opt
<1>6. DriverAsked'
  BY <1>4, <1>5, Zenon DEF DriverAsked
<1>7. Configured'
  <2>1. Checkpoints' = Checkpoints /\ sb_get_value_int("max-time")' = sb_get_value_int("max-time")
    BY <1>1, Zenon DEF Checkpoints, sb_get_value_int, Opt
  <2> QED BY <1>1, <2>1, Zenon DEF ConfInv, Configured
<1> QED BY <1>1, <1>6, <1>7 DEF ConfInv

(* A step that leaves options, globals and driver alone. *)
LEMMA SameConf ==
  ASSUME ConfInv, UNCHANGED <<options, globals, driver>>,
         \/ phase' \in {"parse", "dispatch", "init"} /\ phase \notin {"running", "exited"}
         \/ phase' \in {"load", "command"} /\ phase \in {"load", "command"}
         \/ phase' = "running" /\ phase \in {"command", "running"}
         \/ phase' = "exited" \/ phase' = phase
  PROVE  ConfInv'
<1>1. Checkpoints' = Checkpoints /\ sb_get_value_int("max-time")' = sb_get_value_int("max-time")
  BY Zenon DEF Checkpoints, sb_get_value_int, Opt
<1>2. sb_get_value_string("db-driver")' = sb_get_value_string("db-driver")
  BY Zenon DEF sb_get_value_string, Opt
<1>3. Configured' <=> Configured
  BY <1>1, Zenon DEF Configured
<1>4. DriverAsked' <=> DriverAsked
  BY <1>2, Zenon DEF DriverAsked
<1>5. driver = "unknown" => DriverAsked
  BY StartupAssumption DEF DriverAsked
<1> QED BY <1>3, <1>4, <1>5 DEF ConfInv

(* Every step keeps the run as configured. *)
LEMMA NextConf == OptInv /\ ConfInv /\ [MainNext]_mainVars => ConfInv'
<1> SUFFICES ASSUME OptInv, ConfInv, [MainNext]_mainVars PROVE ConfInv'
  OBVIOUS
<1>0. IsOptions(options)
  BY DEF OptInv
<1>1. CASE ParseCommand
  <2>1. /\ phase = "parse" /\ UNCHANGED <<options, globals, driver>>
        /\ phase' = "exited" \/ phase' = phase
    BY <1>1, Zenon DEF ParseCommand, runVars, Exit
  <2> QED BY <2>1, SameConf
<1>2. CASE ParseOption
  <2>1. phase = "parse" /\ UNCHANGED <<globals, driver>>
    BY <1>2, Zenon DEF ParseOption, runVars
  <2>2. phase' \in {"parse", "dispatch", "exited"}
    BY <1>2, Zenon DEF ParseOption, Exit, Go
  <2> QED BY <2>1, <2>2 DEF ConfInv
<1>3. CASE Parsed
  <2>1. phase = "parse" /\ phase' = "dispatch" /\ UNCHANGED <<options, globals, driver>>
    BY <1>3 DEF Parsed, Go, runVars
  <2> QED BY <2>1, SameConf
<1>4. CASE Dispatch
  <2>1. /\ phase = "dispatch" /\ phase' \in {"init", "exited"}
        /\ UNCHANGED <<options, globals, driver>>
    BY <1>4, Zenon DEF Dispatch, Go, Exit, runVars
  <2> QED BY <2>1, SameConf
<1>5. CASE init
  BY <1>0, <1>5, InitActionConf
<1>6. CASE LoadTest
  <2>1. /\ phase = "load" /\ phase' \in {"command", "exited"}
        /\ UNCHANGED <<options, globals, driver>>
    BY <1>6, Zenon DEF LoadTest, Go, Exit, runVars
  <2> QED BY <2>1, SameConf
<1>7. CASE RunCommand
  <2>1. phase = "command" /\ UNCHANGED <<options, globals, driver>>
    BY <1>7, Zenon DEF RunCommand, runVars
  <2>2. phase' \in {"running", "exited"}
    BY <1>7, Zenon DEF RunCommand, Go, Exit
  <2> QED BY <2>1, <2>2, SameConf
<1>8. CASE db_init
  BY <1>8, DbInitConf
<1>9. CASE RunEnds
  <2>1. phase' = "exited" /\ UNCHANGED <<options, globals, driver>>
    BY <1>9 DEF RunEnds, Exit, runVars
  <2> QED BY <2>1, SameConf
<1>10. ASSUME NEW type \in {"uniform", "gaussian", "special", "pareto"}, Draw(type) PROVE ConfInv'
  <2>1. /\ UNCHANGED <<options, globals, driver>>
        /\ phase = "running" /\ phase' \in {"running", "exited"}
    BY <1>10, Zenon DEF Draw, DrawsNumbers, Killed, Exit
  <2> QED BY <2>1, SameConf
<1>11. ASSUME NEW r \in Ranges, sb_rand_uniq(r) PROVE ConfInv'
  <2>1. /\ UNCHANGED <<options, globals, driver>>
        /\ phase = "running" /\ phase' \in {"running", "exited"}
    BY <1>11, Zenon DEF sb_rand_uniq, DrawsNumbers, Killed, Exit
  <2> QED BY <2>1, SameConf
<1>12. CASE MainExited \/ UNCHANGED mainVars
  <2>1. UNCHANGED <<options, globals, driver, phase>>
    BY <1>12 DEF MainExited, mainVars
  <2> QED BY <2>1, SameConf
<1> QED
  BY <1>1, <1>2, <1>3, <1>4, <1>5, <1>6, <1>7, <1>8, <1>9, <1>10, <1>11, <1>12,
     Zenon DEF MainNext

(* init, db_init: of any options, a test runs with its checkpoints in the  *)
(* order of time, a limit of time if it can be shut down, and the driver   *)
(* asked for.                                                              *)
THEOREM ConfiguredRuns == MainSpec => []RunAsConfigured
<1>1. MainSpec => [](OptInv /\ ConfInv)
  <2>1. MainInit => OptInv /\ ConfInv
    BY InitOpt, InitConf
  <2>2. OptInv /\ ConfInv /\ [MainNext]_mainVars => OptInv' /\ ConfInv'
    BY NextOpt, NextConf
  <2> QED BY <2>1, <2>2, PTL DEF MainSpec
<1> QED BY <1>1, ConfSound, PTL
-----------------------------------------------------------------------------
(* What RunTest promises, for any number of runner threads, requests and   *)
(* checkpoints: the barrier holds, no intermediate report runs after       *)
(* run_test has silenced them, the mutexes exclude, destroyed or not, and   *)
(* exit status 0 is given only when every thread has ended.                *)

(* The steps of run_test before it locks thread_start_mutex, and the ones  *)
(* during which it holds it.                                               *)
BeforeLock == {"init", "prepare", "setup"}
Closed == {"create_report", "create_eventgen", "create_checkpoints",
           "create_runners", "release"}

(* The steps after each helper thread has been stopped. *)
AfterCheckpoints == {"return"}
AfterEventgen ==
  {"cancel_checkpoints", "join_checkpoints"} \cup AfterCheckpoints
AfterReport ==
  {"destroy_interval", "cancel_eventgen", "join_eventgen"} \cup AfterEventgen

(* The steps after the first mutexes were destroyed. *)
AfterDestroy == AfterSilence \ {"cleanup", "stats", "destroy"}
-----------------------------------------------------------------------------
(* Nothing has been touched until run_test sets the mutexes up; while it   *)
(* holds thread_start_mutex no runner gets past the barrier.               *)
ClosedInv ==
  /\ master_pc \in BeforeLock => created = {} /\ holder["thread_start"] = NoThread
  /\ master_pc \in Closed =>
       /\ holder["thread_start"] = Master
       /\ \A t \in Threads : runner_pc[t] \in {"none", "init", "barrier", "failed"}

(* Which runners exist, and which of them can still move. *)
RunnersInv ==
  /\ \A t \in Threads : t \in created <=> runner_pc[t] # "none"
  /\ master_pc \in {"release", "join"} \cup AfterJoin => created = Threads
  /\ master_pc \in AfterJoin =>
       \A t \in Threads : runner_pc[t] \in {"ended", "failed"}
  /\ \A t \in Threads : runner_pc[t] = "failed" => error

(* Mutexes are destroyed late, and after their users. *)
DestroyedInv ==
  /\ destroyed # {} =>
       /\ master_pc \in AfterDestroy \cup {"exited"}
       /\ \A t \in Threads : runner_pc[t] \in {"ended", "failed"}
  /\ "report_interval" \in destroyed =>
       /\ master_pc \in (AfterReport \ {"destroy_interval"}) \cup {"exited"}
       /\ helper_pc["report"] \in {"none", "ended"}

(* A report under way holds report_interval_mutex, so that run_test finds  *)
(* none when it has locked that mutex and reset report_interval.           *)
ReportInv ==
  /\ helper_pc["report"] \in {"test", "print", "snapshot", "unlock"} =>
       holder["report_interval"] = "report"
  /\ master_pc \in {"unlock"} \cup AfterSilence =>
       /\ ~report_interval
       /\ helper_pc["report"] \notin {"print", "snapshot"}

(* A helper that was not asked for is never there, and one that run_test   *)
(* has stopped is gone.                                                    *)
HelpersInv ==
  /\ ~run_options.report => helper_pc["report"] = "none"
  /\ ~run_options.eventgen => helper_pc["eventgen"] = "none"
  /\ ~(run_options.n_checkpoints > 0) => helper_pc["checkpoints"] = "none"
  /\ master_pc \in AfterReport => helper_pc["report"] \in {"none", "ended"}
  /\ master_pc \in AfterEventgen => helper_pc["eventgen"] \in {"none", "ended"}
  /\ master_pc \in AfterCheckpoints =>
       helper_pc["checkpoints"] \in {"none", "ended"}

(* The checkpoints thread works on a checkpoint of the list. *)
CheckpointInv ==
  /\ checkpoint <= run_options.n_checkpoints
  /\ helper_pc["checkpoints"] \in {"sleep", "lock", "print", "unlock"} =>
       checkpoint < run_options.n_checkpoints

(* num_running counts the runners in their loop. *)
RunningInv ==
  num_running = Cardinality(At(Threads, runner_pc, Running))

ExitInv ==
  /\ exit_status = -1 <=> master_pc # "exited"
  /\ ExitStatusTruthful

(* Who is inside a section holds its mutex; only the checkpoints thread    *)
(* is ever inside a section whose mutex was destroyed.                     *)
SectionInv ==
  /\ \A t \in Threads : runner_pc[t] = "request" =>
       "exec" \notin destroyed /\ holder["exec"] = t
  /\ helper_pc["report"] = "snapshot" =>
       "exec" \notin destroyed /\ holder["exec"] = "report"
  /\ helper_pc["checkpoints"] \in {"print", "unlock"} =>
       "exec" \in destroyed \/ holder["exec"] = "checkpoints"
  /\ master_pc = "unlock" => holder["report_interval"] = Master

(* The inductive invariant. *)
IInv ==
  /\ TypeOK /\ ClosedInv /\ RunnersInv /\ DestroyedInv /\ ReportInv
  /\ HelpersInv /\ CheckpointInv /\ SectionInv /\ RunningInv /\ ExitInv
-----------------------------------------------------------------------------
(* The part of the invariant that is about control, without the counting. *)
ControlInv ==
  /\ TypeOK /\ ClosedInv /\ RunnersInv /\ DestroyedInv /\ ReportInv
  /\ HelpersInv /\ CheckpointInv

(* What Wanted says of each helper. *)
LEMMA WantedIs ==
  /\ Wanted("report") <=> run_options.report
  /\ Wanted("eventgen") <=> run_options.eventgen
  /\ Wanted("checkpoints") <=> run_options.n_checkpoints > 0
BY Zenon DEF Wanted

(* Every step of run_test. *)
LEMMA MasterPreserves ==
  ASSUME ControlInv, MasterStep
  PROVE  ControlInv'
<1> USE RunTestAssumption
    DEF MasterGoto, MasterMoves, MasterUnlocks, MasterDestroys, ReturnOne,
        CanLock, LockedBy, UnlockedBy, DestroyedWith,
        threadVars, mutexVars, globalVars, helperLocals,
        AfterJoin, AfterSilence, AfterDestroy, AfterReport, AfterEventgen,
        AfterCheckpoints, BeforeLock, Closed, Everyone, Helpers, Mutexes,
        MasterPcs, RunnerPcs, HelperPcs
<1>1. CASE InitTest
  BY <1>1 DEF InitTest, ControlInv, TypeOK, Options, ClosedInv, RunnersInv,
     DestroyedInv, ReportInv, HelpersInv, CheckpointInv
<1>2. CASE PrepareTest
  BY <1>2 DEF PrepareTest, ControlInv, TypeOK, Options, ClosedInv, RunnersInv,
     DestroyedInv, ReportInv, HelpersInv, CheckpointInv
<1>3. CASE SetUp
  BY <1>3 DEF SetUp, ControlInv, TypeOK, Options, ClosedInv, RunnersInv,
     DestroyedInv, ReportInv, HelpersInv, CheckpointInv
<1>4. CASE CreateHelpers
  <2>1. CASE CreateHelper("report", "create_report", "create_eventgen")
    <3>1. TypeOK'
      BY <2>1 DEF CreateHelper, ControlInv, TypeOK
    <3>2. ClosedInv' /\ RunnersInv' /\ DestroyedInv' /\ CheckpointInv'
      BY <2>1, WantedIs DEF CreateHelper, ControlInv, TypeOK, ClosedInv,
         RunnersInv, DestroyedInv, CheckpointInv
    <3>3. ReportInv'
      BY <2>1, WantedIs DEF CreateHelper, ControlInv, TypeOK, RunnersInv,
         DestroyedInv, ReportInv
    <3>4. HelpersInv'
      BY <2>1, WantedIs DEF CreateHelper, ControlInv, TypeOK, Options,
         HelpersInv
    <3> QED BY <3>1, <3>2, <3>3, <3>4 DEF ControlInv
  <2>2. CASE CreateHelper("eventgen", "create_eventgen", "create_checkpoints")
    <3>1. TypeOK'
      BY <2>2 DEF CreateHelper, ControlInv, TypeOK
    <3>2. ClosedInv' /\ RunnersInv' /\ DestroyedInv' /\ CheckpointInv'
      BY <2>2, WantedIs DEF CreateHelper, ControlInv, TypeOK, ClosedInv,
         RunnersInv, DestroyedInv, CheckpointInv
    <3>3. ReportInv'
      BY <2>2, WantedIs DEF CreateHelper, ControlInv, TypeOK, RunnersInv,
         DestroyedInv, ReportInv
    <3>4. HelpersInv'
      BY <2>2, WantedIs DEF CreateHelper, ControlInv, TypeOK, Options,
         HelpersInv
    <3> QED BY <3>1, <3>2, <3>3, <3>4 DEF ControlInv
  <2>3. CASE CreateHelper("checkpoints", "create_checkpoints", "create_runners")
    <3>1. TypeOK'
      BY <2>3 DEF CreateHelper, ControlInv, TypeOK
    <3>2. ClosedInv' /\ RunnersInv' /\ DestroyedInv' /\ CheckpointInv'
      BY <2>3, WantedIs DEF CreateHelper, ControlInv, TypeOK, ClosedInv,
         RunnersInv, DestroyedInv, CheckpointInv
    <3>3. ReportInv'
      BY <2>3, WantedIs DEF CreateHelper, ControlInv, TypeOK, RunnersInv,
         DestroyedInv, ReportInv
    <3>4. HelpersInv'
      BY <2>3, WantedIs DEF CreateHelper, ControlInv, TypeOK, Options,
         HelpersInv
    <3> QED BY <3>1, <3>2, <3>3, <3>4 DEF ControlInv
  <2> QED BY <1>4, <2>1, <2>2, <2>3 DEF CreateHelpers
<1>5. CASE CreateRunner
  BY <1>5 DEF CreateRunner, ControlInv, TypeOK, Options, ClosedInv, RunnersInv,
     DestroyedInv, ReportInv, HelpersInv, CheckpointInv
<1>6. CASE StartTimers
  BY <1>6 DEF StartTimers, ControlInv, TypeOK, Options, ClosedInv, RunnersInv,
     DestroyedInv, ReportInv, HelpersInv, CheckpointInv
<1>7. CASE ReleaseThreads
  BY <1>7 DEF ReleaseThreads, ControlInv, TypeOK, Options, ClosedInv,
     RunnersInv, DestroyedInv, ReportInv, HelpersInv, CheckpointInv
<1>8. CASE JoinRunners
  BY <1>8 DEF JoinRunners, ControlInv, TypeOK, Options, ClosedInv, RunnersInv,
     DestroyedInv, ReportInv, HelpersInv, CheckpointInv
<1>9. CASE StopTimers
  BY <1>9 DEF StopTimers, ControlInv, TypeOK, Options, ClosedInv, RunnersInv,
     DestroyedInv, ReportInv, HelpersInv, CheckpointInv
<1>10. CASE Silence
  <2>1. TypeOK'
    BY <1>10 DEF Silence, ControlInv, TypeOK
  <2>2. ClosedInv' /\ RunnersInv' /\ DestroyedInv' /\ CheckpointInv'
    BY <1>10 DEF Silence, ControlInv, TypeOK, ClosedInv, RunnersInv,
       DestroyedInv, CheckpointInv
  <2>3. ReportInv'
    BY <1>10 DEF Silence, ControlInv, TypeOK, RunnersInv, DestroyedInv,
       ReportInv
  <2>4. HelpersInv'
    BY <1>10 DEF Silence, ControlInv, TypeOK, Options, HelpersInv
  <2> QED BY <2>1, <2>2, <2>3, <2>4 DEF ControlInv
<1>11. CASE UnlockInterval
  BY <1>11 DEF UnlockInterval, ControlInv, TypeOK, Options, ClosedInv,
     RunnersInv, DestroyedInv, ReportInv, HelpersInv, CheckpointInv
<1>12. CASE CleanupTest
  BY <1>12 DEF CleanupTest, ControlInv, TypeOK, Options, ClosedInv, RunnersInv,
     DestroyedInv, ReportInv, HelpersInv, CheckpointInv
<1>13. CASE PrintStats
  BY <1>13 DEF PrintStats, ControlInv, TypeOK, Options, ClosedInv, RunnersInv,
     DestroyedInv, ReportInv, HelpersInv, CheckpointInv
<1>14. CASE DestroyMutexes
  BY <1>14 DEF DestroyMutexes, ControlInv, TypeOK, Options, ClosedInv,
     RunnersInv, DestroyedInv, ReportInv, HelpersInv, CheckpointInv
<1>15. CASE TestDone
  BY <1>15 DEF TestDone, ControlInv, TypeOK, Options, ClosedInv, RunnersInv,
     DestroyedInv, ReportInv, HelpersInv, CheckpointInv
<1>16. CASE StopReports
  <2>1. CASE CancelHelper("report", "cancel_report", "join_report",
                        "destroy_interval")
    <3>1. TypeOK'
      <4>1. CASE Wanted("report")
        BY <2>1, <4>1 DEF CancelHelper, ControlInv, TypeOK
      <4>2. CASE ~Wanted("report")
        BY <2>1, <4>2 DEF CancelHelper, ControlInv, TypeOK
      <4> QED BY <4>1, <4>2
    <3>2. ClosedInv' /\ RunnersInv' /\ DestroyedInv' /\ CheckpointInv'
      BY <2>1, WantedIs DEF CancelHelper, ControlInv, TypeOK, ClosedInv,
         RunnersInv, DestroyedInv, CheckpointInv
    <3>3. ReportInv'
      BY <2>1, WantedIs DEF CancelHelper, ControlInv, TypeOK, RunnersInv,
         DestroyedInv, ReportInv
    <3>4. HelpersInv'
      BY <2>1, WantedIs DEF CancelHelper, ControlInv, TypeOK, Options,
         HelpersInv
    <3> QED BY <3>1, <3>2, <3>3, <3>4 DEF ControlInv
  <2>2. CASE JoinHelper("report", "join_report", "destroy_interval")
    <3>1. TypeOK'
      BY <2>2 DEF JoinHelper, ControlInv, TypeOK
    <3>2. ClosedInv' /\ RunnersInv' /\ DestroyedInv' /\ CheckpointInv'
      BY <2>2, WantedIs DEF JoinHelper, ControlInv, TypeOK, ClosedInv,
         RunnersInv, DestroyedInv, CheckpointInv
    <3>3. ReportInv'
      BY <2>2, WantedIs DEF JoinHelper, ControlInv, TypeOK, RunnersInv,
         DestroyedInv, ReportInv
    <3>4. HelpersInv'
      BY <2>2, WantedIs DEF JoinHelper, ControlInv, TypeOK, Options, HelpersInv
    <3> QED BY <3>1, <3>2, <3>3, <3>4 DEF ControlInv
  <2> QED BY <1>16, <2>1, <2>2 DEF StopReports
<1>17. CASE DestroyInterval
  <2>1. TypeOK'
    BY <1>17 DEF DestroyInterval, ControlInv, TypeOK
  <2>2. DestroyedInv'
    BY <1>17 DEF DestroyInterval, ControlInv, TypeOK, RunnersInv, HelpersInv,
       DestroyedInv
  <2>3. ReportInv'
    BY <1>17 DEF DestroyInterval, ControlInv, TypeOK, RunnersInv, DestroyedInv,
       ReportInv
  <2>4. HelpersInv'
    BY <1>17 DEF DestroyInterval, ControlInv, TypeOK, Options, HelpersInv
  <2>5. ClosedInv' /\ RunnersInv' /\ CheckpointInv'
    BY <1>17 DEF DestroyInterval, ControlInv, TypeOK, ClosedInv, RunnersInv,
       CheckpointInv
  <2> QED BY <2>1, <2>2, <2>3, <2>4, <2>5 DEF ControlInv
<1>18. CASE StopEventgen
  <2>1. CASE CancelHelper("eventgen", "cancel_eventgen", "join_eventgen",
                        "cancel_checkpoints")
    <3>1. TypeOK'
      <4>1. CASE Wanted("eventgen")
        BY <2>1, <4>1 DEF CancelHelper, ControlInv, TypeOK
      <4>2. CASE ~Wanted("eventgen")
        BY <2>1, <4>2 DEF CancelHelper, ControlInv, TypeOK
      <4> QED BY <4>1, <4>2
    <3>2. ClosedInv' /\ RunnersInv' /\ DestroyedInv' /\ CheckpointInv'
      BY <2>1, WantedIs DEF CancelHelper, ControlInv, TypeOK, ClosedInv,
         RunnersInv, DestroyedInv, CheckpointInv
    <3>3. ReportInv'
      BY <2>1, WantedIs DEF CancelHelper, ControlInv, TypeOK, RunnersInv,
         DestroyedInv, ReportInv
    <3>4. HelpersInv'
      BY <2>1, WantedIs DEF CancelHelper, ControlInv, TypeOK, Options,
         HelpersInv
    <3> QED BY <3>1, <3>2, <3>3, <3>4 DEF ControlInv
  <2>2. CASE JoinHelper("eventgen", "join_eventgen", "cancel_checkpoints")
    <3>1. TypeOK'
      BY <2>2 DEF JoinHelper, ControlInv, TypeOK
    <3>2. ClosedInv' /\ RunnersInv' /\ DestroyedInv' /\ CheckpointInv'
      BY <2>2, WantedIs DEF JoinHelper, ControlInv, TypeOK, ClosedInv,
         RunnersInv, DestroyedInv, CheckpointInv
    <3>3. ReportInv'
      BY <2>2, WantedIs DEF JoinHelper, ControlInv, TypeOK, RunnersInv,
         DestroyedInv, ReportInv
    <3>4. HelpersInv'
      BY <2>2, WantedIs DEF JoinHelper, ControlInv, TypeOK, Options, HelpersInv
    <3> QED BY <3>1, <3>2, <3>3, <3>4 DEF ControlInv
  <2> QED BY <1>18, <2>1, <2>2 DEF StopEventgen
<1>19. CASE StopCheckpoints
  <2>1. CASE CancelHelper("checkpoints", "cancel_checkpoints",
                        "join_checkpoints", "return")
    <3>1. TypeOK'
      <4>1. CASE Wanted("checkpoints")
        BY <2>1, <4>1 DEF CancelHelper, ControlInv, TypeOK
      <4>2. CASE ~Wanted("checkpoints")
        BY <2>1, <4>2 DEF CancelHelper, ControlInv, TypeOK
      <4> QED BY <4>1, <4>2
    <3>2. ClosedInv' /\ RunnersInv' /\ DestroyedInv' /\ CheckpointInv'
      BY <2>1, WantedIs DEF CancelHelper, ControlInv, TypeOK, ClosedInv,
         RunnersInv, DestroyedInv, CheckpointInv
    <3>3. ReportInv'
      BY <2>1, WantedIs DEF CancelHelper, ControlInv, TypeOK, RunnersInv,
         DestroyedInv, ReportInv
    <3>4. HelpersInv'
      BY <2>1, WantedIs DEF CancelHelper, ControlInv, TypeOK, Options,
         HelpersInv
    <3> QED BY <3>1, <3>2, <3>3, <3>4 DEF ControlInv
  <2>2. CASE JoinHelper("checkpoints", "join_checkpoints", "return")
    <3>1. TypeOK'
      BY <2>2 DEF JoinHelper, ControlInv, TypeOK
    <3>2. ClosedInv' /\ RunnersInv' /\ DestroyedInv' /\ CheckpointInv'
      BY <2>2, WantedIs DEF JoinHelper, ControlInv, TypeOK, ClosedInv,
         RunnersInv, DestroyedInv, CheckpointInv
    <3>3. ReportInv'
      BY <2>2, WantedIs DEF JoinHelper, ControlInv, TypeOK, RunnersInv,
         DestroyedInv, ReportInv
    <3>4. HelpersInv'
      BY <2>2, WantedIs DEF JoinHelper, ControlInv, TypeOK, Options, HelpersInv
    <3> QED BY <3>1, <3>2, <3>3, <3>4 DEF ControlInv
  <2> QED BY <1>19, <2>1, <2>2 DEF StopCheckpoints
<1>20. CASE Return
  BY <1>20 DEF Return, ControlInv, TypeOK, Options, ClosedInv, RunnersInv,
     DestroyedInv, ReportInv, HelpersInv, CheckpointInv
<1> QED
  BY <1>1, <1>2, <1>3, <1>4, <1>5, <1>6, <1>7, <1>8, <1>9, <1>10,
      <1>11, <1>12, <1>13, <1>14, <1>15, <1>16, <1>17, <1>18, <1>19, <1>20
  DEF MasterStep

(* Every step of a runner. *)
LEMMA RunnerPreserves ==
  ASSUME ControlInv, NEW t \in Threads, RunnerStep(t)
  PROVE  ControlInv'
<1> USE RunTestAssumption
    DEF RunnerGoto, RunnerMoves, RunnerCounts, CanLock, LockedBy, UnlockedBy,
        masterVars, mutexVars, globalVars, helperLocals,
        AfterJoin, AfterSilence, AfterDestroy, AfterReport, AfterEventgen,
        AfterCheckpoints, BeforeLock, Closed, Everyone, Helpers, Mutexes,
        MasterPcs, RunnerPcs, HelperPcs
<1>1. CASE ThreadInit(t)
  <2>1. error' \in BOOLEAN /\ (error => error')
    BY <1>1, Zenon DEF ThreadInit, ControlInv, TypeOK
  <2>2. runner_pc' \in [Threads -> RunnerPcs]
    BY <1>1 DEF ThreadInit, ControlInv, TypeOK
  <2>3. TypeOK'
    BY <1>1, <2>1, <2>2 DEF ThreadInit, ControlInv, TypeOK
  <2>4. ClosedInv'
    BY <1>1 DEF ThreadInit, ControlInv, TypeOK, ClosedInv, RunnersInv
  <2>5. RunnersInv'
    BY <1>1, <2>1 DEF ThreadInit, ControlInv, TypeOK, RunnersInv
  <2>6. DestroyedInv' /\ ReportInv' /\ HelpersInv' /\ CheckpointInv'
    BY <1>1 DEF ThreadInit, ControlInv, TypeOK, RunnersInv, DestroyedInv,
       ReportInv, HelpersInv, CheckpointInv
  <2> QED BY <2>3, <2>4, <2>5, <2>6 DEF ControlInv
<1>2. CASE PassBarrier(t)
  BY <1>2 DEF PassBarrier, ControlInv, TypeOK, Options, ClosedInv, RunnersInv,
     DestroyedInv, ReportInv, HelpersInv, CheckpointInv
<1>3. CASE LockRequest(t)
  BY <1>3 DEF LockRequest, ControlInv, TypeOK, Options, ClosedInv, RunnersInv,
     DestroyedInv, ReportInv, HelpersInv, CheckpointInv
<1>4. CASE GetRequest(t)
  BY <1>4 DEF GetRequest, ControlInv, TypeOK, Options, ClosedInv, RunnersInv,
     DestroyedInv, ReportInv, HelpersInv, CheckpointInv
<1>5. CASE ExecuteOk(t)
  <2>1. PICK p \in {"loop", "finish"} : RunnerMoves(t, "execute", p)
    BY <1>5, Zenon DEF ExecuteOk
  <2> QED
    BY <2>1 DEF ControlInv, TypeOK, Options, ClosedInv, RunnersInv,
       DestroyedInv, ReportInv, HelpersInv, CheckpointInv
<1>6. CASE ExecuteFail(t)
  <2>1. error' \in BOOLEAN /\ (error => error')
    <3>1. error' = error \/ error' = TRUE
      BY <1>6, Zenon DEF ExecuteFail
    <3>2. error \in BOOLEAN
      BY Zenon DEF ControlInv, TypeOK
    <3>3. CASE error' = error
      BY <3>2, <3>3
    <3>4. CASE error' = TRUE
      BY <3>4
    <3> QED BY <3>1, <3>3, <3>4
  <2>2. runner_pc' \in [Threads -> RunnerPcs]
    BY <1>6 DEF ExecuteFail, ControlInv, TypeOK
  <2>3. TypeOK'
    BY <1>6, <2>1, <2>2 DEF ExecuteFail, ControlInv, TypeOK
  <2>4. ClosedInv'
    BY <1>6 DEF ExecuteFail, ControlInv, TypeOK, ClosedInv, RunnersInv
  <2>5. RunnersInv'
    BY <1>6, <2>1 DEF ExecuteFail, ControlInv, TypeOK, RunnersInv
  <2>6. DestroyedInv' /\ ReportInv' /\ HelpersInv' /\ CheckpointInv'
    BY <1>6 DEF ExecuteFail, ControlInv, TypeOK, RunnersInv, DestroyedInv,
       ReportInv, HelpersInv, CheckpointInv
  <2> QED BY <2>3, <2>4, <2>5, <2>6 DEF ControlInv
<1>7. CASE ThreadDone(t)
  BY <1>7 DEF ThreadDone, ControlInv, TypeOK, Options, ClosedInv, RunnersInv,
     DestroyedInv, ReportInv, HelpersInv, CheckpointInv
<1>8. CASE Leave(t)
  BY <1>8 DEF Leave, ControlInv, TypeOK, Options, ClosedInv, RunnersInv,
     DestroyedInv, ReportInv, HelpersInv, CheckpointInv
<1> QED
  BY <1>1, <1>2, <1>3, <1>4, <1>5, <1>6, <1>7, <1>8 DEF RunnerStep

(* Every step of the reporting thread. *)
LEMMA ReportPreserves ==
  ASSUME ControlInv, ReportStep
  PROVE  ControlInv'
<1> USE RunTestAssumption
    DEF HelperGoto, HelperMoves, HelperLocks, HelperUnlocks, CanLock, LockedBy,
        UnlockedBy, masterVars, mutexVars, globalVars, helperLocals,
        AfterJoin, AfterSilence, AfterDestroy, AfterReport, AfterEventgen,
        AfterCheckpoints, BeforeLock, Closed, Everyone, Helpers, Mutexes,
        MasterPcs, RunnerPcs, HelperPcs
<1>1. CASE ReportLock
  BY <1>1 DEF ReportLock, ControlInv, TypeOK, Options, ClosedInv, RunnersInv,
     DestroyedInv, ReportInv, HelpersInv, CheckpointInv
<1>2. CASE ReportTest
  BY <1>2 DEF ReportTest, ControlInv, TypeOK, Options, ClosedInv, RunnersInv,
     DestroyedInv, ReportInv, HelpersInv, CheckpointInv
<1>3. CASE ReportPrint
  BY <1>3 DEF ReportPrint, ControlInv, TypeOK, Options, ClosedInv, RunnersInv,
     DestroyedInv, ReportInv, HelpersInv, CheckpointInv
<1>4. CASE ReportSnapshot
  BY <1>4 DEF ReportSnapshot, ControlInv, TypeOK, Options, ClosedInv,
     RunnersInv, DestroyedInv, ReportInv, HelpersInv, CheckpointInv
<1>5. CASE ReportUnlock
  BY <1>5 DEF ReportUnlock, ControlInv, TypeOK, Options, ClosedInv, RunnersInv,
     DestroyedInv, ReportInv, HelpersInv, CheckpointInv
<1>6. CASE ReportSpin
  BY <1>6 DEF ReportSpin, vars, threadVars, ControlInv, TypeOK, Options,
     ClosedInv, RunnersInv, DestroyedInv, ReportInv, HelpersInv, CheckpointInv
<1> QED
  BY <1>1, <1>2, <1>3, <1>4, <1>5, <1>6 DEF ReportStep

(* Every step of the checkpoints thread. *)
LEMMA CheckpointPreserves ==
  ASSUME ControlInv, CheckpointStep
  PROVE  ControlInv'
<1> USE RunTestAssumption
    DEF HelperGoto, HelperMoves, HelperLocks, HelperUnlocks, CanLock, LockedBy,
        UnlockedBy, masterVars, mutexVars, globalVars, helperLocals,
        AfterJoin, AfterSilence, AfterDestroy, AfterReport, AfterEventgen,
        AfterCheckpoints, BeforeLock, Closed, Everyone, Helpers, Mutexes,
        MasterPcs, RunnerPcs, HelperPcs
<1>1. CASE CheckpointNext
  BY <1>1 DEF CheckpointNext, ControlInv, TypeOK, Options, ClosedInv,
     RunnersInv, DestroyedInv, ReportInv, HelpersInv, CheckpointInv
<1>2. CASE CheckpointLock
  BY <1>2 DEF CheckpointLock, ControlInv, TypeOK, Options, ClosedInv,
     RunnersInv, DestroyedInv, ReportInv, HelpersInv, CheckpointInv
<1>3. CASE CheckpointPrint
  BY <1>3 DEF CheckpointPrint, ControlInv, TypeOK, Options, ClosedInv,
     RunnersInv, DestroyedInv, ReportInv, HelpersInv, CheckpointInv
<1>4. CASE CheckpointUnlock
  BY <1>4 DEF CheckpointUnlock, ControlInv, TypeOK, Options, ClosedInv,
     RunnersInv, DestroyedInv, ReportInv, HelpersInv, CheckpointInv
<1> QED
  BY <1>1, <1>2, <1>3, <1>4 DEF CheckpointStep

(* Every step of a helper. *)
LEMMA HelperPreserves ==
  ASSUME ControlInv, NEW h \in Helpers, HelperStep(h)
  PROVE  ControlInv'
<1> USE RunTestAssumption
    DEF HelperGoto, HelperMoves, HelperLocks, HelperUnlocks, CanLock, LockedBy,
        UnlockedBy, masterVars, mutexVars, globalVars, helperLocals,
        AfterJoin, AfterSilence, AfterDestroy, AfterReport, AfterEventgen,
        AfterCheckpoints, BeforeLock, Closed, Everyone, Helpers, Mutexes,
        MasterPcs, RunnerPcs, HelperPcs
<1>1. CASE HelperStart(h)
  BY <1>1 DEF HelperStart, ControlInv, TypeOK, Options, ClosedInv, RunnersInv,
     DestroyedInv, ReportInv, HelpersInv, CheckpointInv
<1>2. CASE HelperBarrier(h)
  BY <1>2 DEF HelperBarrier, ControlInv, TypeOK, Options, ClosedInv,
     RunnersInv, DestroyedInv, ReportInv, HelpersInv, CheckpointInv
<1>3. CASE HelperCancelled(h)
  BY <1>3 DEF HelperCancelled, ControlInv, TypeOK, Options, ClosedInv,
     RunnersInv, DestroyedInv, ReportInv, HelpersInv, CheckpointInv
<1>4. CASE HelperWake(h)
  BY <1>4 DEF HelperWake, ControlInv, TypeOK, Options, ClosedInv, RunnersInv,
     DestroyedInv, ReportInv, HelpersInv, CheckpointInv
<1>5. CASE h = "eventgen" /\ EventgenQueued
  BY <1>5 DEF EventgenQueued, ControlInv, TypeOK, Options, ClosedInv,
     RunnersInv, DestroyedInv, ReportInv, HelpersInv, CheckpointInv
<1> QED
  BY <1>1, <1>2, <1>3, <1>4, <1>5, ReportPreserves, CheckpointPreserves DEF
     HelperStep
(* The sections: who enters one has its mutex, unless it was destroyed,    *)
(* when the runners have ended and the reports are silent.                 *)
LEMMA SectionsPreserved ==
  ASSUME ControlInv, SectionInv, Next
  PROVE  SectionInv'
<1> USE RunTestAssumption
    DEF ControlInv, SectionInv, CanLock, LockedBy, UnlockedBy, masterVars,
        mutexVars, globalVars, helperLocals, threadVars
<1>1. CASE MasterStep
  <2> USE DEF MasterGoto, MasterMoves, MasterUnlocks, MasterDestroys, ReturnOne
  <2>1. CASE SetUp
    BY <2>1 DEF SetUp, TypeOK, Mutexes
  <2>2. CASE ReleaseThreads
    BY <2>2 DEF ReleaseThreads, TypeOK, Mutexes
  <2>3. CASE Silence
    BY <2>3 DEF Silence, TypeOK, Mutexes, DestroyedInv, AfterDestroy,
       AfterSilence, AfterJoin, AfterReport, AfterEventgen, AfterCheckpoints
  <2>4. CASE UnlockInterval
    BY <2>4 DEF UnlockInterval, TypeOK, Mutexes
  <2>5. CASE DestroyMutexes
    BY <2>5 DEF DestroyMutexes, DestroyedWith, TypeOK, Mutexes, Helpers,
       RunnersInv, ReportInv, AfterJoin, AfterSilence, Everyone
  <2>6. CASE DestroyInterval
    BY <2>6 DEF DestroyInterval, DestroyedWith, TypeOK, Mutexes
  <2>7. CASE CreateRunner
    BY <2>7 DEF CreateRunner, TypeOK
  <2>8. CASE CreateHelpers
    BY <2>8 DEF CreateHelpers, CreateHelper, TypeOK, Helpers
  <2>9. CASE \/ InitTest \/ PrepareTest \/ StartTimers \/ JoinRunners
             \/ StopTimers \/ CleanupTest \/ PrintStats \/ TestDone
             \/ StopReports \/ StopEventgen \/ StopCheckpoints \/ Return
    BY <2>9 DEF InitTest, PrepareTest, StartTimers, JoinRunners, StopTimers,
       CleanupTest, PrintStats, TestDone, StopReports, StopEventgen,
       StopCheckpoints, Return, CancelHelper, JoinHelper
  <2> QED
    BY <1>1, <2>1, <2>2, <2>3, <2>4, <2>5, <2>6, <2>7, <2>8, <2>9 DEF MasterStep
<1>2. CASE \E t \in Threads : RunnerStep(t)
  <2> PICK t \in Threads : RunnerStep(t)
    BY <1>2
  <2> USE DEF RunnerGoto, RunnerMoves, RunnerCounts
  <2>1. CASE LockRequest(t)
    BY <2>1 DEF LockRequest, TypeOK, Mutexes, Helpers, Everyone, DestroyedInv
  <2>2. CASE GetRequest(t)
    BY <2>2 DEF GetRequest, TypeOK, Mutexes, Helpers, Everyone
  <2>3. CASE \/ ThreadInit(t) \/ PassBarrier(t) \/ ExecuteOk(t)
             \/ ExecuteFail(t) \/ ThreadDone(t) \/ Leave(t)
    BY <2>3 DEF ThreadInit, PassBarrier, ExecuteOk, ExecuteFail, ThreadDone,
       Leave, TypeOK
  <2> QED BY <2>1, <2>2, <2>3 DEF RunnerStep
<1>3. CASE \E h \in Helpers : HelperStep(h)
  <2> PICK h \in Helpers : HelperStep(h)
    BY <1>3
  <2> USE DEF HelperGoto, HelperMoves, HelperLocks, HelperUnlocks, TypeOK,
          Helpers, Mutexes, Everyone
  <2>1. CASE ReportPrint
    BY <2>1 DEF ReportPrint, ReportInv, DestroyedInv, AfterDestroy,
       AfterSilence, AfterJoin
  <2>2. CASE ReportSnapshot
    BY <2>2 DEF ReportSnapshot
  <2>3. CASE ReportLock
    BY <2>3 DEF ReportLock
  <2>4. CASE ReportUnlock
    BY <2>4 DEF ReportUnlock
  <2>5. CASE ReportTest
    BY <2>5 DEF ReportTest
  <2>6. CASE ReportSpin
    BY <2>6 DEF ReportSpin, vars
  <2>7. CASE CheckpointNext \/ CheckpointPrint
    BY <2>7 DEF CheckpointNext, CheckpointPrint
  <2>8. CASE CheckpointLock
    BY <2>8 DEF CheckpointLock
  <2>9. CASE CheckpointUnlock
    BY <2>9 DEF CheckpointUnlock
  <2>10. CASE HelperStart(h) \/ HelperBarrier(h) \/ HelperWake(h)
    BY <2>10 DEF HelperStart, HelperBarrier, HelperWake
  <2>11. CASE HelperCancelled(h)
    BY <2>11 DEF HelperCancelled
  <2>12. CASE EventgenQueued
    BY <2>12 DEF EventgenQueued
  <2> QED
    BY <2>1, <2>2, <2>3, <2>4, <2>5, <2>6, <2>7, <2>8, <2>9, <2>10, <2>11,
       <2>12 DEF HelperStep, ReportStep, CheckpointStep
<1>4. CASE Exited
  BY <1>4 DEF Exited, vars
<1> QED BY <1>1, <1>2, <1>3, <1>4 DEF Next

(* The invariant makes the sections exclusive. *)
LEMMA SectionsSound ==
  ASSUME ControlInv, SectionInv
  PROVE  SectionsExclusive
<1>1. ASSUME NEW x \in Inside("exec"), NEW y \in Inside("exec") PROVE x = y
  <2> DEFINE In(z) ==
        \/ z \in Threads /\ runner_pc[z] = "request"
        \/ z = "report" /\ helper_pc[z] = "snapshot"
        \/ z = "checkpoints" /\ helper_pc[z] \in {"print", "unlock"}
  <2>1. ASSUME NEW z \in Inside("exec") PROVE In(z)
    BY Zenon DEF Inside
  <2> QED BY <2>1 DEF SectionInv
<1>2. ASSUME NEW x \in Inside("report_interval"),
             NEW y \in Inside("report_interval")
      PROVE  x = y
  BY DEF Inside, SectionInv, ControlInv, ReportInv
<1> QED BY <1>1, <1>2 DEF SectionsExclusive

-----------------------------------------------------------------------------
(* How the number of runners in their loop changes when only t moves. *)
LEMMA RunningCount ==
  ASSUME NEW t \in Threads,
         \A u \in Threads : u # t => runner_pc'[u] = runner_pc[u]
  PROVE  Cardinality(At(Threads, runner_pc', Running)) =
           Cardinality(At(Threads, runner_pc, Running))
             + (IF runner_pc'[t] \in Running THEN 1 ELSE 0)
             - (IF runner_pc[t] \in Running THEN 1 ELSE 0)
BY CountMoves, RunTestAssumption

(* num_running is right after a step that moves one runner and changes     *)
(* num_running by what the move makes of it.                               *)
LEMMA RunningMoves ==
  ASSUME TypeOK, RunningInv, NEW t \in Threads, NEW x,
         runner_pc' = [runner_pc EXCEPT ![t] = x],
         num_running' = num_running + (IF x \in Running THEN 1 ELSE 0)
                                    - (IF runner_pc[t] \in Running THEN 1 ELSE 0)
  PROVE  RunningInv'
<1>1. runner_pc'[t] = x /\ \A u \in Threads : u # t => runner_pc'[u] = runner_pc[u]
  BY DEF TypeOK
<1>2. RunningInv' <=> num_running' = Cardinality(At(Threads, runner_pc', Running))
  BY DEF RunningInv, At
<1> QED BY <1>1, <1>2, RunningCount, Zenon DEF RunningInv

(* A step that touches neither leaves num_running right. *)
LEMMA RunningSame ==
  ASSUME RunningInv, runner_pc' = runner_pc, num_running' = num_running
  PROVE  RunningInv'
BY DEF RunningInv, At

(* num_running counts the runners in their loop after every step. *)
LEMMA RunningPreserved ==
  ASSUME IInv, Next
  PROVE  RunningInv'
<1> USE DEF IInv, threadVars, globalVars
<1>1. CASE MasterStep
  <2>1. CASE SetUp
    <3>1. \A t \in Threads : runner_pc[t] \notin Running
      BY <2>1 DEF SetUp, MasterGoto, ClosedInv, RunnersInv, BeforeLock, Running
    <3>2. Cardinality(At(Threads, runner_pc, Running)) = 0
      BY <3>1, CountZero, RunTestAssumption
    <3>3. runner_pc' = runner_pc /\ num_running' = num_running
      BY <2>1, <3>2 DEF SetUp, RunningInv
    <3> QED BY <3>3, RunningSame
  <2>2. CASE CreateRunner
    <3>1. CASE UNCHANGED runner_pc
      BY <2>2, <3>1, RunningSame DEF CreateRunner
    <3>2. CASE runner_pc' # runner_pc
      <4>1. PICK t \in Threads \ created : runner_pc' = [runner_pc EXCEPT ![t] = "init"]
        BY <2>2, <3>2, Zenon DEF CreateRunner
      <4>2. num_running' = num_running
        BY <2>2 DEF CreateRunner
      <4>3. runner_pc[t] = "none" /\ num_running \in Int
        BY DEF RunnersInv, TypeOK
      <4>4. num_running = num_running + 0 - 0
        BY <4>3
      <4> QED BY <4>1, <4>2, <4>3, <4>4, RunningMoves DEF Running
    <3> QED BY <3>1, <3>2
  <2>3. CASE MasterStep /\ ~SetUp /\ ~CreateRunner
    <3>1. runner_pc' = runner_pc /\ num_running' = num_running
      BY <2>3, Zenon DEF MasterStep, InitTest, PrepareTest, CreateHelpers,
         CreateHelper, StartTimers, ReleaseThreads, JoinRunners, StopTimers,
         Silence, UnlockInterval, CleanupTest, PrintStats, DestroyMutexes,
         TestDone, StopReports, DestroyInterval, StopEventgen, StopCheckpoints,
         Return, MasterMoves, MasterUnlocks, MasterDestroys, CancelHelper,
         JoinHelper
    <3> QED BY <3>1, RunningSame
  <2> QED BY <1>1, <2>1, <2>2, <2>3
<1>2. ASSUME NEW t \in Threads, RunnerStep(t)
      PROVE  RunningInv'
  <2> USE DEF RunnerGoto, RunnerMoves
  <2>0. num_running \in Int
    BY DEF TypeOK
  <2>1. CASE PassBarrier(t)
    <3>1. /\ runner_pc[t] = "barrier" /\ num_running' = num_running + 1
          /\ runner_pc' = [runner_pc EXCEPT ![t] = "loop"]
      BY <2>1, Zenon DEF PassBarrier, RunnerCounts
    <3>2. num_running + 1 = num_running + 1 - 0
      BY <2>0
    <3> QED BY <3>1, <3>2, RunningMoves DEF Running
  <2>2. CASE Leave(t)
    <3>1. /\ runner_pc[t] = "leave" /\ num_running' = num_running + -1
          /\ runner_pc' = [runner_pc EXCEPT ![t] = "ended"]
      BY <2>2, Zenon DEF Leave, RunnerCounts
    <3>2. num_running + -1 = num_running + 0 - 1
      BY <2>0
    <3> QED BY <3>1, <3>2, RunningMoves DEF Running
  <2>3. CASE ThreadInit(t)
    <3>1. PICK p \in {"barrier", "failed"} : RunnerGoto(t, "init", p)
      BY <2>3, Zenon DEF ThreadInit
    <3>2. num_running' = num_running + 0 - 0
      BY <2>0, <2>3 DEF ThreadInit
    <3> QED BY <3>1, <3>2, RunningMoves DEF Running
  <2>4. CASE \/ LockRequest(t) \/ GetRequest(t) \/ ExecuteOk(t)
             \/ ExecuteFail(t) \/ ThreadDone(t)
    <3>1. PICK p \in Running : runner_pc' = [runner_pc EXCEPT ![t] = p]
      BY <2>4 DEF LockRequest, GetRequest, ExecuteOk, ExecuteFail, ThreadDone,
         Running
    <3>2. runner_pc[t] \in Running
      BY <2>4 DEF LockRequest, GetRequest, ExecuteOk, ExecuteFail, ThreadDone,
         Running
    <3>3. num_running' = num_running
      BY <2>4, Zenon DEF LockRequest, GetRequest, ExecuteOk, ExecuteFail,
         ThreadDone
    <3>4. num_running = num_running + 1 - 1
      BY <2>0
    <3> QED BY <3>1, <3>2, <3>3, <3>4, RunningMoves
  <2> QED BY <1>2, <2>1, <2>2, <2>3, <2>4 DEF RunnerStep
<1>3. ASSUME NEW h \in Helpers, HelperStep(h)
      PROVE  RunningInv'
  <2>1. runner_pc' = runner_pc /\ num_running' = num_running
    BY <1>3, Zenon DEF HelperStep, HelperStart, HelperBarrier, HelperCancelled,
       HelperWake, ReportStep, ReportLock, ReportTest, ReportPrint,
       ReportSnapshot, ReportUnlock, ReportSpin, EventgenQueued,
       CheckpointStep, CheckpointNext, CheckpointLock, CheckpointPrint,
       CheckpointUnlock, HelperMoves, HelperLocks, HelperUnlocks, vars
  <2> QED BY <2>1, RunningSame
<1>4. CASE Exited
  BY <1>4, RunningSame DEF Exited, vars
<1> QED BY <1>1, <1>2, <1>3, <1>4 DEF Next
-----------------------------------------------------------------------------
(* The exit status is set once, by the step that ends the process; it is 0 *)
(* only if run_test has come to its end without an error.                  *)
LEMMA ExitPreserved ==
  ASSUME IInv, ControlInv', RunningInv', Next
  PROVE  ExitInv'
<1> USE DEF IInv, ExitInv
<1>1. CASE Return
  <2>1. CASE error
    BY <1>1, <2>1 DEF Return, ExitStatusTruthful
  <2>2. CASE ~error
    <3>1. /\ master_pc = "return" /\ runner_pc' = runner_pc
          /\ helper_pc' = helper_pc
      BY <1>1 DEF Return, threadVars
    <3>2. \A t \in Threads : runner_pc[t] = "ended"
      BY <2>2, <3>1 DEF RunnersInv, AfterJoin
    <3>3. \A h \in Helpers : helper_pc[h] \in {"none", "ended"}
      BY <3>1 DEF HelpersInv, AfterReport, AfterEventgen, AfterCheckpoints,
         Helpers
    <3>4. Cardinality(At(Threads, runner_pc', Running)) = 0
      BY <3>1, <3>2, CountZero, RunTestAssumption DEF Running
    <3>5. num_running' = 0
      BY <3>4 DEF RunningInv, At
    <3> QED BY <1>1, <3>1, <3>2, <3>3, <3>5 DEF Return, ExitStatusTruthful
  <2> QED BY <2>1, <2>2 DEF TypeOK
<1>2. CASE master_pc # "exited" /\ ~Return
  <2>1. \/ master_pc' = "exited" /\ exit_status' = 1
        \/ master_pc' # "exited" /\ exit_status' = exit_status
    <3>1. CASE MasterStep
      BY <1>2, <3>1 DEF MasterStep, InitTest, PrepareTest, SetUp,
         CreateHelpers, CreateHelper, CreateRunner, StartTimers,
         ReleaseThreads, JoinRunners, StopTimers, Silence, UnlockInterval,
         CleanupTest, PrintStats, DestroyMutexes, TestDone, StopReports,
         DestroyInterval, StopEventgen, StopCheckpoints, MasterMoves,
         MasterUnlocks, MasterDestroys, CancelHelper, JoinHelper, MasterGoto,
         ReturnOne
    <3>2. ASSUME NEW t \in Threads, RunnerStep(t)
          PROVE  UNCHANGED <<master_pc, exit_status>>
      BY <3>2, Zenon DEF RunnerStep, ThreadInit, PassBarrier, LockRequest,
         GetRequest, ExecuteOk, ExecuteFail, ThreadDone, Leave, RunnerMoves,
         RunnerCounts, masterVars
    <3>3. ASSUME NEW h \in Helpers, HelperStep(h)
          PROVE  UNCHANGED <<master_pc, exit_status>>
      BY <3>3, Zenon DEF HelperStep, HelperStart, HelperBarrier,
         HelperCancelled, HelperWake, ReportStep, ReportLock, ReportTest,
         ReportPrint, ReportSnapshot, ReportUnlock, ReportSpin, EventgenQueued,
         CheckpointStep, CheckpointNext, CheckpointLock, CheckpointPrint,
         CheckpointUnlock, HelperMoves, HelperLocks, HelperUnlocks, vars,
         masterVars
    <3> QED BY <1>2, <3>1, <3>2, <3>3 DEF Next, Exited
  <2> QED BY <1>2, <2>1 DEF ExitStatusTruthful
<1>3. CASE master_pc = "exited"
  <2>1. UNCHANGED vars
    <3>1. ~MasterStep
      BY <1>3 DEF MasterStep, InitTest, PrepareTest, SetUp, CreateHelpers,
         CreateHelper, CreateRunner, StartTimers, ReleaseThreads, JoinRunners,
         StopTimers, Silence, UnlockInterval, CleanupTest, PrintStats,
         DestroyMutexes, TestDone, StopReports, DestroyInterval, StopEventgen,
         StopCheckpoints, Return, MasterMoves, MasterUnlocks, MasterDestroys,
         CancelHelper, JoinHelper, MasterGoto, ReturnOne
    <3>2. ASSUME NEW t \in Threads PROVE ~RunnerStep(t)
      BY <1>3, Zenon DEF RunnerStep, ThreadInit, PassBarrier, LockRequest,
         GetRequest, ExecuteOk, ExecuteFail, ThreadDone, Leave, RunnerMoves,
         RunnerCounts, RunnerGoto
    <3>3. ASSUME NEW h \in Helpers PROVE ~HelperStep(h)
      BY <1>3, Zenon DEF HelperStep, HelperStart, HelperBarrier,
         HelperCancelled, HelperWake, ReportStep, ReportLock, ReportTest,
         ReportPrint, ReportSnapshot, ReportUnlock, ReportSpin, EventgenQueued,
         CheckpointStep, CheckpointNext, CheckpointLock, CheckpointPrint,
         CheckpointUnlock, HelperMoves, HelperLocks, HelperUnlocks, HelperGoto
    <3> QED BY <3>1, <3>2, <3>3 DEF Next, Exited
  <2> QED
    BY <2>1 DEF vars, masterVars, threadVars, globalVars, ExitStatusTruthful
<1> QED BY <1>1, <1>2, <1>3
-----------------------------------------------------------------------------
(* The invariant holds when run_test begins. *)
LEMMA InitIInv == Init => IInv
<1> SUFFICES ASSUME Init PROVE IInv
  OBVIOUS
<1>1. TypeOK
  <2>1. report_interval \in BOOLEAN
    BY DEF Init, Options
  <2>2. error \in BOOLEAN /\ interval \in BOOLEAN
    BY DEF Init
  <2>3. /\ exit_status \in -1 .. 1 /\ dispensed \in 0 .. MaxRequests
        /\ num_running \in Int /\ checkpoint \in 0 .. MaxCheckpoints
    BY RunTestAssumption DEF Init
  <2>4. /\ runner_pc \in [Threads -> RunnerPcs]
        /\ helper_pc \in [Helpers -> HelperPcs]
        /\ holder \in [Mutexes -> Everyone \cup {NoThread}]
    BY DEF Init, RunnerPcs, HelperPcs
  <2> QED
    BY <2>1, <2>2, <2>3, <2>4, Zenon DEF Init, TypeOK, MasterPcs
<1>2. RunningInv
  <2>1. \A t \in Threads : runner_pc[t] \notin Running
    BY DEF Init, Running
  <2> QED BY <2>1, CountZero, RunTestAssumption DEF Init, RunningInv
<1>3. ClosedInv /\ RunnersInv /\ DestroyedInv
  BY DEF Init, ClosedInv, RunnersInv, DestroyedInv, BeforeLock, Closed,
     AfterJoin, Mutexes
<1>4. ReportInv /\ HelpersInv /\ CheckpointInv /\ ExitInv
  BY <1>1 DEF Init, TypeOK, Options, ReportInv, HelpersInv, CheckpointInv,
     ExitInv, ExitStatusTruthful, AfterReport, AfterEventgen, AfterCheckpoints,
     AfterSilence, AfterJoin, Helpers
<1>5. SectionInv
  BY DEF Init, SectionInv, Helpers
<1> QED BY <1>1, <1>2, <1>3, <1>4, <1>5 DEF IInv

(* Every step preserves it. *)
LEMMA NextIInv == IInv /\ [Next]_vars => IInv'
<1> SUFFICES ASSUME IInv, [Next]_vars PROVE IInv'
  OBVIOUS
<1>0. ControlInv
  BY DEF IInv, ControlInv
<1>1. CASE Next
  <2>1. ControlInv'
    <3>1. CASE Exited
      BY <1>0, <3>1 DEF Exited, vars, masterVars, threadVars, helperLocals,
         mutexVars, globalVars, ControlInv, TypeOK, ClosedInv, RunnersInv,
         DestroyedInv, ReportInv, HelpersInv, CheckpointInv
    <3> QED
      BY <1>0, <1>1, <3>1, MasterPreserves, RunnerPreserves, HelperPreserves
      DEF Next
  <2>2. RunningInv'
    BY <1>1, RunningPreserved
  <2>3. ExitInv'
    BY <1>1, <2>1, <2>2, ExitPreserved
  <2>4. SectionInv'
    BY <1>0, <1>1, SectionsPreserved DEF IInv
  <2> QED BY <2>1, <2>2, <2>3, <2>4 DEF IInv, ControlInv
<1>2. CASE UNCHANGED vars
  <2>1. ControlInv'
    BY <1>0, <1>2 DEF vars, masterVars, threadVars, helperLocals, mutexVars,
       globalVars, ControlInv, TypeOK, ClosedInv, RunnersInv, DestroyedInv,
       ReportInv, HelpersInv, CheckpointInv
  <2>2. RunningInv' /\ ExitInv'
    BY <1>2, RunningSame DEF vars, masterVars, threadVars, globalVars, IInv,
       ExitInv, ExitStatusTruthful
  <2>3. SectionInv'
    BY <1>2 DEF vars, masterVars, threadVars, mutexVars, IInv, SectionInv
  <2> QED BY <2>1, <2>2, <2>3 DEF IInv, ControlInv
<1> QED BY <1>1, <1>2

(* The invariant holds in every state run_test and its threads can reach,  *)
(* whatever the options and whichever of its calls fail.                   *)
THEOREM Invariance == Spec => []IInv
BY InitIInv, NextIInv, PTL DEF Spec

(* Every variable keeps its type; the checkpoints thread never reads past  *)
(* the end of the list of checkpoints.                                     *)
THEOREM TypeCorrect == Spec => []TypeOK
<1>1. IInv => TypeOK
  BY DEF IInv
<1> QED BY <1>1, Invariance, PTL

(* After run_test has reset report_interval under report_interval_mutex    *)
(* the reporting thread is in no report and begins none, so print_stats    *)
(* and the test's done operation in run_test have the statistics alone.    *)
THEOREM ReportsSilenced == Spec => []SilentReports
<1>1. IInv => SilentReports
  BY DEF IInv, ReportInv, SilentReports
<1> QED BY <1>1, Invariance, PTL

(* No two threads are inside a section of exec_mutex, or of                *)
(* report_interval_mutex, at a time: also after run_test has destroyed     *)
(* exec_mutex, which the checkpoints thread may still lock.                *)
THEOREM SectionsExclude == Spec => []SectionsExclusive
<1>1. IInv => SectionsExclusive
  BY SectionsSound DEF IInv, ControlInv
<1> QED BY <1>1, Invariance, PTL

(* sysbench exits with 0 only if every runner ran and ended, every helper  *)
(* was joined and num_running is back at 0.                                *)
THEOREM ExitTruthful == Spec => []ExitStatusTruthful
<1>1. IInv => ExitStatusTruthful
  BY DEF IInv, ExitInv
<1> QED BY <1>1, Invariance, PTL

(* No runner leaves thread_start_mutex for its request loop before         *)
(* run_test has created all of them.                                       *)
THEOREM BarrierSafe == Spec => BarrierHolds
<1> DEFINE Passes ==
      \A t \in Threads :
        runner_pc[t] = "barrier" /\ runner_pc'[t] = "loop" => created = Threads
<1>1. IInv /\ [Next]_vars => [Passes]_vars
  <2> SUFFICES ASSUME IInv, Next, NEW t \in Threads,
                      runner_pc[t] = "barrier", runner_pc'[t] = "loop"
               PROVE  created = Threads
    BY DEF vars
  <2>1. PassBarrier(t)
    <3>1. ASSUME MasterStep PROVE FALSE
      <4>1. runner_pc' = runner_pc \/ CreateRunner
        BY <3>1, Zenon DEF MasterStep, InitTest, PrepareTest, SetUp,
           CreateHelpers, CreateHelper, StartTimers, ReleaseThreads,
           JoinRunners, StopTimers, Silence, UnlockInterval, CleanupTest,
           PrintStats, DestroyMutexes, TestDone, StopReports, DestroyInterval,
           StopEventgen, StopCheckpoints, Return, MasterMoves, MasterUnlocks,
           MasterDestroys, CancelHelper, JoinHelper, threadVars
      <4>2. CreateRunner => runner_pc'[t] \in {runner_pc[t], "init"}
        BY DEF CreateRunner, IInv, TypeOK
      <4> QED BY <4>1, <4>2
    <3>2. ASSUME NEW u \in Threads, RunnerStep(u), ~PassBarrier(t) PROVE FALSE
      <4>1. CASE u # t
        <5>1. PICK x : runner_pc' = [runner_pc EXCEPT ![u] = x]
          BY <3>2, Zenon DEF RunnerStep, ThreadInit, PassBarrier, LockRequest,
             GetRequest, ExecuteOk, ExecuteFail, ThreadDone, Leave,
             RunnerMoves, RunnerCounts, RunnerGoto
        <5> QED BY <4>1, <5>1 DEF IInv, TypeOK
      <4>2. CASE u = t
        BY <3>2, <4>2 DEF RunnerStep, ThreadInit, LockRequest, GetRequest,
           ExecuteOk, ExecuteFail, ThreadDone, Leave, RunnerMoves,
           RunnerCounts, RunnerGoto, IInv, TypeOK
      <4> QED BY <4>1, <4>2
    <3>3. ASSUME NEW h \in Helpers, HelperStep(h) PROVE runner_pc' = runner_pc
      BY <3>3, Zenon DEF HelperStep, HelperStart, HelperBarrier,
         HelperCancelled, HelperWake, ReportStep, ReportLock, ReportTest,
         ReportPrint, ReportSnapshot, ReportUnlock, ReportSpin, EventgenQueued,
         CheckpointStep, CheckpointNext, CheckpointLock, CheckpointPrint,
         CheckpointUnlock, HelperMoves, HelperLocks, HelperUnlocks, vars,
         threadVars
    <3> QED BY <3>1, <3>2, <3>3 DEF Next, Exited, vars, threadVars
  <2>2. /\ master_pc # "exited" /\ CanLock("thread_start")
        /\ t \in created /\ master_pc \in MasterPcs
    BY <2>1 DEF PassBarrier, RunnerCounts, RunnerGoto, IInv, TypeOK, RunnersInv
  <2>3. holder["thread_start"] = NoThread
    BY <2>2 DEF CanLock, IInv, DestroyedInv
  <2> QED
    BY <2>2, <2>3, RunTestAssumption DEF IInv, ClosedInv, RunnersInv,
       BeforeLock, Closed, AfterJoin, MasterPcs, Everyone
<1> QED BY <1>1, Invariance, PTL DEF Spec, BarrierHolds
=============================================================================
