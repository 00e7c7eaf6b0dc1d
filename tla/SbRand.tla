------------------------------- MODULE SbRand -------------------------------
(***************************************************************************)
(* The random number generators of sysbench (sysbench.c), in the           *)
(* arithmetic of C: an int wraps at WORD, a long does not.  Each operator  *)
(* is the set of the numbers a call can return, if it does not divide by   *)
(* zero.                                                                   *)
(***************************************************************************)
EXTENDS Integers

CONSTANTS
  INT_MAX,   \* 2^31 - 1
  rand_iter, \* --rand-spec-iter
  rand_pct,  \* --rand-spec-pct
  rand_res,  \* --rand-spec-res
  Steps,     \* a number drawn from [0, 1) is a multiple of 1/Steps
  LARGE_PRIME

WORD == 2 * (INT_MAX + 1)
SB_MAX_RND == INT_MAX \div 2
Ints == (-INT_MAX - 1) .. INT_MAX

ASSUME SbRandAssumption ==
  /\ INT_MAX \in Nat \ {0, 1}
  /\ {rand_iter, Steps} \subseteq Nat \ {0}
  /\ LARGE_PRIME \in Nat \ {0, 1}
  /\ \A q \in 2 .. LARGE_PRIME - 1 : LARGE_PRIME % q # 0
  /\ rand_pct \in 0..100 /\ rand_res \in 0..99

(* The int an unsigned int becomes. *)
Signed(x) == LET w == x % WORD IN IF w > INT_MAX THEN w - WORD ELSE w

(* The size of a range as an unsigned int. *)
Size(a, b) == (b - a + 1) % WORD

(* sb_rnd() % t *)
sb_rnd(t) == 0 .. ((IF t < SB_MAX_RND THEN t ELSE SB_MAX_RND) - 1)

(* The size as an int is the divisor, whose sign does not matter. *)
sb_rand_uniform(a, b) ==
  LET s == Signed(b - a + 1) IN {a + r : r \in sb_rnd(IF s < 0 THEN -s ELSE s)}

(* The mean of rand_iter uniform numbers; their sum can wrap. *)
sb_rand_gaussian(a, b) ==
  LET largest == (IF Size(a, b) < SB_MAX_RND THEN Size(a, b) ELSE SB_MAX_RND) - 1
  IN {Signed(a + ((sum % WORD) \div rand_iter)) : sum \in 0 .. (rand_iter * largest)}

(* The range, enlarged for the special values. *)
RangeSize(a, b) == (Size(a, b) * (100 \div (100 - rand_res))) % WORD

(* Faulty: the special values are not centred. *)
sb_rand_special_high(a, b) ==
  LET t == Size(a, b)
      d == ((t * rand_pct) % WORD) \div 100
      width == IF d < 1 THEN 1 ELSE d
  IN IF a >= b THEN {0} ELSE {Signed(a + (t \div 2) + r) : r \in 0 .. width}

(* The first part of the larger range is gaussian, the rest mapped to few  *)
(* values around the centre.                                               *)
sb_rand_special(a, b) ==
  LET t == Size(a, b)
      d == ((t * rand_pct) % WORD) \div 100
      width == IF d < 1 THEN 1 ELSE d
      start == (t \div 2) - (((t * rand_pct) % WORD) \div 200)
  IN IF a >= b THEN {0}
     ELSE UNION {IF res < t THEN sb_rand_gaussian(a, b)
                 ELSE {Signed(a + (res % width) + start)} : res \in sb_rnd(RangeSize(a, b))}

(* The conversion of x / y to an int, y > 0, is toward zero. *)
Truncated(x, y) == IF x < 0 THEN -((-x) \div y) ELSE x \div y

(* A power of a number below 1 is below 1.  A double that is no int        *)
(* becomes any.                                                            *)
sb_rand_pareto(a, b) ==
  UNION {LET n == Truncated(a * Steps + Signed(b - a + 1) * k, Steps)
         IN IF n \in Ints THEN {n} ELSE Ints : k \in 0 .. (Steps - 1)}

sb_rand(type, a, b) ==
  CASE type = "uniform" -> sb_rand_uniform(a, b)
    [] type = "gaussian" -> sb_rand_gaussian(a, b)
    [] type = "special" -> sb_rand_special(a, b)
    [] type = "pareto" -> sb_rand_pareto(a, b)

(* sb_rand_uniq: the number and the next seed, under a mutex.  A negative  *)
(* size is larger than the seed, as an unsigned long long.                 *)
UniqNumber(seed, a, b) ==
  LET s == Signed(b - a + 1)
  IN Signed(a + IF s < 0 THEN seed ELSE seed % s)
NextSeed(seed) == seed + LARGE_PRIME

(* The remainder that is taken first is one of a division by zero. *)
DividesByZero(type, a, b) ==
  CASE type \in {"uniform", "gaussian", "uniq"} -> Size(a, b) = 0
    [] type = "special" -> a < b /\ RangeSize(a, b) = 0
    [] type = "pareto" -> FALSE
=============================================================================
