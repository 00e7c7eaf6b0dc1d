--------------------------- MODULE OperLogProofs ----------------------------
(***************************************************************************)
(* Theorems about OperLog, for any number of runners, events, checkpoints  *)
(* and buckets: the reports divide the events of the run among them, and   *)
(* what a report prints fits together.                                     *)
(*                                                                         *)
(* Both are about a run no signal has interrupted.  The handler of SIGALRM *)
(* shares timers_copy with the report it interrupts, and without           *)
(* checkpoints it reads the timers with no mutex.                          *)
(***************************************************************************)
EXTENDS OperLog, ThreadLemmas

Timer ==
  [state : {"INITIALIZED", "RUNNING", "STOPPED"}, time_start : 0 .. MaxTime,
   min_time : 0 .. Infinity, max_time : 0 .. Longest, sum_time : Nat,
   events : Nat, queue_time : 0 .. QueueMax]

Report ==
  [events : Int, sum_time : Int, min_time : Int, max_time : Int,
   percentile : Int, samples : Int]

RunnerPlaces == {"idle", "taken", "started", "record", "done"}
PrinterPlaces ==
  {"wait", "text", "copy", "reset", "calculate", "clear", "print", "printed",
   "exit", "join", "done", "cut"}

(* The copy has been made and not printed. *)
Printing == {"reset", "calculate", "clear", "print"}

(* The events in the timers, and their time. *)
Events(ts) == Sum([t \in Threads |-> ts[t].events])
Time(ts) == Sum([t \in Threads |-> ts[t].sum_time])

(* The runners between their timer and the percentile. *)
Recording == Cardinality(At(Threads, pc, {"record"}))

Runners == Cardinality(Threads)

TypeInv ==
  /\ clock \in 0 .. MaxTime
  /\ n_checkpoints \in Nat /\ taken \in Nat
  /\ timers \in [Threads -> Timer] /\ timers_copy \in [Threads -> Timer]
  /\ value \in [Threads -> Nat]
  /\ percentile \in [Buckets -> Nat]
  /\ report \in Report
  /\ unreported \in [events : Int, sum_time : Int]
  /\ DOMAIN pc = Callers
  /\ \A t \in Threads : pc[t] \in RunnerPlaces
  /\ \A c \in Printers : pc[c] \in PrinterPlaces

(* A started event began before now. *)
StartInv == \A t \in Threads : timers[t].time_start <= clock

(* Only one prints: the master starts when the runners have ended and the  *)
(* checkpoint thread is gone.                                              *)
PrinterInv ==
  /\ pc["handler"] = "wait"
  /\ pc["master"] \in {"wait", "join"} \/ pc["checkpoint"] \in {"done", "cut"}
  /\ pc["master"] # "wait" => \A t \in Threads : pc[t] = "done"
  /\ pc["checkpoint"] # "done" => n_checkpoints > 0

(* With checkpoints, who resets has timers_mutex. *)
MutexInv ==
  \A c \in Printers :
    n_checkpoints > 0 /\ pc[c] \in {"reset", "calculate", "clear"}
      => timers_mutex = c

(* The average of a timer lies between its minimum and its maximum. *)
MeanInv(ts) ==
  \A t \in Threads :
    /\ ts[t].min_time * ts[t].events <= ts[t].sum_time
    /\ ts[t].sum_time <= ts[t].max_time * ts[t].events

(* The same events are in two copies of the timers. *)
SameEvents(ts, us) ==
  \A t \in Threads : ts[t].events = us[t].events /\ ts[t].sum_time = us[t].sum_time

(* The events e and their time s are all that is unreported, or more is:   *)
(* the report the cancelled checkpoint thread has not printed.             *)
Unreported(e, s) ==
  /\ e <= unreported.events /\ s <= unreported.sum_time
  /\ pc["checkpoint"] # "cut" => unreported.events = e /\ unreported.sum_time = s

(* What is unreported is in the timers, and in the copy of a printer that  *)
(* has reset them.                                                         *)
EventsInv ==
  LET Copied == \E c \in Printers : pc[c] \in Printing \ {"reset"}
      InCopy(n) == IF Copied THEN n ELSE 0
  IN /\ Unreported(Events(timers) + InCopy(Events(timers_copy)),
                   Time(timers) + InCopy(Time(timers_copy)))
     /\ \A c \in Printers : pc[c] = "reset" => SameEvents(timers_copy, timers)

(* The samples, and the runners that have yet to record theirs, are the    *)
(* events measured since the last report and those of the runners that     *)
(* were recording then.                                                    *)
SamplesInv ==
  LET Copied == \E c \in Printers : pc[c] \in {"calculate", "clear"}
      measured == IF Copied THEN Events(timers_copy) ELSE Events(timers)
  IN /\ Sum(percentile) + Recording - measured \in 0 .. Runners
     /\ Copied => Events(timers) = 0

(* The percentile has been calculated, and is not printed yet. *)
CalculatedInv ==
  \A c \in Printers : pc[c] \in {"clear", "print"} =>
    /\ report.percentile <= RangeMax
    /\ report.samples - Events(timers_copy) \in -Runners .. Runners

LiveInv ==
  /\ TypeInv /\ StartInv /\ PrinterInv /\ MutexInv
  /\ MeanInv(timers) /\ MeanInv(timers_copy)
  /\ EventsInv /\ SamplesInv /\ CalculatedInv
  /\ ReportSound

(* The inductive invariant.  A caller that was interrupted stays so. *)
IInv == interrupted = NoThread => LiveInv
-----------------------------------------------------------------------------
(* Sums, minima and maxima *)

(* The units of a function are those of its values. *)
LEMMA SumTally ==
  ASSUME NEW A, NEW f \in [A -> Nat]
  PROVE  Sum(f) = Tally(A, f)
<1> DEFINE U == UNION {{x} \X (0 .. f[x] - 1) : x \in DOMAIN f}
<1>1. ASSUME NEW p \in U PROVE p \in Units(A, f)
  <2>1. PICK x \in A : p \in {x} \X (0 .. f[x] - 1)
    OBVIOUS
  <2>2. f[x] \in Nat
    OBVIOUS
  <2> QED BY <2>1, <2>2 DEF Units
<1>2. ASSUME NEW p \in Units(A, f) PROVE p \in U
  <2>1. p \in A \X Nat /\ p[2] < f[p[1]] /\ f[p[1]] \in Nat
    BY DEF Units
  <2>2. p \in {p[1]} \X (0 .. f[p[1]] - 1)
    BY <2>1
  <2> QED BY <2>1, <2>2
<1>3. U = Units(A, f)
  BY <1>1, <1>2
<1> QED BY <1>3 DEF Sum, Tally

(* A sum of finitely many natural numbers is one. *)
LEMMA SumNat ==
  ASSUME NEW A, IsFiniteSet(A), NEW f \in [A -> Nat]
  PROVE  Sum(f) \in Nat
<1>1. PICK B \in Nat : \A t \in A : f[t] \in 0 .. B
  BY NumbersBounded
<1> QED BY <1>1, SumTally, TallyNat

(* A sum of zeros is zero. *)
LEMMA SumZero ==
  ASSUME NEW A, NEW f \in [A -> Nat], \A t \in A : f[t] = 0
  PROVE  Sum(f) = 0
BY SumTally, TallyZero

(* One term of a sum changes. *)
LEMMA SumChange ==
  ASSUME NEW A, IsFiniteSet(A), NEW f \in [A -> Nat], NEW g \in [A -> Nat],
         NEW t \in A, \A u \in A : u # t => g[u] = f[u]
  PROVE  Sum(g) = Sum(f) + g[t] - f[t]
<1>1. PICK B \in Nat : \A u \in A : f[u] \in 0 .. B
  BY NumbersBounded
<1>2. PICK C \in Nat : \A u \in A : g[u] \in 0 .. C
  BY NumbersBounded
<1>3. Tally(A, f) = Tally(A \ {t}, f) + f[t] /\ Tally(A \ {t}, f) \in Nat
  BY <1>1, TallyTake
<1>4. Tally(A, g) = Tally(A \ {t}, g) + g[t] /\ Tally(A \ {t}, g) \in Nat
  BY <1>2, TallyTake
<1>5. Tally(A \ {t}, g) = Tally(A \ {t}, f)
  BY TallySame
<1>6. Sum(f) = Tally(A, f) /\ Sum(g) = Tally(A, g)
  BY SumTally
<1>7. f[t] \in Nat /\ g[t] \in Nat
  OBVIOUS
<1> QED BY <1>3, <1>4, <1>5, <1>6, <1>7

(* Products with a larger factor are larger. *)
LEMMA ProductMonotone ==
  ASSUME NEW a \in Nat, NEW b \in Nat, a <= b, NEW n \in Nat
  PROVE  a * n <= b * n
<1>1. PICK d \in Nat : b = a + d
  BY b - a \in Nat /\ b = a + (b - a)
<1>2. d * n \in Nat /\ a * n \in Nat
  OBVIOUS
<1>3. b * n = a * n + d * n
  BY <1>1
<1> QED BY <1>2, <1>3

(* Averages between two bounds have an average between them. *)
LEMMA SumMean ==
  ASSUME NEW T, IsFiniteSet(T), NEW e \in [T -> Nat], NEW s \in [T -> Nat],
         NEW lo \in Nat, NEW hi \in Nat,
         \A t \in T : lo * e[t] <= s[t] /\ s[t] <= hi * e[t]
  PROVE  lo * Sum(e) <= Sum(s) /\ Sum(s) <= hi * Sum(e)
<1> DEFINE Mean(A) == lo * Tally(A, e) <= Tally(A, s) /\ Tally(A, s) <= hi * Tally(A, e)
           F == {A \in SUBSET T : Mean(A)}
<1>1. {} \in F
  <2>1. Tally({}, e) = 0 /\ Tally({}, s) = 0
    BY TallyEmpty
  <2> QED BY <2>1
<1>2. ASSUME NEW A \in SUBSET T, NEW t \in T \ A, A \in F PROVE A \cup {t} \in F
  <2>1. PICK B \in Nat : \A u \in T : e[u] \in 0 .. B
    BY NumbersBounded
  <2>2. PICK C \in Nat : \A u \in T : s[u] \in 0 .. C
    BY NumbersBounded
  <2>3. IsFiniteSet(A)
    BY FS_Subset
  <2>4. PICK x \in Nat : Tally(A, e) = x
    BY <2>1, <2>3, TallyNat
  <2>5. PICK y \in Nat : Tally(A, s) = y
    BY <2>2, <2>3, TallyNat
  <2>6. Tally(A \cup {t}, e) = x + e[t]
    BY <2>1, <2>3, <2>4, TallyAdd
  <2>7. Tally(A \cup {t}, s) = y + s[t]
    BY <2>2, <2>3, <2>5, TallyAdd
  <2>8. PICK d \in Nat : d = e[t]
    OBVIOUS
  <2>9. PICK z \in Nat : z = s[t]
    OBVIOUS
  <2>10. lo * x <= y /\ y <= hi * x
    BY <1>2, <2>4, <2>5
  <2>11. lo * d <= z /\ z <= hi * d
    BY <2>8, <2>9
  <2>12. lo * (x + d) = lo * x + lo * d /\ hi * (x + d) = hi * x + hi * d
    OBVIOUS
  <2>13. lo * x \in Nat /\ lo * d \in Nat /\ hi * x \in Nat /\ hi * d \in Nat
    OBVIOUS
  <2>14. lo * (x + d) <= y + z /\ y + z <= hi * (x + d)
    BY <2>10, <2>11, <2>12, <2>13
  <2>15. Mean(A \cup {t})
    BY <2>6, <2>7, <2>8, <2>9, <2>14
  <2> QED BY <2>15
<1> HIDE DEF F
<1>3. T \in F
  BY <1>1, <1>2, SetInduction
<1>4. Mean(T)
  BY <1>3 DEF F
<1> QED BY <1>4, SumTally

(* A set of natural numbers has a minimum. *)
LEMMA MinFacts ==
  ASSUME NEW S \in SUBSET Nat, S # {}
  PROVE  Min(S) \in S /\ \A y \in S : Min(S) <= y
<1>1. PICK x \in S : \A y \in S : x <= y
  BY LeastNatural
<1> QED BY <1>1 DEF Min

(* A bounded set of natural numbers has a maximum. *)
LEMMA MaxFacts ==
  ASSUME NEW B \in Nat, NEW S \in SUBSET (0 .. B), S # {}
  PROVE  Max(S) \in S /\ \A y \in S : y <= Max(S)
<1> DEFINE R == {n \in Nat : B - n \in S}
<1>1. R \in SUBSET Nat
  OBVIOUS
<1>2. R # {}
  <2>1. PICK y \in S : TRUE
    OBVIOUS
  <2>2. B - y \in Nat /\ B - (B - y) = y
    OBVIOUS
  <2> QED BY <2>1, <2>2
<1> HIDE DEF R
<1>3. PICK x \in R : \A y \in R : x <= y
  BY <1>1, <1>2, LeastNatural
<1>4. B - x \in S
  BY <1>3 DEF R
<1>5. ASSUME NEW y \in S PROVE B - x >= y
  <2>1. B - y \in Nat /\ B - (B - y) = y
    OBVIOUS
  <2>2. B - y \in R
    BY <2>1 DEF R
  <2>3. x <= B - y /\ x \in Nat
    BY <1>1, <1>3, <2>2
  <2> QED BY <2>1, <2>3
<1>6. \E m \in S : \A y \in S : m >= y
  BY <1>4, <1>5
<1>7. Max(S) \in S /\ \A y \in S : Max(S) >= y
  BY <1>6, Zenon DEF Max
<1> QED BY <1>7

(* The events and times of timers are natural numbers. *)
LEMMA EventsNat ==
  ASSUME NEW ts \in [Threads -> Timer]
  PROVE  /\ [t \in Threads |-> ts[t].events] \in [Threads -> Nat]
         /\ [t \in Threads |-> ts[t].sum_time] \in [Threads -> Nat]
         /\ Events(ts) \in Nat /\ Time(ts) \in Nat
<1>1. [t \in Threads |-> ts[t].events] \in [Threads -> Nat]
  BY DEF Timer
<1>2. [t \in Threads |-> ts[t].sum_time] \in [Threads -> Nat]
  BY DEF Timer
<1> QED BY <1>1, <1>2, SumNat, OperLogAssumption DEF Events, Time

(* What one timer's change does to the sums. *)
LEMMA EventsChange ==
  ASSUME NEW ts \in [Threads -> Timer], NEW us \in [Threads -> Timer],
         NEW t \in Threads, \A u \in Threads : u # t => us[u] = ts[u]
  PROVE  /\ Events(us) = Events(ts) + us[t].events - ts[t].events
         /\ Time(us) = Time(ts) + us[t].sum_time - ts[t].sum_time
<1>1. PICK f \in [Threads -> Nat] : f = [u \in Threads |-> ts[u].events]
  BY EventsNat
<1>2. PICK g \in [Threads -> Nat] : g = [u \in Threads |-> us[u].events]
  BY EventsNat
<1>3. PICK h \in [Threads -> Nat] : h = [u \in Threads |-> ts[u].sum_time]
  BY EventsNat
<1>4. PICK k \in [Threads -> Nat] : k = [u \in Threads |-> us[u].sum_time]
  BY EventsNat
<1>5. /\ \A u \in Threads : u # t => g[u] = f[u]
      /\ g[t] = us[t].events /\ f[t] = ts[t].events
  BY <1>1, <1>2
<1>6. /\ \A u \in Threads : u # t => k[u] = h[u]
      /\ k[t] = us[t].sum_time /\ h[t] = ts[t].sum_time
  BY <1>3, <1>4
<1>7. Sum(g) = Sum(f) + g[t] - f[t]
  BY <1>5, SumChange, OperLogAssumption
<1>8. Sum(k) = Sum(h) + k[t] - h[t]
  BY <1>6, SumChange, OperLogAssumption
<1> QED BY <1>1, <1>2, <1>3, <1>4, <1>5, <1>6, <1>7, <1>8 DEF Events, Time

(* Timers with the same events have the same sums. *)
LEMMA EventsSame ==
  ASSUME NEW ts, NEW us, SameEvents(ts, us)
  PROVE  Events(ts) = Events(us) /\ Time(ts) = Time(us)
<1>1. /\ [t \in Threads |-> ts[t].events] = [t \in Threads |-> us[t].events]
      /\ [t \in Threads |-> ts[t].sum_time] = [t \in Threads |-> us[t].sum_time]
  BY DEF SameEvents
<1> QED BY <1>1 DEF Events, Time

(* After a reset there is nothing in the timers. *)
LEMMA EventsZero ==
  ASSUME NEW ts \in [Threads -> Timer],
         \A t \in Threads : ts[t].events = 0 /\ ts[t].sum_time = 0
  PROVE  Events(ts) = 0 /\ Time(ts) = 0
<1>1. PICK f \in [Threads -> Nat] : f = [u \in Threads |-> ts[u].events]
  BY EventsNat
<1>2. PICK g \in [Threads -> Nat] : g = [u \in Threads |-> ts[u].sum_time]
  BY EventsNat
<1>3. Sum(f) = 0 /\ Sum(g) = 0
  BY <1>1, <1>2, SumZero
<1> QED BY <1>1, <1>2, <1>3 DEF Events, Time

(* The merged average lies between the merged minimum and maximum. *)
LEMMA MergedMean ==
  ASSUME NEW ts \in [Threads -> Timer], MeanInv(ts)
  PROVE  LET total == merge_timers(ts)
         IN /\ total.events = Events(ts) /\ total.sum_time = Time(ts)
            /\ total.min_time \in Nat /\ total.max_time \in Nat
            /\ total.min_time * total.events <= total.sum_time
            /\ total.sum_time <= total.max_time * total.events
<1>1. PICK e \in [Threads -> Nat] : e = [u \in Threads |-> ts[u].events]
  BY EventsNat
<1>2. PICK s \in [Threads -> Nat] : s = [u \in Threads |-> ts[u].sum_time]
  BY EventsNat
<1> DEFINE Mins == {ts[t].min_time : t \in Threads} \cup {Infinity}
           Maxs == {ts[t].max_time : t \in Threads} \cup {0}
<1>3. Infinity \in Nat /\ Longest \in Nat
  BY OperLogAssumption DEF Infinity, Longest
<1>4. Mins \in SUBSET Nat /\ Mins # {}
  BY <1>3 DEF Timer
<1>5. Maxs \in SUBSET (0 .. Longest) /\ Maxs # {}
  BY <1>3 DEF Timer
<1>6. PICK lo \in Nat : lo = Min(Mins) /\ \A y \in Mins : lo <= y
  BY <1>4, MinFacts
<1>7. Max(Maxs) \in Maxs /\ \A y \in Maxs : y <= Max(Maxs)
  BY <1>3, <1>5, MaxFacts
<1>8. PICK hi \in Nat : hi = Max(Maxs) /\ \A y \in Maxs : y <= hi
  <2> HIDE DEF Maxs
  <2>1. Max(Maxs) \in 0 .. Longest
    BY <1>5, <1>7, Zenon
  <2>2. Max(Maxs) \in Nat
    BY <1>3, <2>1
  <2> QED BY <1>7, <2>2
<1>9. ASSUME NEW t \in Threads
      PROVE  lo * e[t] <= s[t] /\ s[t] <= hi * e[t]
  <2>1. PICK n \in Nat : n = e[t] /\ n = ts[t].events
    BY <1>1
  <2>2. PICK x \in Nat : x = s[t] /\ x = ts[t].sum_time
    BY <1>2
  <2>a. ts[t].min_time \in Mins /\ ts[t].max_time \in Maxs
    OBVIOUS
  <2>b. ts[t].min_time \in Nat /\ ts[t].max_time \in Nat
    BY <1>3 DEF Timer
  <2> HIDE DEF Mins, Maxs
  <2>3. PICK a \in Nat : a = ts[t].min_time /\ lo <= a
    BY <1>6, <2>a, <2>b
  <2>4. PICK b \in Nat : b = ts[t].max_time /\ b <= hi
    BY <1>8, <2>a, <2>b
  <2>5. a * n <= x /\ x <= b * n
    BY <2>1, <2>2, <2>3, <2>4 DEF MeanInv
  <2>6. lo * n <= a * n /\ b * n <= hi * n
    BY <2>3, <2>4, ProductMonotone
  <2>7. lo * n \in Nat /\ a * n \in Nat /\ b * n \in Nat /\ hi * n \in Nat
    OBVIOUS
  <2> QED BY <2>1, <2>2, <2>5, <2>6, <2>7
<1>10. lo * Sum(e) <= Sum(s) /\ Sum(s) <= hi * Sum(e)
  BY <1>9, SumMean, OperLogAssumption
<1>11. /\ merge_timers(ts).events = Sum(e) /\ Events(ts) = Sum(e)
       /\ merge_timers(ts).sum_time = Sum(s) /\ Time(ts) = Sum(s)
       /\ merge_timers(ts).min_time = lo /\ merge_timers(ts).max_time = hi
  BY <1>1, <1>2, <1>6, <1>8 DEF merge_timers, Events, Time
<1> HIDE DEF Mins, Maxs
<1> QED BY <1>10, <1>11

(* The percentile is on the scale: the last bucket has everything at or    *)
(* below it.                                                               *)
LEMMA PercentileOnScale ==
  ASSUME NEW p \in [Buckets -> Nat]
  PROVE  /\ sb_percentile_calculate(p) \in Nat
         /\ sb_percentile_calculate(p) <= RangeMax
<1>0. RangeMax \in Nat \ {0} /\ percentile_rank \in 1 .. 100
  BY OperLogAssumption
<1>1. IsFiniteSet(Buckets)
  BY <1>0, FS_Interval DEF Buckets
<1>2. PICK n \in Nat : n = Sum(p)
  BY <1>1, SumNat
<1>3. CASE n = 0
  BY <1>0, <1>2, <1>3 DEF sb_percentile_calculate
<1>4. CASE n # 0
  <2> DEFINE nmax == (Sum(p) * percentile_rank + 50) \div 100
             UpTo(i) == Sum([j \in 0 .. i |-> p[j]])
             S == {i \in Buckets \ {0} : UpTo(i) >= nmax} \cup {RangeMax + 1}
  <2>1. sb_percentile_calculate(p) = Min(S)
    BY <1>2, <1>4 DEF sb_percentile_calculate
  <2>2. UpTo(RangeMax) = n
    <3>1. [j \in 0 .. RangeMax |-> p[j]] = p
      BY DEF Buckets
    <3> QED BY <1>2, <3>1
  <2>3. nmax \in Int /\ nmax <= n
    <3>1. PICK x \in Nat : x = n * percentile_rank /\ x <= n * 100
      <4>1. percentile_rank \in Nat /\ percentile_rank <= 100 /\ 100 \in Nat
        BY <1>0
      <4>2. percentile_rank * n <= 100 * n
        BY <4>1, ProductMonotone
      <4>3. n * percentile_rank = percentile_rank * n /\ n * 100 = 100 * n /\ n * percentile_rank \in Nat
        BY <4>1
      <4> QED BY <4>2, <4>3
    <3>2. (x + 50) \div 100 \in Int /\ (x + 50) \div 100 <= n
      BY <3>1
    <3> QED BY <1>2, <3>1, <3>2
  <2>4. RangeMax \in S
    <3>1. UpTo(RangeMax) >= nmax
      BY <2>2, <2>3
    <3>2. RangeMax \in Buckets \ {0}
      BY <1>0 DEF Buckets
    <3> HIDE DEF UpTo, nmax
    <3> QED BY <3>1, <3>2
  <2>5. S \in SUBSET Nat
    BY <1>0 DEF Buckets
  <2> HIDE DEF S
  <2>6. Min(S) \in S /\ \A y \in S : Min(S) <= y
    BY <2>4, <2>5, MinFacts
  <2> QED BY <2>1, <2>4, <2>5, <2>6
<1> QED BY <1>3, <1>4
-----------------------------------------------------------------------------
(* Steps of the runners *)

(* While a printer resets, no runner starts or stops its timer. *)
LEMMA NobodyResets ==
  ASSUME LiveInv, NEW t \in Threads, pc[t] # "done", Lockable(timers_mutex)
  PROVE  /\ pc["master"] = "wait"
         /\ \A c \in Printers : pc[c] \notin {"reset", "calculate", "clear"}
<1>1. pc["master"] = "wait" /\ pc["handler"] = "wait"
  BY DEF LiveInv, PrinterInv
<1>2. ASSUME pc["checkpoint"] \in {"reset", "calculate", "clear"} PROVE FALSE
  <2>1. n_checkpoints > 0
    BY <1>2 DEF LiveInv, PrinterInv
  <2>2. timers_mutex = "checkpoint"
    BY <1>2, <2>1 DEF LiveInv, MutexInv, Printers
  <2> QED BY <2>1, <2>2, OperLogAssumption DEF Lockable, Callers, Printers
<1> QED BY <1>1, <1>2 DEF Printers

(* A runner's step leaves the printers where they are. *)
LEMMA RunnerGoto ==
  ASSUME LiveInv, NEW t \in Threads, NEW from, NEW to \in RunnerPlaces,
         Goto(t, from, to)
  PROVE  /\ pc[t] = from /\ pc'[t] = to /\ DOMAIN pc' = Callers
         /\ \A u \in Threads : u # t => pc'[u] = pc[u]
         /\ \A u \in Threads : pc'[u] \in RunnerPlaces
         /\ \A c \in Printers : pc'[c] = pc[c]
<1>1. t \in DOMAIN pc /\ t \notin Printers /\ DOMAIN pc = Callers
  BY OperLogAssumption DEF LiveInv, TypeInv, Callers
<1>2. pc[t] = from /\ pc' = [pc EXCEPT ![t] = to]
  BY DEF Goto
<1>3. DOMAIN pc' = Callers /\ pc'[t] = to /\ \A u : u # t /\ u \in Callers => pc'[u] = pc[u]
  BY <1>1, <1>2
<1> QED BY <1>1, <1>2, <1>3 DEF LiveInv, TypeInv, Callers

(* How the number of the recording runners changes. *)
LEMMA RecordingMoves ==
  ASSUME NEW t \in Threads, \A u \in Threads : u # t => pc'[u] = pc[u]
  PROVE  Recording' = Recording + (IF pc'[t] = "record" THEN 1 ELSE 0)
                                - (IF pc[t] = "record" THEN 1 ELSE 0)
<1>1. PICK f, g : f = pc /\ g = pc'
  OBVIOUS
<1>2. IsFiniteSet(Threads) /\ \A u \in Threads : u # t => g[u] = f[u]
  BY <1>1, OperLogAssumption
<1>3. PICK P : P = {"record"}
  OBVIOUS
<1>4. Cardinality(At(Threads, g, P)) =
        Cardinality(At(Threads, f, P)) + (IF g[t] \in P THEN 1 ELSE 0)
                                       - (IF f[t] \in P THEN 1 ELSE 0)
  BY ONLY <1>2, t \in Threads, CountMoves
<1> QED BY <1>1, <1>3, <1>4 DEF Recording

(* It is at most the number of runners. *)
LEMMA RecordingNat ==
  Recording \in Nat /\ Runners \in Nat /\ Recording <= Runners
BY CountNat, OperLogAssumption DEF Recording, Runners

(* A step that moves no printer and leaves the report alone. *)
LEMMA PrintersStay ==
  ASSUME LiveInv, \A c \in Printers : pc'[c] = pc[c],
         UNCHANGED <<report, timers_copy, timers_mutex, n_checkpoints>>,
         \A t \in Threads : pc[t] = "done" => pc'[t] = "done"
  PROVE  /\ PrinterInv' /\ MutexInv' /\ MeanInv(timers_copy)'
         /\ CalculatedInv' /\ (interrupted = NoThread => ReportSound')
<1>1. PrinterInv' /\ MutexInv'
  BY DEF LiveInv, PrinterInv, MutexInv, Printers
<1>2. MeanInv(timers_copy)'
  BY DEF LiveInv, MeanInv
<1>3. Events(timers_copy)' = Events(timers_copy)
  BY DEF Events
<1>4. CalculatedInv'
  BY <1>3 DEF LiveInv, CalculatedInv, Runners
<1>5. interrupted = NoThread => ReportSound'
  BY DEF LiveInv, ReportSound
<1> QED BY <1>1, <1>2, <1>4, <1>5

(* The time of an event that is stopped now. *)
LEMMA ElapsedNat ==
  ASSUME LiveInv, NEW t \in Threads
  PROVE  sb_timer_update(timers[t]) \in 0 .. Longest
<1>1. /\ timers[t].time_start \in 0 .. MaxTime /\ clock \in 0 .. MaxTime
      /\ timers[t].time_start <= clock /\ timers[t].queue_time \in 0 .. QueueMax
  BY DEF LiveInv, TypeInv, StartInv, Timer
<1> QED BY <1>1, OperLogAssumption DEF sb_timer_update, Longest

(* A runner that takes or starts an event leaves what its timer has        *)
(* measured.                                                               *)
LEMMA TimerSetLive ==
  ASSUME LiveInv, interrupted = NoThread, NEW t \in Threads, NEW r \in Timer,
         r.events = timers[t].events, r.sum_time = timers[t].sum_time,
         r.min_time = timers[t].min_time, r.max_time = timers[t].max_time,
         r.time_start <= clock,
         timers' = [timers EXCEPT ![t] = r],
         UNCHANGED <<timers_copy, timers_mutex, value, percentile, report,
                     unreported, clock, n_checkpoints, taken>>,
         pc[t] # "record", pc'[t] # "record", pc[t] # "done",
         DOMAIN pc' = Callers,
         \A u \in Threads : u # t => pc'[u] = pc[u],
         \A u \in Threads : pc'[u] \in RunnerPlaces,
         \A c \in Printers : pc'[c] = pc[c]
  PROVE  LiveInv'
<1>4. timers \in [Threads -> Timer] /\ clock \in 0 .. MaxTime
  BY DEF LiveInv, TypeInv
<1>5. PICK us : us = timers' /\ us = [timers EXCEPT ![t] = r]
  OBVIOUS
<1>6. us \in [Threads -> Timer]
  BY <1>4, <1>5
<1>7. \A u \in Threads : u # t => us[u] = timers[u]
  BY <1>4, <1>5
<1>a. us[t] = r
  BY <1>4, <1>5
<1>8. Events(timers)' = Events(timers) /\ Time(timers)' = Time(timers)
  <2>1. /\ Events(us) = Events(timers) + us[t].events - timers[t].events
        /\ Time(us) = Time(timers) + us[t].sum_time - timers[t].sum_time
    BY <1>4, <1>6, <1>7, EventsChange
  <2>2. /\ timers[t].events \in Nat /\ timers[t].sum_time \in Nat
        /\ Events(timers) \in Nat /\ Time(timers) \in Nat
    BY <1>4, EventsNat DEF Timer
  <2>3. Events(us) = Events(timers) /\ Time(us) = Time(timers)
    BY <1>a, <2>1, <2>2
  <2> QED BY <1>5, <2>3 DEF Events, Time
<1>9. TypeInv'
  BY <1>5, <1>6 DEF LiveInv, TypeInv
<1>10. StartInv'
  <2>1. \A u \in Threads : us[u].time_start <= clock
    BY <1>a, <1>7 DEF LiveInv, StartInv
  <2> QED BY <1>5, <2>1 DEF StartInv
<1>11. MeanInv(timers)'
  <2>1. MeanInv(us)
    BY <1>a, <1>7 DEF LiveInv, MeanInv
  <2> QED BY <1>5, <2>1 DEF MeanInv
<1>12. EventsInv'
  <2>1. Events(timers_copy)' = Events(timers_copy) /\ Time(timers_copy)' = Time(timers_copy)
    BY DEF Events, Time
  <2>2. pc'["checkpoint"] = pc["checkpoint"]
    BY DEF Printers
  <2>3. SameEvents(timers_copy, timers) => SameEvents(timers_copy, timers)'
    BY <1>5, <1>7, <1>a DEF SameEvents
  <2> QED BY <1>8, <2>1, <2>2, <2>3 DEF LiveInv, EventsInv, Unreported
<1>13. SamplesInv'
  <2>1. Recording' = Recording
    BY RecordingMoves, RecordingNat
  <2>2. Sum(percentile)' = Sum(percentile)
    BY DEF Sum
  <2>3. Events(timers_copy)' = Events(timers_copy)
    BY DEF Events
  <2> QED BY <1>8, <2>1, <2>2, <2>3 DEF LiveInv, SamplesInv, Runners
<1>14. PrinterInv' /\ MutexInv' /\ MeanInv(timers_copy)' /\ CalculatedInv' /\ ReportSound'
  <2>1. \A u \in Threads : pc[u] = "done" => pc'[u] = "done"
    OBVIOUS
  <2> QED BY <2>1, PrintersStay
<1> QED BY <1>9, <1>10, <1>11, <1>12, <1>13, <1>14 DEF LiveInv

(* Starting the timer. *)
LEMMA EventStartLive ==
  ASSUME LiveInv, interrupted = NoThread, NEW t \in Threads, EventStart(t)
  PROVE  LiveInv'
<1>1. /\ pc[t] = "taken" /\ pc'[t] = "started" /\ DOMAIN pc' = Callers
      /\ \A u \in Threads : u # t => pc'[u] = pc[u]
      /\ \A u \in Threads : pc'[u] \in RunnerPlaces
      /\ \A c \in Printers : pc'[c] = pc[c]
  <2>1. Goto(t, "taken", "started") /\ "started" \in RunnerPlaces
    BY DEF EventStart, RunnerPlaces
  <2> QED BY <2>1, RunnerGoto
<1>2. UNCHANGED <<timers_copy, timers_mutex, value, percentile, report,
                  unreported, clock, n_checkpoints, taken>>
  BY DEF EventStart, boundVars
<1>4. timers[t] \in Timer /\ clock \in 0 .. MaxTime
  BY DEF LiveInv, TypeInv
<1>5. PICK r : r = [timers[t] EXCEPT !.state = "RUNNING", !.time_start = clock]
  OBVIOUS
<1>6. r \in Timer
  BY <1>4, <1>5 DEF Timer
<1>7. /\ r.events = timers[t].events /\ r.sum_time = timers[t].sum_time
      /\ r.min_time = timers[t].min_time /\ r.max_time = timers[t].max_time
      /\ r.time_start = clock
  BY <1>4, <1>5 DEF Timer
<1>8. r.time_start <= clock
  BY <1>4, <1>7
<1>9. timers' = [timers EXCEPT ![t] = r]
  BY <1>5 DEF EventStart, sb_timer_start
<1> QED BY <1>1, <1>2, <1>6, <1>7, <1>8, <1>9, TimerSetLive

(* Setting the time in the queue, which no mutex keeps from happening      *)
(* while a printer is between its copy and its reset.                      *)
LEMMA TakeEventLive ==
  ASSUME LiveInv, interrupted = NoThread, NEW t \in Threads, TakeEvent(t)
  PROVE  LiveInv'
<1>1. /\ pc[t] = "idle" /\ pc'[t] = "taken" /\ DOMAIN pc' = Callers
      /\ \A u \in Threads : u # t => pc'[u] = pc[u]
      /\ \A u \in Threads : pc'[u] \in RunnerPlaces
      /\ \A c \in Printers : pc'[c] = pc[c]
  <2>1. Goto(t, "idle", "taken") /\ "taken" \in RunnerPlaces
    BY DEF TakeEvent, RunnerPlaces
  <2> QED BY <2>1, RunnerGoto
<1>2. UNCHANGED <<timers_copy, timers_mutex, value, percentile, report,
                  unreported, clock, n_checkpoints, taken>>
  BY DEF TakeEvent
<1>4. timers[t] \in Timer /\ timers \in [Threads -> Timer]
  BY DEF LiveInv, TypeInv
<1>5. PICK q \in 0 .. QueueMax : timers' = [timers EXCEPT ![t].queue_time = q]
  BY DEF TakeEvent
<1>6. PICK r : r = [timers[t] EXCEPT !.queue_time = q]
  OBVIOUS
<1>7. r \in Timer
  BY <1>4, <1>6 DEF Timer
<1>8. /\ r.events = timers[t].events /\ r.sum_time = timers[t].sum_time
      /\ r.min_time = timers[t].min_time /\ r.max_time = timers[t].max_time
      /\ r.time_start = timers[t].time_start
  BY <1>4, <1>6 DEF Timer
<1>9. r.time_start <= clock
  BY <1>8 DEF LiveInv, StartInv
<1>10. timers' = [timers EXCEPT ![t] = r]
  BY <1>4, <1>5, <1>6
<1> QED BY <1>1, <1>2, <1>7, <1>8, <1>9, <1>10, TimerSetLive

(* A timer that is stopped counts one event more, and keeps its average    *)
(* between its bounds.                                                     *)
LEMMA StopFacts ==
  ASSUME NEW r \in Timer, NEW e \in 0 .. Longest, e = sb_timer_update(r),
         r.min_time * r.events <= r.sum_time,
         r.sum_time <= r.max_time * r.events
  PROVE  LET s == sb_timer_stop(r)
         IN /\ s \in Timer
            /\ s.events = r.events + 1 /\ s.sum_time = r.sum_time + e
            /\ s.time_start = r.time_start
            /\ s.min_time * s.events <= s.sum_time
            /\ s.sum_time <= s.max_time * s.events
<1>1. PICK s : s = sb_timer_stop(r)
  OBVIOUS
<1>2. Longest \in Nat /\ Infinity = Longest + 1
  BY OperLogAssumption DEF Infinity, Longest
<1>3. PICK lo \in 0 .. Infinity : lo = Lesser(e, r.min_time)
  BY <1>2 DEF Timer, Lesser
<1>4. PICK hi \in 0 .. Longest : hi = Greater(e, r.max_time)
  BY <1>2 DEF Timer, Greater
<1>5. s = [r EXCEPT !.state = "STOPPED", !.events = @ + 1, !.sum_time = @ + e,
                    !.min_time = lo, !.max_time = hi]
  BY <1>1, <1>3, <1>4 DEF sb_timer_stop
<1>6. s \in Timer
  <2>1. r.events + 1 \in Nat /\ r.sum_time + e \in Nat
    BY <1>2 DEF Timer
  <2> QED BY <1>3, <1>4, <1>5, <2>1 DEF Timer
<1>7. /\ s.events = r.events + 1 /\ s.sum_time = r.sum_time + e
      /\ s.time_start = r.time_start /\ s.min_time = lo /\ s.max_time = hi
  BY <1>5 DEF Timer
<1>8. PICK n \in Nat : n = r.events
  BY DEF Timer
<1>9. PICK x \in Nat : x = r.sum_time
  BY DEF Timer
<1>10. PICK a \in Nat : a = r.min_time /\ lo <= a /\ lo <= e
  BY <1>2, <1>3 DEF Timer, Lesser
<1>11. PICK b \in Nat : b = r.max_time /\ b <= hi /\ e <= hi
  BY <1>2, <1>4 DEF Timer, Greater
<1>12. lo \in Nat /\ hi \in Nat /\ e \in Nat
  BY <1>2
<1>13. lo * n <= a * n /\ b * n <= hi * n
  BY <1>10, <1>11, <1>12, ProductMonotone
<1>14. a * n <= x /\ x <= b * n
  BY <1>8, <1>9, <1>10, <1>11
<1>15. lo * (n + 1) = lo * n + lo /\ hi * (n + 1) = hi * n + hi
  BY <1>12
<1>16. lo * n \in Nat /\ a * n \in Nat /\ b * n \in Nat /\ hi * n \in Nat
  BY <1>12
<1>17. lo * (n + 1) <= x + e /\ x + e <= hi * (n + 1)
  BY <1>10, <1>11, <1>12, <1>13, <1>14, <1>15, <1>16
<1> QED BY <1>1, <1>6, <1>7, <1>8, <1>9, <1>17

(* There is a number of samples. *)
LEMMA SamplesNat ==
  ASSUME LiveInv
  PROVE  Sum(percentile) \in Nat
<1>1. IsFiniteSet(Buckets)
  BY FS_Interval, OperLogAssumption DEF Buckets
<1> QED BY <1>1, SumNat DEF LiveInv, TypeInv

(* Stopping a timer adds an event and a recording runner. *)
LEMMA EventStopLive ==
  ASSUME LiveInv, interrupted = NoThread, NEW t \in Threads, EventStop(t)
  PROVE  LiveInv'
<1>1. /\ pc[t] = "started" /\ pc'[t] = "record" /\ DOMAIN pc' = Callers
      /\ \A u \in Threads : u # t => pc'[u] = pc[u]
      /\ \A u \in Threads : pc'[u] \in RunnerPlaces
      /\ \A c \in Printers : pc'[c] = pc[c]
  <2>1. Goto(t, "started", "record") /\ "record" \in RunnerPlaces
    BY DEF EventStop, RunnerPlaces
  <2> QED BY <2>1, RunnerGoto
<1>2. UNCHANGED <<timers_copy, timers_mutex, percentile, report, clock,
                  n_checkpoints, taken>>
  BY DEF EventStop, boundVars
<1>3. \A c \in Printers : pc[c] \notin {"reset", "calculate", "clear"}
  BY <1>1, NobodyResets DEF EventStop
<1>4. timers \in [Threads -> Timer] /\ timers[t] \in Timer
  BY DEF LiveInv, TypeInv
<1>5. PICK e \in 0 .. Longest : e = sb_timer_update(timers[t])
  BY ElapsedNat
<1>6. e \in Nat
  BY OperLogAssumption DEF Longest
<1>7. PICK s : s = sb_timer_stop(timers[t])
  OBVIOUS
<1>8. /\ s \in Timer
      /\ s.events = timers[t].events + 1 /\ s.sum_time = timers[t].sum_time + e
      /\ s.time_start = timers[t].time_start
      /\ s.min_time * s.events <= s.sum_time
      /\ s.sum_time <= s.max_time * s.events
  <2>1. /\ timers[t].min_time * timers[t].events <= timers[t].sum_time
        /\ timers[t].sum_time <= timers[t].max_time * timers[t].events
    BY DEF LiveInv, MeanInv
  <2> QED BY <1>4, <1>5, <1>7, <2>1, StopFacts
<1>9. PICK us : us = timers' /\ us = [timers EXCEPT ![t] = s]
  BY <1>7 DEF EventStop
<1>10. us \in [Threads -> Timer] /\ us[t] = s
       /\ \A u \in Threads : u # t => us[u] = timers[u]
  BY <1>4, <1>8, <1>9
<1>11. /\ unreported'.events = unreported.events + 1
       /\ unreported'.sum_time = unreported.sum_time + e
       /\ unreported' \in [events : Int, sum_time : Int]
  <2>1. unreported' = [events |-> unreported.events + 1,
                       sum_time |-> unreported.sum_time + e]
    BY <1>5 DEF EventStop
  <2>2. unreported.events \in Int /\ unreported.sum_time \in Int
    BY DEF LiveInv, TypeInv
  <2> QED BY <1>6, <2>1, <2>2
<1>12. Events(timers)' = Events(timers) + 1 /\ Time(timers)' = Time(timers) + e
  <2>1. /\ Events(us) = Events(timers) + us[t].events - timers[t].events
        /\ Time(us) = Time(timers) + us[t].sum_time - timers[t].sum_time
    BY <1>4, <1>10, EventsChange
  <2>2. /\ timers[t].events \in Nat /\ timers[t].sum_time \in Nat
        /\ Events(timers) \in Nat /\ Time(timers) \in Nat
    BY <1>4, EventsNat DEF Timer
  <2>3. Events(us) = Events(timers) + 1 /\ Time(us) = Time(timers) + e
    BY <1>6, <1>8, <1>10, <2>1, <2>2
  <2> QED BY <1>9, <2>3 DEF Events, Time
<1>13. TypeInv'
  <2>1. value' \in [Threads -> Nat]
    BY <1>5, <1>6 DEF EventStop, LiveInv, TypeInv
  <2> QED BY <1>1, <1>2, <1>9, <1>10, <1>11, <2>1 DEF LiveInv, TypeInv
<1>14. StartInv'
  <2>1. \A u \in Threads : us[u].time_start <= clock
    BY <1>8, <1>10 DEF LiveInv, StartInv
  <2> QED BY <1>2, <1>9, <2>1 DEF StartInv
<1>15. MeanInv(timers)'
  <2>1. MeanInv(us)
    BY <1>8, <1>10 DEF LiveInv, MeanInv
  <2> QED BY <1>9, <2>1 DEF MeanInv
<1>16. Events(timers_copy)' = Events(timers_copy) /\ Time(timers_copy)' = Time(timers_copy)
  BY <1>2 DEF Events, Time
<1>17. /\ Events(timers) \in Nat /\ Time(timers) \in Nat
       /\ Events(timers_copy) \in Nat /\ Time(timers_copy) \in Nat
  BY EventsNat DEF LiveInv, TypeInv
<1>18. EventsInv'
  <2>1. pc'["checkpoint"] = pc["checkpoint"]
    BY <1>1 DEF Printers
  <2>2. unreported.events \in Int /\ unreported.sum_time \in Int
    BY DEF LiveInv, TypeInv
  <2>3. ASSUME NEW a \in Nat, NEW b \in Nat, Unreported(Events(timers) + a, Time(timers) + b)
        PROVE  Unreported(Events(timers) + a, Time(timers) + b)'
    <3>1. /\ Events(timers) + a <= unreported.events /\ Time(timers) + b <= unreported.sum_time
          /\ pc["checkpoint"] # "cut" => /\ unreported.events = Events(timers) + a
                                        /\ unreported.sum_time = Time(timers) + b
      BY <2>3 DEF Unreported
    <3>2. /\ Events(timers)' + a <= unreported'.events /\ Time(timers)' + b <= unreported'.sum_time
          /\ pc'["checkpoint"] # "cut" => /\ unreported'.events = Events(timers)' + a
                                         /\ unreported'.sum_time = Time(timers)' + b
      BY <1>6, <1>11, <1>12, <1>17, <2>1, <2>2, <3>1
    <3> QED BY <3>2 DEF Unreported
  <2>4. Unreported(Events(timers) + (IF \E c \in Printers : pc[c] \in Printing \ {"reset"}
                                     THEN Events(timers_copy) ELSE 0),
                   Time(timers) + (IF \E c \in Printers : pc[c] \in Printing \ {"reset"}
                                   THEN Time(timers_copy) ELSE 0))
    BY DEF LiveInv, EventsInv
  <2>5. PICK a \in Nat : a = IF \E c \in Printers : pc[c] \in Printing \ {"reset"}
                             THEN Events(timers_copy) ELSE 0
    BY <1>17
  <2>6. PICK b \in Nat : b = IF \E c \in Printers : pc[c] \in Printing \ {"reset"}
                             THEN Time(timers_copy) ELSE 0
    BY <1>17
  <2>7. Unreported(Events(timers) + a, Time(timers) + b)'
    BY <2>3, <2>4, <2>5, <2>6
  <2>8. a = IF \E c \in Printers : pc'[c] \in Printing \ {"reset"} THEN Events(timers_copy)' ELSE 0
    BY <1>1, <1>16, <2>5
  <2>9. b = IF \E c \in Printers : pc'[c] \in Printing \ {"reset"} THEN Time(timers_copy)' ELSE 0
    BY <1>1, <1>16, <2>6
  <2>10. \A c \in Printers : pc'[c] # "reset"
    BY <1>1, <1>3
  <2> QED BY <2>7, <2>8, <2>9, <2>10 DEF EventsInv
<1>19. SamplesInv'
  <2>1. Recording' = Recording + 1 /\ Recording \in Nat
    BY <1>1, RecordingMoves, RecordingNat
  <2>2. Sum(percentile)' = Sum(percentile) /\ Runners' = Runners
    BY <1>2 DEF Sum, Runners
  <2>3. Sum(percentile) + Recording - Events(timers) \in 0 .. Runners
    BY <1>3 DEF LiveInv, SamplesInv
  <2>4. Sum(percentile) \in Nat
    BY SamplesNat
  <2>5. Sum(percentile)' + Recording' - Events(timers)' \in 0 .. Runners'
    BY <1>12, <1>17, <2>1, <2>2, <2>3, <2>4
  <2> QED BY <1>1, <1>3, <2>5 DEF SamplesInv
<1>20. PrinterInv' /\ MutexInv' /\ MeanInv(timers_copy)' /\ CalculatedInv' /\ ReportSound'
  BY <1>1, <1>2, PrintersStay
<1> QED BY <1>13, <1>14, <1>15, <1>18, <1>19, <1>20 DEF LiveInv

(* Recording an event moves it from the runner to the percentile. *)
LEMMA EventRecordLive ==
  ASSUME LiveInv, interrupted = NoThread, NEW t \in Threads, EventRecord(t)
  PROVE  LiveInv'
<1>1. /\ pc[t] = "record" /\ pc'[t] = "idle" /\ DOMAIN pc' = Callers
      /\ \A u \in Threads : u # t => pc'[u] = pc[u]
      /\ \A u \in Threads : pc'[u] \in RunnerPlaces
      /\ \A c \in Printers : pc'[c] = pc[c]
  <2>1. Goto(t, "record", "idle") /\ "idle" \in RunnerPlaces
    BY DEF EventRecord, RunnerPlaces
  <2> QED BY <2>1, RunnerGoto
<1>2. UNCHANGED <<timers, timers_copy, timers_mutex, report, unreported, clock,
                  n_checkpoints, taken>>
  BY DEF EventRecord, boundVars
<1>3. percentile \in [Buckets -> Nat] /\ value[t] \in Nat
  BY DEF LiveInv, TypeInv
<1>4. PICK b \in Buckets : b = Bucket(value[t])
  BY <1>3, OperLogAssumption DEF Bucket, Lesser, Buckets
<1>5. PICK p \in [Buckets -> Nat] : p = percentile' /\ p = [percentile EXCEPT ![b] = @ + 1]
  <2>1. percentile' = [percentile EXCEPT ![b] = @ + 1]
    BY <1>4, Zenon DEF EventRecord, sb_percentile_update
  <2>2. percentile' \in [Buckets -> Nat]
    BY <1>3, <2>1
  <2> QED BY <2>1, <2>2
<1>6. Sum(percentile)' = Sum(percentile) + 1
  <2>1. IsFiniteSet(Buckets)
    BY FS_Interval, OperLogAssumption DEF Buckets
  <2>2. \A u \in Buckets : u # b => p[u] = percentile[u]
    BY <1>3, <1>5
  <2>3. Sum(p) = Sum(percentile) + p[b] - percentile[b]
    BY <1>3, <2>1, <2>2, SumChange
  <2>4. percentile[b] \in Nat /\ p[b] = percentile[b] + 1 /\ Sum(percentile) \in Nat
    BY <1>3, <1>5, SamplesNat
  <2>5. Sum(p) = Sum(percentile) + 1
    BY <2>3, <2>4
  <2> QED BY <1>5, <2>5 DEF Sum
<1>7. TypeInv'
  <2>1. value' \in [Threads -> Nat]
    BY DEF EventRecord, LiveInv, TypeInv
  <2> QED BY <1>1, <1>2, <1>5, <2>1 DEF LiveInv, TypeInv
<1>8. StartInv' /\ MeanInv(timers)'
  BY <1>2 DEF LiveInv, StartInv, MeanInv
<1>9. /\ Events(timers)' = Events(timers) /\ Time(timers)' = Time(timers)
      /\ Events(timers_copy)' = Events(timers_copy)
      /\ Time(timers_copy)' = Time(timers_copy) /\ Runners' = Runners
  BY <1>2 DEF Events, Time, Runners
<1>10. EventsInv'
  <2>1. pc'["checkpoint"] = pc["checkpoint"]
    BY <1>1 DEF Printers
  <2> QED BY <1>1, <1>2, <1>9, <2>1 DEF LiveInv, EventsInv, Unreported, SameEvents
<1>11. SamplesInv'
  <2>1. Recording' = Recording - 1 /\ Recording \in Nat
    BY <1>1, RecordingMoves, RecordingNat
  <2>3. Events(timers) \in Nat /\ Events(timers_copy) \in Nat
    BY EventsNat DEF LiveInv, TypeInv
  <2>4. /\ Sum(percentile)' + Recording' - Events(timers)'
             = Sum(percentile) + Recording - Events(timers)
        /\ Sum(percentile)' + Recording' - Events(timers_copy)'
             = Sum(percentile) + Recording - Events(timers_copy)
    BY <1>6, <1>9, <2>1, <2>3, SamplesNat
  <2> QED BY <1>1, <1>9, <2>4 DEF LiveInv, SamplesInv
<1>12. PrinterInv' /\ MutexInv' /\ MeanInv(timers_copy)' /\ CalculatedInv' /\ ReportSound'
  BY <1>1, <1>2, PrintersStay
<1> QED BY <1>7, <1>8, <1>10, <1>11, <1>12 DEF LiveInv

(* A step that moves runners, none of them from or to the percentile, or   *)
(* only the clock.                                                         *)
LEMMA QuietLive ==
  ASSUME LiveInv, interrupted = NoThread, UNCHANGED <<timeVars, n_checkpoints>>,
         clock' \in 0 .. MaxTime, clock <= clock', taken' \in Nat,
         DOMAIN pc' = Callers,
         \A c \in Printers : pc'[c] = pc[c],
         \A t \in Threads : pc'[t] = pc[t] \/ (pc[t] # "record" /\ pc'[t] = "done")
  PROVE  LiveInv'
<1>1. UNCHANGED <<timers, timers_copy, timers_mutex, value, percentile, report,
                  unreported, n_checkpoints>>
  BY DEF timeVars
<1>2. \A t \in Threads : pc'[t] \in RunnerPlaces /\ (pc[t] = "done" => pc'[t] = "done")
  BY DEF LiveInv, TypeInv, RunnerPlaces
<1>3. TypeInv'
  BY <1>1, <1>2 DEF LiveInv, TypeInv
<1>4. StartInv'
  BY <1>1, OperLogAssumption DEF LiveInv, StartInv, TypeInv, Timer
<1>5. MeanInv(timers)'
  BY <1>1 DEF LiveInv, MeanInv
<1>6. /\ Events(timers)' = Events(timers) /\ Time(timers)' = Time(timers)
      /\ Events(timers_copy)' = Events(timers_copy)
      /\ Time(timers_copy)' = Time(timers_copy) /\ Runners' = Runners
      /\ Sum(percentile)' = Sum(percentile)
  BY <1>1 DEF Events, Time, Runners, Sum
<1>7. EventsInv'
  <2>1. pc'["checkpoint"] = pc["checkpoint"]
    BY DEF Printers
  <2> QED BY <1>1, <1>6, <2>1 DEF LiveInv, EventsInv, Unreported, SameEvents
<1>8. SamplesInv'
  <2>1. At(Threads, pc', {"record"}) = At(Threads, pc, {"record"})
    BY DEF At
  <2>2. Recording' = Recording
    BY <2>1 DEF Recording
  <2> QED BY <1>6, <2>2 DEF LiveInv, SamplesInv
<1>9. PrinterInv' /\ MutexInv' /\ MeanInv(timers_copy)' /\ CalculatedInv' /\ ReportSound'
  BY <1>1, <1>2, PrintersStay
<1> QED BY <1>3, <1>4, <1>5, <1>7, <1>8, <1>9 DEF LiveInv

LEMMA RunnerEndsLive ==
  ASSUME LiveInv, interrupted = NoThread, NEW t \in Threads, RunnerEnds(t)
  PROVE  LiveInv'
<1>1. /\ pc[t] # "record" /\ pc'[t] = "done" /\ DOMAIN pc' = Callers
      /\ \A u \in Threads : u # t => pc'[u] = pc[u]
      /\ \A c \in Printers : pc'[c] = pc[c]
  <2>1. Goto(t, "idle", "done") \/ Goto(t, "taken", "done")
    BY DEF RunnerEnds
  <2>2. "done" \in RunnerPlaces
    BY DEF RunnerPlaces
  <2>3. CASE Goto(t, "idle", "done")
    BY <2>2, <2>3, RunnerGoto
  <2>4. CASE Goto(t, "taken", "done")
    BY <2>2, <2>4, RunnerGoto
  <2> QED BY <2>1, <2>3, <2>4
<1>2. UNCHANGED <<timeVars, n_checkpoints>> /\ UNCHANGED <<clock, taken>>
  BY DEF RunnerEnds, boundVars
<1>3. clock' \in 0 .. MaxTime /\ clock <= clock' /\ taken' \in Nat
  BY <1>2 DEF LiveInv, TypeInv
<1>4. \A u \in Threads : pc'[u] = pc[u] \/ (pc[u] # "record" /\ pc'[u] = "done")
  BY <1>1
<1> QED BY <1>1, <1>2, <1>3, <1>4, QuietLive, Zenon

LEMMA TickLive ==
  ASSUME LiveInv, interrupted = NoThread, Tick
  PROVE  LiveInv'
<1>1. UNCHANGED <<timeVars, n_checkpoints>> /\ UNCHANGED <<pc, taken>>
  BY DEF Tick
<1>2. clock' \in 0 .. MaxTime /\ clock <= clock' /\ taken' \in Nat
  BY <1>1, OperLogAssumption DEF Tick, LiveInv, TypeInv
<1>3. /\ DOMAIN pc' = Callers
      /\ \A c \in Printers : pc'[c] = pc[c]
      /\ \A t \in Threads : pc'[t] = pc[t] \/ (pc[t] # "record" /\ pc'[t] = "done")
  BY <1>1 DEF LiveInv, TypeInv
<1> QED BY <1>1, <1>2, <1>3, QuietLive, Zenon
-----------------------------------------------------------------------------
(* Steps of the printers *)

Active == {"copy", "reset", "calculate", "clear", "print", "printed"}

(* Only one prints. *)
LEMMA Alone ==
  ASSUME LiveInv, NEW c \in Printers, pc[c] \in Active
  PROVE  /\ c \in {"checkpoint", "master"}
         /\ c = "checkpoint" => pc["master"] \in {"wait", "join"} /\ n_checkpoints > 0
         /\ c = "master" => /\ pc["checkpoint"] \in {"done", "cut"}
                            /\ \A t \in Threads : pc[t] = "done"
         /\ \A d \in Printers : d # c => pc[d] \in {"wait", "join", "done", "cut"}
BY DEF LiveInv, PrinterInv, Printers, Active

(* A printer's step leaves everybody else where he is. *)
LEMMA PrinterGoto ==
  ASSUME LiveInv, NEW c \in Printers, NEW from \in Active,
         NEW to \in PrinterPlaces \ {"text", "cut"}, Goto(c, from, to),
         c = "checkpoint" \/ to # "wait",
         UNCHANGED n_checkpoints
  PROVE  /\ pc[c] = from /\ pc'[c] = to /\ DOMAIN pc' = Callers
         /\ \A u \in Threads : pc'[u] = pc[u]
         /\ \A d \in Printers : d # c => pc'[d] = pc[d] /\ pc[d] \in {"wait", "join", "done", "cut"}
         /\ \A d \in Printers : pc'[d] \in PrinterPlaces
         /\ PrinterInv' /\ (pc'["checkpoint"] = "cut" <=> pc["checkpoint"] = "cut")
<1>1. c \in DOMAIN pc /\ c \notin Threads /\ DOMAIN pc = Callers
  BY OperLogAssumption DEF LiveInv, TypeInv, Callers
<1>2. pc[c] = from /\ pc' = [pc EXCEPT ![c] = to]
  BY DEF Goto
<1>3. DOMAIN pc' = Callers /\ pc'[c] = to /\ \A u : u # c /\ u \in Callers => pc'[u] = pc[u]
  BY <1>1, <1>2
<1>4. \A u \in Threads : pc'[u] = pc[u]
  BY <1>1, <1>3 DEF Callers
<1>5. \A d \in Printers : d # c => pc'[d] = pc[d] /\ pc[d] \in {"wait", "join", "done", "cut"}
  BY <1>2, <1>3, Alone DEF Callers
<1>6. \A d \in Printers : pc'[d] \in PrinterPlaces
  BY <1>3, <1>5 DEF LiveInv, TypeInv
<1>7. PrinterInv'
  <2>1. /\ c \in {"checkpoint", "master"}
        /\ c = "checkpoint" => pc["master"] \in {"wait", "join"} /\ n_checkpoints > 0
        /\ c = "master" => /\ pc["checkpoint"] \in {"done", "cut"}
                           /\ \A t \in Threads : pc[t] = "done"
    BY <1>2, Alone
  <2>2. pc["handler"] = "wait"
    BY DEF LiveInv, PrinterInv
  <2>3. CASE c = "checkpoint"
    <3>1. /\ pc'["master"] = pc["master"] /\ pc["master"] \in {"wait", "join"}
          /\ pc'["handler"] = "wait"
      BY <1>5, <2>1, <2>2, <2>3 DEF Printers
    <3>2. pc["master"] # "wait" => \A t \in Threads : pc'[t] = "done"
      BY <1>4 DEF LiveInv, PrinterInv
    <3> QED BY <2>1, <2>3, <3>1, <3>2 DEF PrinterInv
  <2>4. CASE c = "master"
    <3>1. pc'["checkpoint"] \in {"done", "cut"} /\ pc'["handler"] = "wait"
      BY <1>5, <2>1, <2>2, <2>4 DEF Printers
    <3>2. \A t \in Threads : pc'[t] = "done"
      BY <1>4, <2>1, <2>4
    <3>3. pc'["checkpoint"] # "done" => n_checkpoints > 0
      BY <1>5, <2>4 DEF LiveInv, PrinterInv, Printers
    <3> QED BY <3>1, <3>2, <3>3 DEF PrinterInv
  <2> QED BY <2>1, <2>3, <2>4
<1>8. pc'["checkpoint"] = "cut" <=> pc["checkpoint"] = "cut"
  BY <1>2, <1>3, <1>5 DEF Active, Printers
<1> QED BY <1>2, <1>3, <1>4, <1>5, <1>6, <1>7, <1>8

LEMMA CopyTimersLive ==
  ASSUME LiveInv, interrupted = NoThread, NEW c \in Printers, CopyTimers(c)
  PROVE  LiveInv'
<1>1. UNCHANGED <<timers, value, percentile, report, unreported, clock,
                  n_checkpoints, taken>>
  BY DEF CopyTimers, boundVars
<1>2. /\ pc[c] = "copy" /\ pc'[c] = "reset" /\ DOMAIN pc' = Callers
      /\ \A u \in Threads : pc'[u] = pc[u]
      /\ \A d \in Printers : d # c => pc'[d] = pc[d] /\ pc[d] \in {"wait", "join", "done", "cut"}
      /\ \A d \in Printers : pc'[d] \in PrinterPlaces
      /\ PrinterInv' /\ (pc'["checkpoint"] = "cut" <=> pc["checkpoint"] = "cut")
  <2>1. /\ Goto(c, "copy", "reset") /\ "copy" \in Active
        /\ "reset" \in PrinterPlaces \ {"text", "cut"} /\ "reset" # "wait"
    BY DEF CopyTimers, Active, PrinterPlaces
  <2> QED BY <1>1, <2>1, PrinterGoto
<1>3. timers_copy' = timers
  BY DEF CopyTimers
<1>4. TypeInv'
  BY <1>1, <1>2, <1>3 DEF LiveInv, TypeInv
<1>5. StartInv' /\ MeanInv(timers)' /\ MeanInv(timers_copy)'
  BY <1>1, <1>3 DEF LiveInv, StartInv, MeanInv
<1>6. MutexInv'
  <2>1. n_checkpoints > 0 => timers_mutex' = c
    BY DEF CopyTimers
  <2> QED BY <1>1, <1>2, <2>1 DEF MutexInv
<1>7. /\ \A d \in Printers : pc'[d] \notin {"calculate", "clear", "print", "printed"}
      /\ \A d \in Printers : pc[d] \notin {"reset", "calculate", "clear", "print", "printed"}
  BY <1>2
<1>8. Events(timers)' = Events(timers) /\ Time(timers)' = Time(timers)
  BY <1>1 DEF Events, Time
<1>9. EventsInv'
  BY <1>1, <1>2, <1>3, <1>7, <1>8 DEF LiveInv, EventsInv, Unreported, SameEvents, Printing
<1>10. SamplesInv'
  <2>1. Recording' = Recording /\ Runners' = Runners /\ Sum(percentile)' = Sum(percentile)
    BY <1>1, <1>2 DEF Recording, At, Runners, Sum
  <2> QED BY <1>7, <1>8, <2>1 DEF LiveInv, SamplesInv
<1>11. CalculatedInv' /\ ReportSound'
  BY <1>7 DEF CalculatedInv, ReportSound
<1> QED BY <1>2, <1>4, <1>5, <1>6, <1>9, <1>10, <1>11 DEF LiveInv

LEMMA ResetTimersLive ==
  ASSUME LiveInv, interrupted = NoThread, NEW c \in Printers, ResetTimers(c)
  PROVE  LiveInv'
<1>1. UNCHANGED <<timers_copy, timers_mutex, value, percentile, report,
                  unreported, clock, n_checkpoints, taken>>
  BY DEF ResetTimers, boundVars
<1>2. /\ pc[c] = "reset" /\ pc'[c] = "calculate" /\ DOMAIN pc' = Callers
      /\ \A u \in Threads : pc'[u] = pc[u]
      /\ \A d \in Printers : d # c => pc'[d] = pc[d] /\ pc[d] \in {"wait", "join", "done", "cut"}
      /\ \A d \in Printers : pc'[d] \in PrinterPlaces
      /\ PrinterInv' /\ (pc'["checkpoint"] = "cut" <=> pc["checkpoint"] = "cut")
  <2>1. /\ Goto(c, "reset", "calculate") /\ "reset" \in Active
        /\ "calculate" \in PrinterPlaces \ {"text", "cut"} /\ "calculate" # "wait"
    BY DEF ResetTimers, Active, PrinterPlaces
  <2> QED BY <1>1, <2>1, PrinterGoto
<1>3. timers \in [Threads -> Timer] /\ SameEvents(timers_copy, timers)
  BY <1>2 DEF LiveInv, TypeInv, EventsInv
<1>4. PICK us : us = timers' /\ us = [t \in Threads |-> sb_timer_reset(timers[t])]
  BY DEF ResetTimers
<1>5. Infinity \in Nat /\ Longest \in Nat /\ QueueMax \in Nat
  BY OperLogAssumption DEF Infinity, Longest
<1>6. ASSUME NEW t \in Threads
      PROVE  /\ us[t] \in Timer /\ us[t].events = 0 /\ us[t].sum_time = 0
             /\ us[t].min_time = Infinity /\ us[t].max_time = 0
             /\ us[t].time_start = timers[t].time_start
  <2>1. us[t] = [timers[t] EXCEPT !.min_time = Infinity, !.max_time = 0,
                                  !.sum_time = 0, !.events = 0, !.queue_time = 0]
    BY <1>4 DEF sb_timer_reset
  <2>2. timers[t] \in Timer
    BY <1>3
  <2>3. /\ us[t].events = 0 /\ us[t].sum_time = 0
        /\ us[t].min_time = Infinity /\ us[t].max_time = 0
        /\ us[t].time_start = timers[t].time_start
    BY <2>1, <2>2 DEF Timer
  <2>4. us[t] \in Timer
    <3>1. /\ Infinity \in 0 .. Infinity /\ 0 \in 0 .. Longest /\ 0 \in Nat
          /\ 0 \in 0 .. QueueMax
      BY <1>5
    <3> QED BY <2>1, <2>2, <3>1, Zenon DEF Timer
  <2> QED BY <2>3, <2>4
<1>7. us \in [Threads -> Timer]
  BY <1>4, <1>6
<1>8. Events(timers)' = 0 /\ Time(timers)' = 0
  <2>1. Events(us) = 0 /\ Time(us) = 0
    BY <1>6, <1>7, EventsZero
  <2> QED BY <1>4, <2>1 DEF Events, Time
<1>9. TypeInv'
  BY <1>1, <1>2, <1>4, <1>7 DEF LiveInv, TypeInv
<1>10. StartInv'
  BY <1>1, <1>4, <1>6 DEF LiveInv, StartInv
<1>11. MeanInv(timers)'
  <2>1. \A t \in Threads : us[t].min_time * us[t].events = 0 /\ us[t].max_time * us[t].events = 0
    BY <1>5, <1>6
  <2>2. MeanInv(us)
    BY <1>6, <2>1 DEF MeanInv
  <2> QED BY <1>4, <2>2 DEF MeanInv
<1>12. MeanInv(timers_copy)'
  BY <1>1 DEF LiveInv, MeanInv
<1>13. MutexInv'
  BY <1>1, <1>2 DEF LiveInv, MutexInv
<1>14. Events(timers_copy)' = Events(timers) /\ Time(timers_copy)' = Time(timers)
  <2>1. Events(timers_copy) = Events(timers) /\ Time(timers_copy) = Time(timers)
    BY <1>3, EventsSame
  <2> QED BY <1>1, <2>1 DEF Events, Time
<1>15. Events(timers) \in Nat /\ Time(timers) \in Nat
  BY <1>3, EventsNat
<1>16. \A d \in Printers : pc[d] \notin Printing \ {"reset"}
  BY <1>2 DEF Printing
<1>17. EventsInv'
  <2>1. Unreported(Events(timers) + 0, Time(timers) + 0)
    BY <1>16 DEF LiveInv, EventsInv
  <2>2. Unreported(Events(timers) + Events(timers_copy), Time(timers) + Time(timers_copy))'
    BY <1>1, <1>2, <1>8, <1>14, <1>15, <2>1 DEF Unreported
  <2>3. \E d \in Printers : pc'[d] \in Printing \ {"reset"}
    BY <1>2 DEF Printing
  <2>4. \A d \in Printers : pc'[d] # "reset"
    BY <1>2
  <2> QED BY <2>2, <2>3, <2>4 DEF EventsInv
<1>18. SamplesInv'
  <2>1. Recording' = Recording /\ Runners' = Runners /\ Sum(percentile)' = Sum(percentile)
    BY <1>1, <1>2 DEF Recording, At, Runners, Sum
  <2>2. Sum(percentile) + Recording - Events(timers) \in 0 .. Runners
    BY <1>16 DEF LiveInv, SamplesInv, Printing
  <2> QED BY <1>2, <1>8, <1>14, <2>1, <2>2 DEF SamplesInv
<1>19. CalculatedInv' /\ ReportSound'
  BY <1>2 DEF CalculatedInv, ReportSound
<1> QED BY <1>2, <1>9, <1>10, <1>11, <1>12, <1>13, <1>17, <1>18, <1>19 DEF LiveInv

(* The samples at the time of the calculation. *)
LEMMA CalculateLive ==
  ASSUME LiveInv, interrupted = NoThread, NEW c \in Printers, Calculate(c)
  PROVE  LiveInv'
<1>1. UNCHANGED <<timers, timers_copy, timers_mutex, value, percentile,
                  unreported, clock, n_checkpoints, taken>>
  BY DEF Calculate, boundVars
<1>2. /\ pc[c] = "calculate" /\ pc'[c] = "clear" /\ DOMAIN pc' = Callers
      /\ \A u \in Threads : pc'[u] = pc[u]
      /\ \A d \in Printers : d # c => pc'[d] = pc[d] /\ pc[d] \in {"wait", "join", "done", "cut"}
      /\ \A d \in Printers : pc'[d] \in PrinterPlaces
      /\ PrinterInv' /\ (pc'["checkpoint"] = "cut" <=> pc["checkpoint"] = "cut")
  <2>1. /\ Goto(c, "calculate", "clear") /\ "calculate" \in Active
        /\ "clear" \in PrinterPlaces \ {"text", "cut"} /\ "clear" # "wait"
    BY DEF Calculate, Active, PrinterPlaces
  <2> QED BY <1>1, <2>1, PrinterGoto
<1>3. /\ Events(timers)' = Events(timers) /\ Time(timers)' = Time(timers)
      /\ Events(timers_copy)' = Events(timers_copy)
      /\ Time(timers_copy)' = Time(timers_copy)
      /\ Recording' = Recording /\ Runners' = Runners
      /\ Sum(percentile)' = Sum(percentile)
  BY <1>1, <1>2 DEF Events, Time, Recording, At, Runners, Sum
<1>4. PICK q \in Nat : q = sb_percentile_calculate(percentile) /\ q <= RangeMax
  BY PercentileOnScale DEF LiveInv, TypeInv
<1>5. PICK n \in Nat : n = Sum(percentile)
  BY SamplesNat
<1>6. report' \in Report /\ report'.percentile = q /\ report'.samples = n
  <2>1. report' = [report EXCEPT !.percentile = q, !.samples = n]
    BY <1>4, <1>5 DEF Calculate
  <2>2. report \in Report
    BY DEF LiveInv, TypeInv
  <2>3. report'.percentile = q /\ report'.samples = n
    BY <2>1, <2>2 DEF Report
  <2>4. q \in Int /\ n \in Int
    OBVIOUS
  <2>5. report' \in Report
    BY <2>1, <2>2, <2>4, Zenon DEF Report
  <2> QED BY <2>3, <2>5
<1>7. TypeInv'
  BY <1>1, <1>2, <1>6 DEF LiveInv, TypeInv
<1>8. StartInv' /\ MeanInv(timers)' /\ MeanInv(timers_copy)'
  BY <1>1 DEF LiveInv, StartInv, MeanInv
<1>9. MutexInv'
  BY <1>1, <1>2 DEF LiveInv, MutexInv
<1>10. /\ \E d \in Printers : pc[d] \in {"calculate", "clear"}
       /\ \E d \in Printers : pc'[d] \in {"calculate", "clear"}
  BY <1>2
<1>11. EventsInv'
  <2>1. /\ \E d \in Printers : pc[d] \in Printing \ {"reset"}
        /\ \E d \in Printers : pc'[d] \in Printing \ {"reset"}
        /\ \A d \in Printers : pc'[d] # "reset"
    BY <1>2 DEF Printing
  <2> QED BY <1>1, <1>2, <1>3, <2>1 DEF LiveInv, EventsInv, Unreported
<1>12. SamplesInv'
  BY <1>3, <1>10 DEF LiveInv, SamplesInv
<1>13. CalculatedInv'
  <2>1. n + Recording - Events(timers_copy) \in 0 .. Runners
    BY <1>5, <1>10 DEF LiveInv, SamplesInv
  <2>2. Recording \in Nat /\ Runners \in Nat /\ Recording <= Runners
    BY RecordingNat
  <2>3. Events(timers_copy) \in Nat
    BY EventsNat DEF LiveInv, TypeInv
  <2>4. n - Events(timers_copy) \in -Runners .. Runners
    BY <2>1, <2>2, <2>3
  <2> QED BY <1>2, <1>3, <1>4, <1>6, <2>4 DEF CalculatedInv
<1>14. ReportSound'
  BY <1>2 DEF ReportSound
<1> QED BY <1>2, <1>7, <1>8, <1>9, <1>11, <1>12, <1>13, <1>14 DEF LiveInv

LEMMA ClearPercentileLive ==
  ASSUME LiveInv, interrupted = NoThread, NEW c \in Printers, ClearPercentile(c)
  PROVE  LiveInv'
<1>1. UNCHANGED <<timers, timers_copy, value, report, unreported, clock,
                  n_checkpoints, taken>>
  BY DEF ClearPercentile, boundVars
<1>2. /\ pc[c] = "clear" /\ pc'[c] = "print" /\ DOMAIN pc' = Callers
      /\ \A u \in Threads : pc'[u] = pc[u]
      /\ \A d \in Printers : d # c => pc'[d] = pc[d] /\ pc[d] \in {"wait", "join", "done", "cut"}
      /\ \A d \in Printers : pc'[d] \in PrinterPlaces
      /\ PrinterInv' /\ (pc'["checkpoint"] = "cut" <=> pc["checkpoint"] = "cut")
  <2>1. /\ Goto(c, "clear", "print") /\ "clear" \in Active
        /\ "print" \in PrinterPlaces \ {"text", "cut"} /\ "print" # "wait"
    BY DEF ClearPercentile, Active, PrinterPlaces
  <2> QED BY <1>1, <2>1, PrinterGoto
<1>3. /\ Events(timers)' = Events(timers) /\ Time(timers)' = Time(timers)
      /\ Events(timers_copy)' = Events(timers_copy)
      /\ Time(timers_copy)' = Time(timers_copy)
      /\ Recording' = Recording /\ Runners' = Runners
  BY <1>1, <1>2 DEF Events, Time, Recording, At, Runners
<1>4. PICK p \in [Buckets -> Nat] : p = percentile' /\ \A b \in Buckets : p[b] = 0
  <2>1. percentile' = [b \in Buckets |-> 0]
    BY DEF ClearPercentile, sb_percentile_reset
  <2> QED BY <2>1
<1>5. Sum(percentile)' = 0
  <2>1. Sum(p) = 0
    BY <1>4, SumZero
  <2> QED BY <1>4, <2>1 DEF Sum
<1>6. TypeInv'
  BY <1>1, <1>2, <1>4 DEF LiveInv, TypeInv
<1>7. StartInv' /\ MeanInv(timers)' /\ MeanInv(timers_copy)'
  BY <1>1 DEF LiveInv, StartInv, MeanInv
<1>8. MutexInv'
  BY <1>2 DEF MutexInv
<1>9. EventsInv'
  <2>1. /\ \E d \in Printers : pc[d] \in Printing \ {"reset"}
        /\ \E d \in Printers : pc'[d] \in Printing \ {"reset"}
        /\ \A d \in Printers : pc'[d] # "reset"
    BY <1>2 DEF Printing
  <2> QED BY <1>1, <1>2, <1>3, <2>1 DEF LiveInv, EventsInv, Unreported
<1>10. SamplesInv'
  <2>1. Events(timers) = 0
    BY <1>2 DEF LiveInv, SamplesInv
  <2>2. Recording \in Nat /\ Runners \in Nat /\ Recording <= Runners
    BY RecordingNat
  <2>3. Sum(percentile)' + Recording' - Events(timers)' \in 0 .. Runners'
    BY <1>3, <1>5, <2>1, <2>2
  <2>4. \A d \in Printers : pc'[d] \notin {"calculate", "clear"}
    BY <1>2
  <2> QED BY <2>3, <2>4 DEF SamplesInv
<1>11. CalculatedInv'
  BY <1>1, <1>2, <1>3 DEF LiveInv, CalculatedInv
<1>12. ReportSound'
  BY <1>2 DEF ReportSound
<1> QED BY <1>2, <1>6, <1>7, <1>8, <1>9, <1>10, <1>11, <1>12 DEF LiveInv

(* Nobody is interrupted, so no event counts as done that is not. *)
LEMMA PrintStatsLive ==
  ASSUME LiveInv, interrupted = NoThread, NEW c \in Printers, PrintStats(c)
  PROVE  LiveInv'
<1>1. UNCHANGED <<timers, timers_mutex, value, percentile, clock,
                  n_checkpoints, taken>>
  BY DEF PrintStats, boundVars
<1>2. /\ pc[c] = "print" /\ pc'[c] = "printed" /\ DOMAIN pc' = Callers
      /\ \A u \in Threads : pc'[u] = pc[u]
      /\ \A d \in Printers : d # c => pc'[d] = pc[d] /\ pc[d] \in {"wait", "join", "done", "cut"}
      /\ \A d \in Printers : pc'[d] \in PrinterPlaces
      /\ PrinterInv' /\ (pc'["checkpoint"] = "cut" <=> pc["checkpoint"] = "cut")
  <2>1. /\ Goto(c, "print", "printed") /\ "print" \in Active
        /\ "printed" \in PrinterPlaces \ {"text", "cut"} /\ "printed" # "wait"
    BY DEF PrintStats, Active, PrinterPlaces
  <2> QED BY <1>1, <2>1, PrinterGoto
<1>3. timers_copy \in [Threads -> Timer] /\ MeanInv(timers_copy) /\ report \in Report
  BY DEF LiveInv, TypeInv
<1>4. PICK total : total = merge_timers(timers_copy)
  OBVIOUS
<1>5. /\ timers_copy' = timers_copy
      /\ report' = [report EXCEPT
                      !.events = total.events, !.sum_time = total.sum_time,
                      !.min_time = total.min_time, !.max_time = total.max_time]
      /\ unreported' = [events |-> unreported.events - total.events,
                        sum_time |-> unreported.sum_time - total.sum_time]
  <2>1. [t \in Threads |-> IF t \in {} THEN sb_timer_stop(timers_copy[t])
                           ELSE timers_copy[t]] = timers_copy
    BY <1>3
  <2> QED BY <1>4, <2>1 DEF PrintStats
<1>6. PICK E \in Nat : E = Events(timers_copy)
  BY <1>3, EventsNat
<1>7. PICK S \in Nat : S = Time(timers_copy)
  BY <1>3, EventsNat
<1>8. /\ total.events = E /\ total.sum_time = S
      /\ total.min_time \in Nat /\ total.max_time \in Nat
      /\ total.min_time * total.events <= total.sum_time
      /\ total.sum_time <= total.max_time * total.events
  BY <1>3, <1>4, <1>6, <1>7, MergedMean
<1>9. /\ report'.events = total.events /\ report'.sum_time = total.sum_time
      /\ report'.min_time = total.min_time /\ report'.max_time = total.max_time
      /\ report'.percentile = report.percentile /\ report'.samples = report.samples
  BY <1>3, <1>5 DEF Report
<1>10. report' \in Report
  <2>1. /\ total.events \in Int /\ total.sum_time \in Int
        /\ total.min_time \in Int /\ total.max_time \in Int
    BY <1>8
  <2> QED BY <1>3, <1>5, <2>1, Zenon DEF Report
<1>11. /\ unreported'.events = unreported.events - E
       /\ unreported'.sum_time = unreported.sum_time - S
       /\ unreported' \in [events : Int, sum_time : Int]
  <2>1. unreported.events \in Int /\ unreported.sum_time \in Int
    BY DEF LiveInv, TypeInv
  <2> QED BY <1>5, <1>8, <2>1
<1>12. TypeInv'
  BY <1>1, <1>2, <1>5, <1>10, <1>11 DEF LiveInv, TypeInv
<1>13. StartInv' /\ MeanInv(timers)' /\ MeanInv(timers_copy)'
  BY <1>1, <1>5 DEF LiveInv, StartInv, MeanInv
<1>14. MutexInv'
  BY <1>2 DEF MutexInv
<1>15. Events(timers)' = Events(timers) /\ Time(timers)' = Time(timers)
  BY <1>1 DEF Events, Time
<1>16. Events(timers) \in Nat /\ Time(timers) \in Nat
  BY EventsNat DEF LiveInv, TypeInv
<1>17. EventsInv'
  <2>1. \E d \in Printers : pc[d] \in Printing \ {"reset"}
    BY <1>2 DEF Printing
  <2>2. /\ \A d \in Printers : pc'[d] \notin Printing \ {"reset"}
        /\ \A d \in Printers : pc'[d] # "reset"
    BY <1>2 DEF Printing
  <2>3. Unreported(Events(timers) + E, Time(timers) + S)
    BY <1>6, <1>7, <2>1 DEF LiveInv, EventsInv
  <2>5. unreported.events \in Int /\ unreported.sum_time \in Int
    BY DEF LiveInv, TypeInv
  <2>4. Unreported(Events(timers) + 0, Time(timers) + 0)'
    BY <1>2, <1>11, <1>15, <1>16, <2>3, <2>5 DEF Unreported
  <2> QED BY <2>2, <2>4 DEF EventsInv
<1>18. SamplesInv'
  <2>1. Recording' = Recording /\ Runners' = Runners /\ Sum(percentile)' = Sum(percentile)
    BY <1>1, <1>2 DEF Recording, At, Runners, Sum
  <2>2. /\ \A d \in Printers : pc[d] \notin {"calculate", "clear"}
        /\ \A d \in Printers : pc'[d] \notin {"calculate", "clear"}
    BY <1>2
  <2> QED BY <1>15, <2>1, <2>2 DEF LiveInv, SamplesInv
<1>19. CalculatedInv'
  BY <1>2 DEF CalculatedInv
<1>20. ReportSound'
  <2>1. /\ report.percentile <= RangeMax
        /\ report.samples - E \in -Runners .. Runners
    BY <1>2, <1>6 DEF LiveInv, CalculatedInv
  <2>2. report.samples \in Int /\ Runners \in Nat
    BY <1>3, RecordingNat DEF Report
  <2>3. report.samples \in E - Runners .. E + Runners
    BY <2>1, <2>2
  <2> QED BY <1>8, <1>9, <2>1, <2>3 DEF ReportSound, Runners
<1> QED BY <1>2, <1>12, <1>13, <1>14, <1>17, <1>18, <1>19, <1>20 DEF LiveInv

(* A step that begins or ends a report, or cuts the report of the          *)
(* checkpoint thread, whose copy is lost: there is no copy afterwards.     *)
LEMMA NoCopyLive ==
  ASSUME LiveInv, UNCHANGED <<timers, timers_copy, timers_mutex, value,
                              percentile, unreported, clock, n_checkpoints>>,
         taken' \in Nat, report' \in Report, DOMAIN pc' = Callers,
         \A t \in Threads : pc'[t] = pc[t],
         \A d \in Printers : pc'[d] \in PrinterPlaces,
         \A d \in Printers : pc[d] \notin Printing \ {"print"},
         \A d \in Printers : pc[d] = "print" => pc'["checkpoint"] = "cut",
         pc["checkpoint"] = "cut" => pc'["checkpoint"] = "cut",
         \A d \in Printers : pc'[d] \notin Printing \cup {"printed"},
         PrinterInv'
  PROVE  LiveInv'
<1>1. TypeInv'
  BY DEF LiveInv, TypeInv
<1>2. StartInv' /\ MeanInv(timers)' /\ MeanInv(timers_copy)'
  BY DEF LiveInv, StartInv, MeanInv
<1>3. MutexInv' /\ CalculatedInv' /\ ReportSound'
  BY DEF MutexInv, CalculatedInv, ReportSound, Printing
<1>4. /\ Events(timers)' = Events(timers) /\ Time(timers)' = Time(timers)
      /\ Recording' = Recording /\ Runners' = Runners
      /\ Sum(percentile)' = Sum(percentile)
  BY DEF Events, Time, Recording, At, Runners, Sum
<1>5. EventsInv'
  <2>1. \A d \in Printers : pc'[d] # "reset" /\ pc'[d] \notin Printing
    BY DEF Printing
  <2>2. /\ Events(timers) \in Nat /\ Time(timers) \in Nat
        /\ Events(timers_copy) \in Nat /\ Time(timers_copy) \in Nat
    BY EventsNat DEF LiveInv, TypeInv
  <2>3. unreported.events \in Int /\ unreported.sum_time \in Int
    BY DEF LiveInv, TypeInv
  <2>4. CASE \E d \in Printers : pc[d] = "print"
    <3>1. Unreported(Events(timers) + Events(timers_copy), Time(timers) + Time(timers_copy))
      BY <2>4 DEF LiveInv, EventsInv, Printing
    <3>2. pc'["checkpoint"] = "cut"
      BY <2>4
    <3>3. Unreported(Events(timers) + 0, Time(timers) + 0)'
      BY <1>4, <2>2, <2>3, <3>1, <3>2 DEF Unreported
    <3> QED BY <2>1, <3>3 DEF EventsInv
  <2>5. CASE \A d \in Printers : pc[d] # "print"
    <3>1. \A d \in Printers : pc[d] \notin Printing \ {"reset"}
      BY <2>5 DEF Printing
    <3>2. Unreported(Events(timers) + 0, Time(timers) + 0)
      BY <3>1 DEF LiveInv, EventsInv
    <3>3. Unreported(Events(timers) + 0, Time(timers) + 0)'
      BY <1>4, <2>2, <2>3, <3>2 DEF Unreported
    <3> QED BY <2>1, <3>3 DEF EventsInv
  <2> QED BY <2>4, <2>5
<1>6. SamplesInv'
  <2>1. /\ \A d \in Printers : pc[d] \notin {"calculate", "clear"}
        /\ \A d \in Printers : pc'[d] \notin {"calculate", "clear"}
    BY DEF Printing
  <2> QED BY <1>4, <2>1 DEF LiveInv, SamplesInv
<1> QED BY <1>1, <1>2, <1>3, <1>5, <1>6 DEF LiveInv

LEMMA PrintedLive ==
  ASSUME LiveInv, interrupted = NoThread, NEW c \in Printers, Printed(c)
  PROVE  LiveInv'
<1>1. /\ UNCHANGED <<timers, timers_copy, timers_mutex, value, percentile,
                     unreported, clock, n_checkpoints>>
      /\ UNCHANGED <<n_checkpoints, taken>>
  BY DEF Printed, boundVars
<1>2. PICK to : to = IF c = "checkpoint" THEN "wait" ELSE "exit"
  OBVIOUS
<1>3. /\ pc[c] = "printed" /\ pc'[c] = to /\ DOMAIN pc' = Callers
      /\ \A u \in Threads : pc'[u] = pc[u]
      /\ \A d \in Printers : d # c => pc'[d] = pc[d] /\ pc[d] \in {"wait", "join", "done", "cut"}
      /\ \A d \in Printers : pc'[d] \in PrinterPlaces
      /\ PrinterInv' /\ (pc'["checkpoint"] = "cut" <=> pc["checkpoint"] = "cut")
  <2>1. /\ Goto(c, "printed", to) /\ "printed" \in Active
        /\ to \in PrinterPlaces \ {"text", "cut"}
        /\ c = "checkpoint" \/ to # "wait"
    BY <1>2 DEF Printed, Active, PrinterPlaces
  <2> QED BY <1>1, <2>1, PrinterGoto
<1>4. report' \in Report
  <2>1. report' = NoReport /\ Infinity \in Int
    BY OperLogAssumption DEF Printed, Infinity, Longest
  <2> QED BY <2>1 DEF NoReport, Report
<1>5. taken' \in Nat
  BY <1>1 DEF LiveInv, TypeInv
<1>6. /\ \A d \in Printers : pc[d] \notin Printing
      /\ \A d \in Printers : pc'[d] \notin Printing \cup {"printed"}
  BY <1>2, <1>3 DEF Printing
<1>7. /\ \A d \in Printers : pc[d] \notin Printing \ {"print"}
      /\ \A d \in Printers : pc[d] = "print" => pc'["checkpoint"] = "cut"
      /\ pc["checkpoint"] = "cut" => pc'["checkpoint"] = "cut"
  BY <1>3, <1>6 DEF Printing
<1> QED BY <1>1, <1>3, <1>4, <1>5, <1>6, <1>7, NoCopyLive, Zenon

LEMMA CheckpointBeginsLive ==
  ASSUME LiveInv, interrupted = NoThread, CheckpointBegins
  PROVE  LiveInv'
<1>1. /\ UNCHANGED <<timers, timers_copy, timers_mutex, value, percentile,
                     unreported, clock, n_checkpoints>>
      /\ report' = report /\ n_checkpoints' = n_checkpoints
  BY DEF CheckpointBegins, timeVars
<1>2. report' \in Report /\ taken' \in Nat /\ n_checkpoints > 0
  BY <1>1 DEF CheckpointBegins, LiveInv, TypeInv
<1>3. /\ pc["checkpoint"] = "wait" /\ pc' = [pc EXCEPT !["checkpoint"] = "copy"]
      /\ DOMAIN pc = Callers /\ "checkpoint" \in Callers /\ "checkpoint" \notin Threads
  BY OperLogAssumption DEF CheckpointBegins, Goto, LiveInv, TypeInv, Callers, Printers
<1>4. /\ DOMAIN pc' = Callers /\ pc'["checkpoint"] = "copy"
      /\ \A t \in Threads : pc'[t] = pc[t]
      /\ pc'["master"] = pc["master"] /\ pc'["handler"] = pc["handler"]
  BY <1>3 DEF Callers, Printers
<1>5. pc["handler"] = "wait" /\ pc["master"] \in {"wait", "join"}
  BY <1>3 DEF LiveInv, PrinterInv
<1>6. /\ \A d \in Printers : pc'[d] \in PrinterPlaces
      /\ \A d \in Printers : pc[d] \notin Printing \ {"print"}
      /\ \A d \in Printers : pc[d] = "print" => pc'["checkpoint"] = "cut"
      /\ pc["checkpoint"] = "cut" => pc'["checkpoint"] = "cut"
      /\ \A d \in Printers : pc'[d] \notin Printing \cup {"printed"}
  BY <1>3, <1>4, <1>5 DEF Printers, PrinterPlaces, Printing
<1>7. PrinterInv'
  <2>1. pc["master"] # "wait" => \A t \in Threads : pc'[t] = "done"
    BY <1>4 DEF LiveInv, PrinterInv
  <2> QED BY <1>1, <1>2, <1>4, <1>5, <2>1 DEF PrinterInv
<1> QED BY <1>1, <1>2, <1>4, <1>6, <1>7, NoCopyLive, Zenon

(* The cancelled thread's report is lost with its copy, or was printed. *)
LEMMA CheckpointCancelledLive ==
  ASSUME LiveInv, interrupted = NoThread, CheckpointCancelled
  PROVE  LiveInv'
<1>1. /\ UNCHANGED <<timers, timers_copy, timers_mutex, value, percentile,
                     unreported, clock, n_checkpoints>>
      /\ n_checkpoints' = n_checkpoints /\ taken' = taken
  BY DEF CheckpointCancelled, boundVars
<1>2. report' \in Report /\ taken' \in Nat
  <2>1. report' = NoReport /\ Infinity \in Int
    BY OperLogAssumption DEF CheckpointCancelled, Infinity, Longest
  <2> QED BY <1>1, <2>1 DEF NoReport, Report, LiveInv, TypeInv
<1>3. PICK to \in {"done", "cut"} : /\ pc' = [pc EXCEPT !["checkpoint"] = to]
                                    /\ pc["checkpoint"] = "print" => to = "cut"
  BY DEF CheckpointCancelled, Goto
<1>4. /\ pc["checkpoint"] \in {"wait", "copy", "print", "printed"}
      /\ pc["master"] = "join" /\ pc["handler"] = "wait" /\ DOMAIN pc = Callers
      /\ "checkpoint" \in Callers /\ "checkpoint" \notin Threads
      /\ \A t \in Threads : pc[t] = "done"
  BY OperLogAssumption DEF CheckpointCancelled, LiveInv, TypeInv, PrinterInv, Callers, Printers
<1>5. /\ DOMAIN pc' = Callers /\ pc'["checkpoint"] = to
      /\ \A t \in Threads : pc'[t] = pc[t]
      /\ pc'["master"] = "join" /\ pc'["handler"] = "wait"
  BY <1>3, <1>4 DEF Callers, Printers
<1>6. n_checkpoints > 0
  BY <1>4 DEF LiveInv, PrinterInv
<1>7. /\ \A d \in Printers : pc'[d] \in PrinterPlaces
      /\ \A d \in Printers : pc[d] \notin Printing \ {"print"}
      /\ \A d \in Printers : pc[d] = "print" => pc'["checkpoint"] = "cut"
      /\ pc["checkpoint"] = "cut" => pc'["checkpoint"] = "cut"
      /\ \A d \in Printers : pc'[d] \notin Printing \cup {"printed"}
  BY <1>3, <1>4, <1>5 DEF Printers, PrinterPlaces, Printing
<1>8. PrinterInv'
  BY <1>1, <1>4, <1>5, <1>6 DEF PrinterInv
<1> QED BY <1>1, <1>2, <1>5, <1>7, <1>8, NoCopyLive, Zenon

(* The master asks the checkpoint thread to end; nobody moves but him. *)
LEMMA MasterCancelsLive ==
  ASSUME LiveInv, interrupted = NoThread, MasterCancels
  PROVE  LiveInv'
<1>1. UNCHANGED <<interrupted, timers, timers_copy, timers_mutex, value, percentile,
                  report, unreported, clock, n_checkpoints, taken>>
  BY DEF MasterCancels, timeVars, boundVars
<1>2. /\ pc["master"] = "wait" /\ DOMAIN pc = Callers /\ pc["handler"] = "wait"
      /\ pc' = [pc EXCEPT !["master"] = "join"]
      /\ "master" \in Callers /\ "master" \notin Threads
      /\ \A t \in Threads : pc[t] = "done"
  BY OperLogAssumption DEF MasterCancels, Goto, LiveInv, TypeInv, PrinterInv, Callers, Printers
<1>3. /\ DOMAIN pc' = Callers /\ pc'["master"] = "join" /\ pc'["handler"] = "wait"
      /\ \A t \in Threads : pc'[t] = pc[t]
      /\ pc'["checkpoint"] = pc["checkpoint"]
  BY <1>2 DEF Callers, Printers
<1>4. \A d \in Printers : pc'[d] = pc[d] \/ (pc[d] = "wait" /\ pc'[d] = "join")
  BY <1>2, <1>3 DEF Printers
<1>5. \A d \in Printers : \A P \in SUBSET (Printing \cup {"printed"}) :
        pc'[d] \in P <=> pc[d] \in P
  BY <1>4 DEF Printing
<1>6. /\ Events(timers)' = Events(timers) /\ Time(timers)' = Time(timers)
      /\ Events(timers_copy)' = Events(timers_copy)
      /\ Time(timers_copy)' = Time(timers_copy)
      /\ Recording' = Recording /\ Runners' = Runners
      /\ Sum(percentile)' = Sum(percentile)
  BY <1>1, <1>3 DEF Events, Time, Recording, At, Runners, Sum
<1>7. TypeInv'
  <2>1. \A d \in Printers : pc'[d] \in PrinterPlaces
    BY <1>4 DEF LiveInv, TypeInv, PrinterPlaces
  <2> QED BY <1>1, <1>3, <2>1 DEF LiveInv, TypeInv
<1>8. StartInv' /\ MeanInv(timers)' /\ MeanInv(timers_copy)'
  BY <1>1 DEF LiveInv, StartInv, MeanInv
<1>9. PrinterInv'
  BY <1>1, <1>2, <1>3 DEF LiveInv, PrinterInv
<1>10. MutexInv'
  BY <1>1, <1>4 DEF LiveInv, MutexInv
<1>11. EventsInv'
  BY <1>1, <1>3, <1>4, <1>6 DEF LiveInv, EventsInv, Unreported, SameEvents, Printing
<1>12. SamplesInv'
  BY <1>4, <1>6 DEF LiveInv, SamplesInv
<1>13. CalculatedInv'
  BY <1>1, <1>4, <1>6 DEF LiveInv, CalculatedInv
<1>14. ReportSound'
  BY <1>1, <1>4 DEF LiveInv, ReportSound
<1> QED BY <1>7, <1>8, <1>9, <1>10, <1>11, <1>12, <1>13, <1>14 DEF LiveInv

LEMMA MasterJoinsLive ==
  ASSUME LiveInv, interrupted = NoThread, MasterJoins
  PROVE  LiveInv'
<1>1. /\ UNCHANGED <<timers, timers_copy, timers_mutex, value, percentile,
                     unreported, clock, n_checkpoints>>
      /\ report' = report /\ n_checkpoints' = n_checkpoints /\ taken' = taken
  BY DEF MasterJoins, timeVars, boundVars
<1>2. report' \in Report /\ taken' \in Nat
  BY <1>1 DEF LiveInv, TypeInv
<1>3. /\ pc["checkpoint"] \in {"done", "cut"} /\ pc["master"] = "join"
      /\ pc["handler"] = "wait" /\ DOMAIN pc = Callers
      /\ pc' = [pc EXCEPT !["master"] = "copy"]
      /\ "master" \in Callers /\ "master" \notin Threads
      /\ \A t \in Threads : pc[t] = "done"
  BY OperLogAssumption DEF MasterJoins, Goto, LiveInv, TypeInv, PrinterInv, Callers, Printers
<1>4. /\ DOMAIN pc' = Callers /\ pc'["checkpoint"] = pc["checkpoint"]
      /\ \A t \in Threads : pc'[t] = pc[t]
      /\ pc'["master"] = "copy" /\ pc'["handler"] = "wait"
  BY <1>3 DEF Callers, Printers
<1>5. /\ \A d \in Printers : pc'[d] \in PrinterPlaces
      /\ \A d \in Printers : pc[d] \notin Printing \ {"print"}
      /\ \A d \in Printers : pc[d] = "print" => pc'["checkpoint"] = "cut"
      /\ pc["checkpoint"] = "cut" => pc'["checkpoint"] = "cut"
      /\ \A d \in Printers : pc'[d] \notin Printing \cup {"printed"}
  BY <1>3, <1>4 DEF Printers, PrinterPlaces, Printing
<1>6. PrinterInv'
  BY <1>1, <1>3, <1>4 DEF LiveInv, PrinterInv
<1> QED BY <1>1, <1>2, <1>4, <1>5, <1>6, NoCopyLive, Zenon
-----------------------------------------------------------------------------
LEMMA InitIInv == Init => IInv
<1> SUFFICES ASSUME Init PROVE LiveInv
  BY DEF IInv
<1>0. /\ clock = 0 /\ n_checkpoints \in 0 .. MaxCheckpoints /\ taken = 0
      /\ value = [t \in Threads |-> 0] /\ report = NoReport
      /\ unreported = [events |-> 0, sum_time |-> 0]
  BY Zenon DEF Init
<1>1. /\ Infinity \in Nat /\ MaxTime \in Nat /\ QueueMax \in Nat
      /\ Longest \in Nat /\ Infinity = Longest + 1
  BY OperLogAssumption DEF Infinity, Longest
<1>2. sb_timer_init \in Timer
  BY <1>1 DEF sb_timer_init, Timer
<1>3. timers \in [Threads -> Timer] /\ timers_copy = timers
  BY <1>2 DEF Init
<1>4. \A t \in Threads : timers[t] = sb_timer_init
  BY DEF Init
<1>5. /\ DOMAIN pc = Callers /\ Threads \cap Printers = {}
      /\ \A t \in Threads : pc[t] = "idle"
      /\ \A c \in Printers : pc[c] \in {"wait", "done"}
      /\ pc["master"] = "wait" /\ pc["handler"] = "wait"
      /\ pc["checkpoint"] # "done" => n_checkpoints > 0
  <2>1. /\ DOMAIN pc = Callers /\ Threads \cap Printers = {}
        /\ \A t \in Threads : pc[t] = "idle"
        /\ \A c \in Printers : pc[c] \in {"wait", "done"}
        /\ pc["master"] = "wait" /\ pc["handler"] = "wait"
    BY OperLogAssumption DEF Init, Callers, Printers
  <2>2. "checkpoint" \in Callers /\ "checkpoint" \notin Threads
    BY <2>1 DEF Callers, Printers
  <2>3. pc["checkpoint"] # "done" => n_checkpoints # 0
    BY <2>2 DEF Init
  <2>4. n_checkpoints # 0 => n_checkpoints > 0
    BY <1>0, OperLogAssumption
  <2> QED BY <2>1, <2>3, <2>4
<1>6. percentile \in [Buckets -> Nat] /\ \A b \in Buckets : percentile[b] = 0
  BY DEF Init, sb_percentile_reset
<1>7. TypeInv
  <2>1. report \in Report
    BY <1>0, <1>1 DEF NoReport, Report
  <2>2. \A t \in Threads : pc[t] \in RunnerPlaces
    BY <1>5 DEF RunnerPlaces
  <2>3. \A c \in Printers : pc[c] \in PrinterPlaces
    BY <1>5 DEF PrinterPlaces
  <2>4. clock \in 0 .. MaxTime /\ n_checkpoints \in Nat /\ taken \in Nat
    BY <1>0, <1>1, OperLogAssumption
  <2>5. value \in [Threads -> Nat] /\ unreported \in [events : Int, sum_time : Int]
    BY <1>0
  <2> QED BY <1>3, <1>5, <1>6, <2>1, <2>2, <2>3, <2>4, <2>5 DEF TypeInv
<1>8. StartInv
  BY <1>0, <1>4 DEF StartInv, sb_timer_init
<1>9. PrinterInv /\ MutexInv /\ CalculatedInv /\ ReportSound
  BY <1>5 DEF PrinterInv, MutexInv, CalculatedInv, ReportSound, Printers
<1>10. MeanInv(timers) /\ MeanInv(timers_copy)
  BY <1>1, <1>3, <1>4 DEF MeanInv, sb_timer_init
<1>11. Events(timers) = 0 /\ Time(timers) = 0
  BY <1>3, <1>4, EventsZero DEF sb_timer_init
<1>12. EventsInv
  BY <1>0, <1>3, <1>5, <1>11 DEF EventsInv, Unreported, SameEvents, Printing
<1>13. SamplesInv
  <2>1. Sum(percentile) = 0
    BY <1>6, SumZero
  <2>2. Recording \in Nat /\ Runners \in Nat /\ Recording <= Runners
    BY RecordingNat
  <2> QED BY <1>5, <1>11, <2>1, <2>2 DEF SamplesInv
<1> QED BY <1>7, <1>8, <1>9, <1>10, <1>12, <1>13 DEF LiveInv

LEMMA NextIInv == IInv /\ [Next]_vars => IInv'
<1> SUFFICES ASSUME IInv, [Next]_vars, interrupted' = NoThread PROVE LiveInv'
  BY DEF IInv
<1>1. ASSUME NEW c \in Callers, sigalrm_handler(c) PROVE FALSE
  BY <1>1, OperLogAssumption DEF sigalrm_handler
<1>2. interrupted = NoThread
  <2>1. CASE UNCHANGED vars
    BY <2>1 DEF vars
  <2>2. ASSUME NEW t \in Threads, RunnerStep(t) PROVE interrupted' = interrupted
    BY <2>2 DEF RunnerStep, TakeEvent, EventStart, EventStop, EventRecord, RunnerEnds
  <2>3. ASSUME NEW c \in Printers, PrinterStep(c) PROVE interrupted' = interrupted
    BY <2>3 DEF PrinterStep, CopyTimers, ResetTimers, Calculate, ClearPercentile,
       PrintStats, Printed
  <2>4. CASE CheckpointBegins \/ HandlerLogs \/ Tick
    BY <2>4 DEF CheckpointBegins, HandlerLogs, Tick
  <2>5. CASE MasterCancels \/ CheckpointCancelled \/ HandlerCancelled \/ MasterJoins
    BY <2>5 DEF MasterCancels, CheckpointCancelled, HandlerCancelled, MasterJoins
  <2> QED BY <1>1, <2>1, <2>2, <2>3, <2>4, <2>5 DEF Next
<1>3. LiveInv
  BY <1>2 DEF IInv
<1>4. ASSUME NEW t \in Threads, RunnerStep(t) PROVE LiveInv'
  BY <1>2, <1>3, <1>4, TakeEventLive, EventStartLive, EventStopLive, EventRecordLive,
     RunnerEndsLive DEF RunnerStep
<1>5. ASSUME NEW c \in Printers, PrinterStep(c) PROVE LiveInv'
  BY <1>2, <1>3, <1>5, CopyTimersLive, ResetTimersLive, CalculateLive,
     ClearPercentileLive, PrintStatsLive, PrintedLive DEF PrinterStep
<1>6. CASE HandlerLogs \/ HandlerCancelled
  BY <1>3, <1>6 DEF LiveInv, PrinterInv, HandlerLogs, HandlerCancelled, Goto
<1>7. CASE UNCHANGED vars
  <2>1. UNCHANGED <<pc, interrupted, timers, timers_copy, timers_mutex, value,
                    percentile, report, unreported, clock, n_checkpoints, taken>>
    BY <1>7 DEF vars, timeVars, boundVars
  <2>2. TypeInv' /\ StartInv' /\ PrinterInv' /\ MutexInv'
    BY <1>3, <2>1 DEF LiveInv, TypeInv, StartInv, PrinterInv, MutexInv
  <2>3. MeanInv(timers)' /\ MeanInv(timers_copy)'
    BY <1>3, <2>1 DEF LiveInv, MeanInv
  <2>4. EventsInv' /\ SamplesInv'
    BY <1>3, <2>1 DEF LiveInv, EventsInv, Unreported, SameEvents, SamplesInv, Events, Time, Recording,
       Runners, Sum
  <2>5. CalculatedInv' /\ ReportSound'
    BY <1>3, <2>1 DEF LiveInv, CalculatedInv, ReportSound, Events, Runners
  <2> QED BY <2>2, <2>3, <2>4, <2>5 DEF LiveInv
<1> QED BY <1>1, <1>2, <1>3, <1>4, <1>5, <1>6, <1>7, CheckpointBeginsLive,
           MasterCancelsLive, CheckpointCancelledLive, MasterJoinsLive, TickLive DEF Next

(* The inductive invariant holds throughout. *)
THEOREM Invariance == Spec => []IInv
BY InitIInv, NextIInv, PTL DEF Spec

(* sb_logger.c: whatever checkpoints the runners' events cross, and        *)
(* wherever the checkpoint thread is cancelled, no event that was stopped  *)
(* is in two reports; unless that thread is cancelled in its report, every *)
(* one is in exactly one report or still in its timer, with the time       *)
(* measured.                                                               *)
THEOREM EventsAreConserved == Spec => []EventsConserved
<1>1. IInv => EventsConserved
  <2> SUFFICES ASSUME IInv, interrupted = NoThread,
                      \A c \in Printers : pc[c] \notin Printing
               PROVE  EventsConserved
    BY DEF EventsConserved, Printing
  <2>0. LiveInv
    BY DEF IInv
  <2>1. timers \in [Threads -> Timer] /\ unreported \in [events : Int, sum_time : Int]
    BY <2>0 DEF LiveInv, TypeInv
  <2>2. PICK e \in Nat : e = Events(timers)
    BY <2>1, EventsNat
  <2>3. PICK s \in Nat : s = Time(timers)
    BY <2>1, EventsNat
  <2>4. Unreported(Events(timers) + 0, Time(timers) + 0)
    BY <2>0 DEF LiveInv, EventsInv
  <2>5. /\ e <= unreported.events /\ s <= unreported.sum_time
        /\ pc["checkpoint"] # "cut" => unreported.events = e /\ unreported.sum_time = s
    BY <2>2, <2>3, <2>4 DEF Unreported
  <2>6. unreported = [events |-> unreported.events, sum_time |-> unreported.sum_time]
    BY <2>1
  <2>7. merge_timers(timers).events = e /\ merge_timers(timers).sum_time = s
    BY <2>2, <2>3 DEF merge_timers, Events, Time
  <2> QED BY <2>5, <2>6, <2>7 DEF EventsConserved
<1> QED BY <1>1, Invariance, PTL

(* print_global_stats: the average printed lies between the minimum and    *)
(* the maximum, the percentile is on its scale, and its samples differ     *)
(* from the events by at most one for every runner, though the runners     *)
(* record between the steps of the report.                                 *)
THEOREM ReportsAreSound == Spec => []ReportSound
<1>1. IInv => ReportSound
  BY DEF IInv, LiveInv, ReportSound
<1> QED BY <1>1, Invariance, PTL
=============================================================================
