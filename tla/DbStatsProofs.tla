---------------------------- MODULE DbStatsProofs ----------------------------
(***************************************************************************)
(* What DbStats promises, for any number of runners, queries, intermediate *)
(* reports and checkpoints: no report shows more than was executed, a      *)
(* commit is counted whole, and without checkpoints the intermediate       *)
(* reports divide the run and the final statistics are exact.              *)
(*                                                                         *)
(* The argument follows what each runner has executed on its own.  The     *)
(* model keeps only the totals, so the invariant says that there are such  *)
(* shares of the totals: own[t][f] increments of field f by runner t, and  *)
(* other[t] finished queries of type OTHER.                                *)
(***************************************************************************)
EXTENDS DbStats, ThreadLemmas

(* The fields a runner can still have to increment. *)
Remaining ==
  {<< >>, <<"read_ops">>, <<"write_ops">>, <<"other_ops">>, <<"reconnects">>,
   <<"errors">>, <<"other_ops", "transactions">>, <<"transactions">>}

(* Those with an increment of f. *)
With(f) == {s \in Remaining : \E i \in 1 .. Len(s) : s[i] = f}

(* One field of a function from runners to counters. *)
Column(c, f) == [t \in Threads |-> c[t][f]]

(* No counter has been reset yet. *)
Untouched ==
  checkpoints = 0 /\ reader_pc["master"] \in {"idle", "sum", "print"}
-----------------------------------------------------------------------------
(* A runner has fields to count exactly between the answer of the driver   *)
(* and its last store; in the middle of a commit it holds its stat_mutex.  *)
RunnersInv ==
  /\ stat_mutex \in [Threads -> Threads \cup {NoThread}]
  /\ \A t \in Threads :
       /\ counting[t] \in Remaining
       /\ pc[t] \in {"idle", "done"} <=> counting[t] = << >>
       /\ counting[t] = <<"transactions">> => pc[t] \in {"load", "store"}
       /\ counting[t] \in With("transactions") /\ pc[t] \in {"load", "store"} =>
            stat_mutex[t] = t

(* Every increment made or to be made is that of a query, so no counter    *)
(* wraps around.                                                           *)
QueriesInv ==
  \A f \in Fields :
    executed[f] + Cardinality(At(Threads, counting, With(f))) <= queries

(* Who reports when. *)
ReadersInv ==
  /\ reader_pc["report"] \in {"idle", "sum", "print", "save"}
  /\ reader_pc["checkpoint"] # "idle" => checkpoints > 0
  /\ reader_pc["master"] # "idle" => RunnersEnded /\ reader_pc["report"] = "idle"
  /\ \A r \in Readers : reader_pc[r] \in {"print", "save"} => unread[r] = {}

(* The runners' shares of executed.  A slot may have been reset, and so    *)
(* holds at most the runner's share.                                       *)
SharesInv(own) ==
  /\ own \in [Threads -> [Fields -> 0 .. MaxQueries]]
  /\ \A f \in Fields : Tally(Threads, Column(own, f)) = executed[f]
  /\ \A t \in Threads : \A f \in Fields :
       /\ thread_stats[t][f] <= own[t][f]
       /\ Untouched => thread_stats[t][f] = own[t][f]
  /\ \A t \in Threads : pc[t] = "store" =>
       /\ loaded[t] <= own[t][Head(counting[t])]
       /\ Untouched => loaded[t] = own[t][Head(counting[t])]

(* A reader has summed at most the shares of the slots it has read.  The   *)
(* master, with no runner left, has summed them exactly.                   *)
SumsInv(own) ==
  \A f \in Fields :
    /\ \A r \in Readers :
         /\ reader_pc[r] = "sum" =>
              sums[r][f] <= Tally(Threads \ unread[r], Column(own, f))
         /\ reader_pc[r] \in {"print", "save", "reset"} =>
              sums[r][f] <= executed[f]
    /\ checkpoints = 0 =>
         /\ reader_pc["master"] = "sum" =>
              sums["master"][f] =
                Tally(Threads \ unread["master"], Column(own, f))
         /\ reader_pc["master"] \in {"print", "reset"} =>
              sums["master"][f] = executed[f]

(* What was shown before is still ahead of the reporting thread, in the    *)
(* slots it has yet to read, or already in its sums.                       *)
IntervalsInv(own) ==
  checkpoints = 0 /\ reader_pc["master"] = "idle" =>
    \A f \in LastFields :
      /\ shown[f] = IF reader_pc["report"] = "save" THEN sums["report"][f]
                                                    ELSE last[f]
      /\ last[f] <= executed[f]
      /\ reader_pc["report"] = "sum" =>
           last[f] <= sums["report"][f]
                        + Tally(unread["report"], Column(own, f))
      /\ reader_pc["report"] = "print" => last[f] <= sums["report"][f]

(* What is not a transaction is a query of type OTHER, or a commit that is *)
(* half counted; a reader skips no slot and sees none in such a state.     *)
CommitsInv(own, other) ==
  /\ other \in [Threads -> 0 .. MaxQueries]
  /\ \A t \in Threads :
       own[t]["other_ops"] =
         own[t]["transactions"] + other[t]
           + (IF counting[t] = <<"transactions">> THEN 1 ELSE 0)
  /\ Tally(Threads, other)
       + Cardinality(At(Threads, counting, {<<"other_ops">>})) <= others
  /\ checkpoints = 0 =>
       \A r \in Readers :
         /\ reader_pc[r] = "sum" =>
              /\ sums[r]["transactions"] <= sums[r]["other_ops"]
              /\ sums[r]["other_ops"] - sums[r]["transactions"] <=
                   Tally(Threads \ unread[r], other)
         /\ reader_pc[r] \in {"print", "save", "reset"} =>
              /\ sums[r]["transactions"] <= sums[r]["other_ops"]
              /\ sums[r]["other_ops"] - sums[r]["transactions"] <= others

Shares(own, other) ==
  /\ SharesInv(own) /\ SumsInv(own) /\ IntervalsInv(own)
  /\ CommitsInv(own, other)

(* The inductive invariant. *)
IInv ==
  /\ TypeOK /\ RunnersInv /\ QueriesInv /\ ReadersInv
  /\ \E own \in [Threads -> [Fields -> 0 .. MaxQueries]],
        other \in [Threads -> 0 .. MaxQueries] : Shares(own, other)
-----------------------------------------------------------------------------
(* Arithmetic on unsigned longs, for values that do not wrap around. *)
LEMMA ModFacts ==
  ASSUME NEW x \in Int
  PROVE  /\ x % ULONG \in 0 .. ULONG - 1
         /\ x \in 0 .. ULONG - 1 => x % ULONG = x
BY DbStatsAssumption

(* What is left to count after one increment. *)
LEMMA RemainingFacts ==
  ASSUME NEW s \in Remaining, s # << >>
  PROVE  /\ Head(s) \in Fields
         /\ Tail(s) \in Remaining
         /\ Len(s) = 1 <=> Tail(s) = << >>
         /\ Tail(s) # <<"other_ops">>
         /\ s \in With(Head(s)) /\ Tail(s) \notin With(Head(s))
         /\ \A f \in Fields \ {Head(s)} : s \in With(f) <=> Tail(s) \in With(f)
<1>1. CASE Len(s) = 1
  <2>1. PICK a \in Fields : s = <<a>>
    BY <1>1 DEF Remaining, Fields
  <2>2. Head(s) = a /\ Tail(s) = << >>
    BY <2>1
  <2> QED BY <1>1, <2>1, <2>2 DEF Remaining, With
<1>2. CASE Len(s) # 1
  <2>1. s = <<"other_ops", "transactions">>
    BY <1>2 DEF Remaining
  <2>2. Head(s) = "other_ops" /\ Tail(s) = <<"transactions">>
    BY <2>1
  <2> QED BY <1>2, <2>1, <2>2 DEF Remaining, With, Fields
<1> QED BY <1>1, <1>2

(* Of the sequences with a transaction, one counts the other operation too. *)
LEMMA CommitFacts ==
  /\ With("transactions") =
       {<<"other_ops", "transactions">>, <<"transactions">>}
  /\ << >> \notin With("transactions") /\ << >> # <<"transactions">>
  /\ Head(<<"other_ops", "transactions">>) = "other_ops"
  /\ Tail(<<"other_ops", "transactions">>) = <<"transactions">>
  /\ Head(<<"transactions">>) = "transactions"
  /\ Head(<<"other_ops">>) = "other_ops"
  /\ \A s \in Remaining : Tail(s) = <<"transactions">> =>
       s = <<"other_ops", "transactions">>
BY DEF With, Remaining

(* What the driver's answer makes a runner count. *)
LEMMA CountedFacts ==
  ASSUME NEW o \in (QueryTypes \cup DriverErrors) \ {"FAILED"}
  PROVE  /\ Counted(o) \in Remaining \ {<< >>, <<"transactions">>}
         /\ Counted(o) \in With("transactions") => o \in QueryTypes
         /\ Counted(o) = <<"other_ops">> <=> o = "OTHER"
<1>1. /\ Counted("READ") = <<"read_ops">>
      /\ Counted("WRITE") = <<"write_ops">>
      /\ Counted("COMMIT") = <<"other_ops", "transactions">>
      /\ Counted("OTHER") = <<"other_ops">>
      /\ Counted("RECONNECTED") = <<"reconnects">>
      /\ Counted("RESTART_TRANSACTION") = <<"errors">>
  BY Zenon DEF Counted
<1>2. o \in {"READ", "WRITE", "COMMIT", "OTHER", "RECONNECTED",
              "RESTART_TRANSACTION"}
  BY DEF QueryTypes, DriverErrors
<1> QED BY <1>1, <1>2, CommitFacts DEF Remaining, QueryTypes
-----------------------------------------------------------------------------
(* They are sequences of fields. *)
LEMMA RemainingSeq == Remaining \subseteq Seq(Fields)
BY DEF Remaining, Fields

(* A step of a runner. *)
LEMMA RunnerTypes ==
  ASSUME TypeOK, RunnersInv, NEW t \in Threads, RunnerStep(t)
  PROVE  TypeOK' /\ RunnersInv'
<1> USE DbStatsAssumption DEF Goto, readerVars, historyVars
<1>1. ASSUME NEW o \in QueryTypes \cup DriverErrors, Answer(t, o)
      PROVE  TypeOK' /\ RunnersInv'
  <2>1. queries' \in 0 .. MaxQueries /\ others' \in Nat
    BY <1>1 DEF Answer, TypeOK
  <2>2. CASE o = "FAILED"
    <3>1. /\ pc[t] = "idle" /\ pc' = [pc EXCEPT ![t] = "done"]
          /\ UNCHANGED <<counting, thread_stats, stat_mutex, loaded, executed,
                         readerVars>>
      BY <1>1, <2>2, Zenon DEF Answer
    <3> QED BY <2>1, <3>1 DEF TypeOK, RunnersInv
  <2>3. CASE o # "FAILED"
    <3>1. /\ Counted(o) \in Remaining \ {<< >>, <<"transactions">>}
          /\ Counted(o) \in With("transactions") => o \in QueryTypes
      BY <2>3, CountedFacts
    <3>2. /\ pc[t] = "idle"
          /\ pc' = [pc EXCEPT ![t] = IF o \in QueryTypes THEN "lock" ELSE "load"]
          /\ counting' = [counting EXCEPT ![t] = Counted(o)]
          /\ UNCHANGED <<thread_stats, stat_mutex, loaded, executed, readerVars>>
      BY <1>1, <2>3, Zenon DEF Answer
    <3>3. TypeOK'
      BY <2>1, <3>1, <3>2, RemainingSeq DEF TypeOK
    <3>4. RunnersInv'
      BY <3>1, <3>2 DEF TypeOK, RunnersInv
    <3> QED BY <3>3, <3>4
  <2> QED BY <2>2, <2>3
<1>2. CASE LockStats(t)
  BY <1>2 DEF LockStats, TypeOK, RunnersInv
<1>3. CASE Load(t)
  <2>1. counting[t] \in Remaining /\ counting[t] # << >>
    BY <1>3 DEF Load, RunnersInv
  <2>2. Head(counting[t]) \in Fields
    BY <2>1, RemainingFacts
  <2>3. loaded' \in [Threads -> 0 .. ULONG - 1]
    BY <1>3, <2>2 DEF Load, TypeOK
  <2>4. TypeOK'
    BY <1>3, <2>3 DEF Load, TypeOK
  <2>5. RunnersInv'
    BY <1>3 DEF Load, TypeOK, RunnersInv
  <2> QED BY <2>4, <2>5
<1>4. CASE Store(t)
  <2> DEFINE s == counting[t]
             f == Head(counting[t])
  <2>1. s \in Remaining /\ s # << >> /\ pc[t] = "store"
    BY <1>4 DEF Store, RunnersInv
  <2>2. /\ f \in Fields /\ Tail(s) \in Remaining
        /\ Len(s) = 1 <=> Tail(s) = << >>
    BY <2>1, RemainingFacts
  <2>3. /\ pc' = [pc EXCEPT ![t] = IF Len(s) = 1 THEN "idle" ELSE "load"]
        /\ thread_stats' =
             [thread_stats EXCEPT ![t][f] = (loaded[t] + 1) % ULONG]
        /\ executed' = [executed EXCEPT ![f] = @ + 1]
        /\ counting' = [counting EXCEPT ![t] = Tail(s)]
        /\ stat_mutex' = IF Len(s) = 1 /\ stat_mutex[t] = t
                           THEN [stat_mutex EXCEPT ![t] = NoThread]
                           ELSE stat_mutex
        /\ UNCHANGED <<loaded, queries, others, readerVars>>
    BY <1>4 DEF Store
  <2>4. (loaded[t] + 1) % ULONG \in 0 .. ULONG - 1
    BY ModFacts DEF TypeOK
  <2>5. Tail(s) = <<"transactions">> => s = <<"other_ops", "transactions">>
    BY <2>1, CommitFacts
  <2>6. Tail(s) \in With("transactions") => s \in With("transactions")
    BY <2>2, <2>5, RemainingFacts, <2>1 DEF Fields
  <2> HIDE DEF s, f
  <2>7. /\ thread_stats' \in [Threads -> [Fields -> 0 .. ULONG - 1]]
        /\ executed' \in [Fields -> Nat]
    BY <2>2, <2>3, <2>4 DEF TypeOK
  <2>8. /\ counting' \in [Threads -> Seq(Fields)]
        /\ pc' \in [Threads -> {"idle", "lock", "load", "store", "done"}]
        /\ stat_mutex' \in [Threads -> Threads \cup {NoThread}]
        /\ \A u \in Threads : stat_mutex'[u] \in {u, NoThread}
    BY <2>2, <2>3, RemainingSeq DEF TypeOK, RunnersInv
  <2>9. TypeOK'
    BY <2>3, <2>7, <2>8 DEF TypeOK
  <2>10. ASSUME NEW u \in Threads, u # t
         PROVE  /\ counting'[u] = counting[u] /\ pc'[u] = pc[u]
                /\ stat_mutex'[u] = stat_mutex[u]
    BY <2>3, <2>10 DEF TypeOK, RunnersInv
  <2>11. /\ counting'[t] = Tail(s)
         /\ pc'[t] = IF Len(s) = 1 THEN "idle" ELSE "load"
         /\ Len(s) # 1 => stat_mutex'[t] = stat_mutex[t]
    BY <2>3 DEF TypeOK
  <2>12. Tail(s) \in With("transactions") => stat_mutex[t] = t
    BY <2>1, <2>6 DEF RunnersInv, s
  <2>13. ASSUME NEW u \in Threads
         PROVE  /\ counting'[u] \in Remaining
                /\ pc'[u] \in {"idle", "done"} <=> counting'[u] = << >>
                /\ counting'[u] = <<"transactions">> =>
                     pc'[u] \in {"load", "store"}
                /\ counting'[u] \in With("transactions")
                     /\ pc'[u] \in {"load", "store"} => stat_mutex'[u] = u
    <3>1. CASE u # t
      BY <2>10, <3>1 DEF RunnersInv
    <3>2. CASE u = t
      <4>1. CASE Len(s) = 1
        BY <2>2, <2>11, <3>2, <4>1, CommitFacts
      <4>2. CASE Len(s) # 1
        BY <2>2, <2>11, <2>12, <3>2, <4>2
      <4> QED BY <4>1, <4>2
    <3> QED BY <3>1, <3>2
  <2>14. RunnersInv'
    BY <2>8, <2>13, Zenon DEF RunnersInv
  <2> QED BY <2>9, <2>14
<1>5. CASE Quit(t)
  BY <1>5 DEF Quit, TypeOK, RunnersInv
<1> QED BY <1>1, <1>2, <1>3, <1>4, <1>5 DEF RunnerStep

(* A step of a reader. *)
LEMMA ReaderTypes ==
  ASSUME TypeOK, RunnersInv, ReadersInv, NEW r \in Readers, ReaderStep(r)
  PROVE  TypeOK' /\ RunnersInv' /\ ReadersInv'
<1> USE DbStatsAssumption DEF ReaderGoto, runnerVars, historyVars
<1>1. CASE Begin(r)
  <2>1. /\ reports' \in 0 .. MaxReports /\ checkpoints' \in 0 .. MaxCheckpoints
        /\ exec_mutex' \in {"checkpoint", NoThread}
    BY <1>1 DEF Begin, TypeOK
  <2>2. sums' \in [Readers -> [Fields -> 0 .. ULONG - 1]]
    BY <1>1 DEF Begin, TypeOK, Zero
  <2>3. TypeOK' /\ RunnersInv'
    BY <1>1, <2>1, <2>2 DEF Begin, TypeOK, RunnersInv
  <2>4. ReadersInv'
    BY <1>1 DEF Begin, TypeOK, ReadersInv, RunnersEnded, Readers
  <2> QED BY <2>3, <2>4
<1>2. ASSUME NEW t \in Threads, Sum(r, t)
      PROVE  TypeOK' /\ RunnersInv' /\ ReadersInv'
  <2>1. ASSUME NEW f \in Fields
        PROVE  (sums[r][f] + thread_stats[t][f]) % ULONG \in 0 .. ULONG - 1
    <3>1. sums[r][f] + thread_stats[t][f] \in Int
      BY DEF TypeOK
    <3> QED BY <3>1, ModFacts
  <2>2. sums' \in [Readers -> [Fields -> 0 .. ULONG - 1]]
    BY <1>2, <2>1 DEF Sum, TypeOK
  <2>3. TypeOK' /\ RunnersInv'
    BY <1>2, <2>2 DEF Sum, TypeOK, RunnersInv
  <2>4. ReadersInv'
    BY <1>2 DEF Sum, TypeOK, ReadersInv, RunnersEnded, Readers
  <2> QED BY <2>3, <2>4
<1>3. ASSUME NEW t \in Threads, ResetSlot(r, t)
      PROVE  TypeOK' /\ RunnersInv' /\ ReadersInv'
  BY <1>3 DEF ResetSlot, TypeOK, RunnersInv, ReadersInv, RunnersEnded, Zero,
     Readers
<1>4. CASE PrintIntermediate
  <2>1. \A f \in LastFields : Diff(sums["report"][f], last[f]) \in Nat
    BY ModFacts DEF Diff, TypeOK, Readers, LastFields
  <2>2. shown' \in [LastFields -> Nat]
    BY <1>4, <2>1 DEF PrintIntermediate, TypeOK
  <2> QED
    BY <1>4, <2>2 DEF PrintIntermediate, TypeOK, RunnersInv, ReadersInv,
       RunnersEnded, Readers
<1>5. CASE SaveLast
  BY <1>5 DEF SaveLast, TypeOK, RunnersInv, ReadersInv, RunnersEnded,
     LastFields, Readers
<1>6. CASE PrintCumulative(r)
  BY <1>6 DEF PrintCumulative, TypeOK, RunnersInv, ReadersInv, RunnersEnded,
     Readers
<1>7. CASE ResetLast(r)
  BY <1>7 DEF ResetLast, TypeOK, RunnersInv, ReadersInv, RunnersEnded, Readers
<1> QED BY <1>1, <1>2, <1>3, <1>4, <1>5, <1>6, <1>7 DEF ReaderStep
-----------------------------------------------------------------------------
(* The number of runners with certain fields left to count, when only t    *)
(* moves.                                                                  *)
LEMMA CountingCount ==
  ASSUME NEW P, NEW t \in Threads,
         \A u \in Threads : u # t => counting'[u] = counting[u]
  PROVE  Cardinality(At(Threads, counting', P)) =
           Cardinality(At(Threads, counting, P))
             + (IF counting'[t] \in P THEN 1 ELSE 0)
             - (IF counting[t] \in P THEN 1 ELSE 0)
BY CountMoves, DbStatsAssumption

(* It is a natural number, before and after. *)
LEMMA CountingNat ==
  ASSUME NEW P
  PROVE  /\ Cardinality(At(Threads, counting, P)) \in Nat
         /\ Cardinality(At(Threads, counting', P)) \in Nat
BY CountNat, DbStatsAssumption

(* An answer of the driver allows one increment of a field, and a store  *)
(* makes one of those that were allowed.                                  *)
LEMMA QueriesPreserved ==
  ASSUME TypeOK, RunnersInv, QueriesInv, NEW t \in Threads, RunnerStep(t)
  PROVE  QueriesInv'
<1> USE DEF Goto
<1>0. SUFFICES ASSUME NEW f \in Fields
               PROVE  executed'[f] + Cardinality(At(Threads, counting', With(f)))
                        <= queries'
  BY DEF QueriesInv, At, With, Remaining
<1>1. /\ executed[f] + Cardinality(At(Threads, counting, With(f))) <= queries
      /\ executed[f] \in Nat /\ queries \in Nat
      /\ Cardinality(At(Threads, counting, With(f))) \in Nat
  BY CountingNat DEF QueriesInv, TypeOK
<1>2. ASSUME NEW o \in QueryTypes \cup DriverErrors, Answer(t, o)
      PROVE  executed'[f] + Cardinality(At(Threads, counting', With(f)))
               <= queries'
  <2>1. /\ executed' = executed /\ queries' = queries + 1
        /\ \A u \in Threads : u # t => counting'[u] = counting[u]
    BY <1>2 DEF Answer, TypeOK
  <2>2. Cardinality(At(Threads, counting', With(f))) <=
          Cardinality(At(Threads, counting, With(f))) + 1
    BY <1>1, <2>1, CountingCount
  <2>3. Cardinality(At(Threads, counting', With(f))) \in Nat
    BY CountingNat
  <2> QED BY <1>1, <2>1, <2>2, <2>3
<1>3. CASE LockStats(t) \/ Load(t) \/ Quit(t)
  <2>1. UNCHANGED <<executed, counting, queries>>
    BY <1>3 DEF LockStats, Load, Quit, historyVars
  <2> QED BY <1>1, <2>1
<1>4. CASE Store(t)
  <2>1. counting[t] \in Remaining /\ counting[t] # << >>
    BY <1>4 DEF Store, RunnersInv
  <2>2. /\ executed' = [executed EXCEPT ![Head(counting[t])] = @ + 1]
        /\ queries' = queries
        /\ counting' = [counting EXCEPT ![t] = Tail(counting[t])]
    BY <1>4 DEF Store
  <2>3. /\ \A u \in Threads : u # t => counting'[u] = counting[u]
        /\ counting'[t] = Tail(counting[t])
    BY <2>2 DEF TypeOK
  <2>4. Cardinality(At(Threads, counting', With(f))) =
          Cardinality(At(Threads, counting, With(f)))
            + (IF counting'[t] \in With(f) THEN 1 ELSE 0)
            - (IF counting[t] \in With(f) THEN 1 ELSE 0)
    BY <2>3, CountingCount
  <2>5. Head(counting[t]) \in Fields
    BY <2>1, RemainingFacts
  <2>6. CASE f = Head(counting[t])
    <3>1. counting[t] \in With(f) /\ counting'[t] \notin With(f)
      BY <2>1, <2>3, <2>6, RemainingFacts
    <3>2. executed'[f] = executed[f] + 1
      BY <2>2, <2>6 DEF TypeOK
    <3> QED BY <1>1, <2>2, <2>4, <3>1, <3>2
  <2>7. CASE f # Head(counting[t])
    <3>1. counting[t] \in With(f) <=> counting'[t] \in With(f)
      BY <2>1, <2>3, <2>7, RemainingFacts
    <3>2. executed'[f] = executed[f]
      BY <2>2, <2>7 DEF TypeOK
    <3> QED BY <1>1, <2>2, <2>4, <3>1, <3>2
  <2> QED BY <2>6, <2>7
<1> QED BY <1>2, <1>3, <1>4 DEF RunnerStep

(* While the master is at work no runner takes a step. *)
LEMMA RunnerReaders ==
  ASSUME TypeOK, ReadersInv, NEW t \in Threads, RunnerStep(t)
  PROVE  ReadersInv' /\ reader_pc["master"] = "idle"
<1>1. UNCHANGED readerVars /\ pc[t] # "done"
  BY DEF RunnerStep, Answer, LockStats, Load, Store, Quit, Goto
<1>2. reader_pc["master"] = "idle"
  BY <1>1 DEF ReadersInv, RunnersEnded
<1> QED BY <1>1, <1>2 DEF ReadersInv, RunnersEnded, readerVars
-----------------------------------------------------------------------------
(* What the shares say about the sums of a field. *)
LEMMA ShareFacts ==
  ASSUME TypeOK, QueriesInv, NEW own, SharesInv(own), NEW f \in Fields
  PROVE  /\ executed[f] \in Nat /\ executed[f] <= queries
         /\ queries <= MaxQueries /\ MaxQueries \in Nat
         /\ \A u \in Threads : /\ Column(own, f)[u] = own[u][f]
                                /\ Column(own, f)[u] \in 0 .. MaxQueries
                                /\ own[u][f] <= executed[f]
         /\ \A A \in SUBSET Threads :
              /\ IsFiniteSet(A)
              /\ Tally(A, Column(own, f)) \in Nat
              /\ Tally(A, Column(own, f)) <= executed[f]
<1>1. /\ executed[f] \in Nat /\ executed[f] <= queries
      /\ queries \in Nat /\ queries <= MaxQueries /\ MaxQueries \in Nat
  BY CountingNat, DbStatsAssumption DEF QueriesInv, TypeOK
<1> DEFINE v == Column(own, f)
<1>2. \A u \in Threads : v[u] = own[u][f] /\ v[u] \in 0 .. MaxQueries
  BY DEF Column, SharesInv
<1>3. Tally(Threads, v) = executed[f] /\ IsFiniteSet(Threads)
  BY DbStatsAssumption DEF SharesInv
<1> HIDE DEF v
<1>4. ASSUME NEW u \in Threads PROVE v[u] <= executed[f]
  BY <1>1, <1>2, <1>3, TallyTerm
<1>5. ASSUME NEW A \in SUBSET Threads
      PROVE  IsFiniteSet(A) /\ Tally(A, v) \in Nat /\ Tally(A, v) <= executed[f]
  <2>1. IsFiniteSet(A)
    BY <1>3, FS_Subset
  <2>2. \A u \in A : v[u] \in 0 .. MaxQueries
    BY <1>2
  <2>3. Tally(A, v) \in Nat
    BY <1>1, <2>1, <2>2, TallyNat
  <2>4. \A u \in A : v[u] \in Int /\ v[u] <= v[u]
    BY <2>2
  <2>5. Tally(A, v) <= Tally(Threads, v)
    BY <1>1, <1>2, <1>3, <2>4, TallyMonotone
  <2> QED BY <1>3, <2>1, <2>3, <2>5
<1> QED BY <1>1, <1>2, <1>4, <1>5 DEF v

(* The same for the queries of type OTHER. *)
LEMMA OtherFacts ==
  ASSUME TypeOK, NEW own, NEW other, CommitsInv(own, other)
  PROVE  /\ others \in Nat
         /\ \A u \in Threads : other[u] \in 0 .. MaxQueries
         /\ \A A \in SUBSET Threads :
              /\ IsFiniteSet(A)
              /\ Tally(A, other) \in Nat
              /\ Tally(A, other) <= others
<1>1. /\ others \in Nat /\ MaxQueries \in Nat /\ IsFiniteSet(Threads)
      /\ \A u \in Threads : other[u] \in 0 .. MaxQueries
  BY DbStatsAssumption DEF TypeOK, CommitsInv
<1>2. /\ Tally(Threads, other) \in Nat
      /\ Cardinality(At(Threads, counting, {<<"other_ops">>})) \in Nat
  BY <1>1, TallyNat, CountingNat
<1>3. Tally(Threads, other) <= others
  BY <1>1, <1>2 DEF CommitsInv
<1>4. ASSUME NEW A \in SUBSET Threads
      PROVE  IsFiniteSet(A) /\ Tally(A, other) \in Nat /\ Tally(A, other) <= others
  <2>1. IsFiniteSet(A)
    BY <1>1, FS_Subset
  <2>2. \A u \in A : other[u] \in 0 .. MaxQueries
    BY <1>1
  <2>3. Tally(A, other) \in Nat
    BY <1>1, <2>1, <2>2, TallyNat
  <2>4. \A u \in A : other[u] \in Int /\ other[u] <= other[u]
    BY <2>2
  <2>5. Tally(A, other) <= Tally(Threads, other)
    BY <1>1, <2>4, TallyMonotone
  <2> QED BY <1>1, <1>2, <1>3, <2>1, <2>3, <2>5
<1> QED BY <1>1, <1>4

(* The steps of a runner that increment nothing keep the shares. *)
LEMMA QuietShares ==
  ASSUME TypeOK, RunnersInv, NEW own, NEW other, Shares(own, other),
         NEW t \in Threads,
         \/ LockStats(t) \/ Load(t) \/ Quit(t)
         \/ \E o \in QueryTypes \cup DriverErrors : Answer(t, o)
  PROVE  Shares(own, other)'
<1> USE DEF Shares, Goto
<1>1. /\ UNCHANGED <<thread_stats, executed, readerVars>>
      /\ \A u \in Threads : u # t =>
           pc'[u] = pc[u] /\ counting'[u] = counting[u] /\ loaded'[u] = loaded[u]
      /\ pc'[t] = "store" =>
           counting'[t] = counting[t]
             /\ loaded'[t] = thread_stats[t][Head(counting[t])]
  <2>1. CASE LockStats(t) \/ Load(t) \/ Quit(t)
    BY <2>1 DEF LockStats, Load, Quit, TypeOK, historyVars
  <2>2. ASSUME NEW o \in QueryTypes \cup DriverErrors, Answer(t, o)
        PROVE  /\ UNCHANGED <<thread_stats, executed, readerVars, loaded>>
               /\ \A u \in Threads : u # t =>
                    pc'[u] = pc[u] /\ counting'[u] = counting[u]
               /\ pc'[t] # "store"
    BY <2>2 DEF Answer, TypeOK
  <2> QED BY <2>1, <2>2
<1>2. SharesInv(own)'
  <2>1. pc'[t] = "store" => Head(counting[t]) \in Fields
    <3>1. pc'[t] = "store" => counting[t] \in Remaining /\ counting[t] # << >>
      BY DEF LockStats, Load, Quit, Answer, RunnersInv, TypeOK
    <3> QED BY <3>1, RemainingFacts
  <2>2. Untouched' <=> Untouched
    BY <1>1 DEF Untouched, readerVars
  <2>3. ASSUME NEW u \in Threads, pc'[u] = "store"
        PROVE  /\ loaded'[u] <= own[u][Head(counting'[u])]
               /\ Untouched => loaded'[u] = own[u][Head(counting'[u])]
    <3>1. CASE u = t
      BY <1>1, <2>1, <2>3, <3>1 DEF SharesInv
    <3>2. CASE u # t
      BY <1>1, <2>3, <3>2 DEF SharesInv
    <3> QED BY <3>1, <3>2
  <2> QED BY <1>1, <2>2, <2>3 DEF SharesInv, Column
<1>3. SumsInv(own)' /\ IntervalsInv(own)'
  BY <1>1 DEF SumsInv, IntervalsInv, readerVars, Column
<1>4. CommitsInv(own, other)'
  <2> DEFINE C == Cardinality(At(Threads, counting, {<<"other_ops">>}))
             D == Cardinality(At(Threads, counting', {<<"other_ops">>}))
  <2>1. C \in Nat /\ D \in Nat /\ others \in Nat
    BY CountingNat DEF TypeOK
  <2>2. ASSUME counting' = counting, others' = others
        PROVE  /\ others' \in Nat /\ others' >= others /\ D - C <= others' - others
               /\ counting'[t] # <<"transactions">> \/ counting'[t] = counting[t]
    <3>1. D = C
      BY <2>2
    <3> HIDE DEF C, D
    <3> QED BY <2>1, <2>2, <3>1
  <2>3. /\ others' \in Nat /\ others' >= others /\ D - C <= others' - others
        /\ counting'[t] # <<"transactions">> \/ counting'[t] = counting[t]
        /\ counting[t] = <<"transactions">> => counting'[t] = counting[t]
    <3>1. CASE LockStats(t) \/ Load(t) \/ Quit(t)
      BY <2>2, <3>1 DEF LockStats, Load, Quit, historyVars
    <3>2. ASSUME NEW o \in QueryTypes \cup DriverErrors, Answer(t, o)
          PROVE  /\ others' \in Nat /\ others' >= others
                 /\ D - C <= others' - others
                 /\ counting'[t] # <<"transactions">> \/ counting'[t] = counting[t]
                 /\ counting[t] = <<"transactions">> => counting'[t] = counting[t]
      <4>1. CASE o = "FAILED"
        BY <2>2, <3>2, <4>1, Zenon DEF Answer
      <4>2. CASE o # "FAILED"
        <5>1. /\ counting' = [counting EXCEPT ![t] = Counted(o)]
              /\ others' = IF o = "OTHER" THEN others + 1 ELSE others
              /\ pc[t] = "idle"
          BY <3>2, <4>2, Zenon DEF Answer
        <5>2. /\ counting'[t] = Counted(o) /\ counting[t] = << >>
              /\ Counted(o) # <<"transactions">>
              /\ Counted(o) = <<"other_ops">> <=> o = "OTHER"
          BY <4>2, <5>1, CountedFacts DEF TypeOK, RunnersInv
        <5>3. counting[t] # <<"other_ops">> /\ counting[t] # <<"transactions">>
          BY <5>2
        <5>4. D = C + (IF counting'[t] \in {<<"other_ops">>} THEN 1 ELSE 0)
                    - (IF counting[t] \in {<<"other_ops">>} THEN 1 ELSE 0)
          BY <1>1, CountingCount
        <5>5. D = C + (IF o = "OTHER" THEN 1 ELSE 0) - 0
          BY <5>2, <5>3, <5>4
        <5> HIDE DEF C, D
        <5>6. others' \in Nat /\ others' >= others /\ D - C <= others' - others
          BY <2>1, <5>1, <5>5
        <5> QED BY <5>2, <5>3, <5>6
      <4> QED BY <4>1, <4>2
    <3> QED BY <3>1, <3>2
  <2>4. ASSUME NEW u \in Threads
        PROVE  counting'[u] = <<"transactions">> <=> counting[u] = <<"transactions">>
    BY <1>1, <2>3
  <2>5. others' \in Nat /\ others' >= others /\ D - C <= others' - others
    BY <2>3
  <2>6. Tally(Threads, other) + D <= others'
    <3> DEFINE T == Tally(Threads, other)
    <3>1. T + C <= others /\ T \in Nat
      BY OtherFacts DEF CommitsInv
    <3> HIDE DEF C, D, T
    <3>2. \A a, b, c, x, y \in Nat :
            a + b <= x /\ c - b <= y - x => a + c <= y
      OBVIOUS
    <3>3. T + D <= others'
      BY <2>1, <2>5, <3>1, <3>2
    <3> QED BY <3>3 DEF T
  <2>7. UNCHANGED <<checkpoints, reader_pc, sums, unread>>
    BY <1>1 DEF readerVars
  <2>8. ASSUME NEW r \in Readers
        PROVE  sums[r]["other_ops"] - sums[r]["transactions"] \in Int
    <3>1. sums[r]["other_ops"] \in Int
      BY DbStatsAssumption DEF TypeOK, Fields
    <3>2. sums[r]["transactions"] \in Int
      BY DbStatsAssumption DEF TypeOK, Fields
    <3> QED BY <3>1, <3>2
  <2>9. ASSUME checkpoints' = 0, NEW r \in Readers,
               reader_pc'[r] \in {"print", "save", "reset"}
        PROVE  /\ sums'[r]["transactions"] <= sums'[r]["other_ops"]
               /\ sums'[r]["other_ops"] - sums'[r]["transactions"] <= others'
    <3>1. /\ sums[r]["transactions"] <= sums[r]["other_ops"]
          /\ sums[r]["other_ops"] - sums[r]["transactions"] <= others
      BY <2>7, <2>9 DEF CommitsInv
    <3>2. \A a \in Int : \A x, y \in Nat : a <= x /\ x <= y => a <= y
      OBVIOUS
    <3>3. sums[r]["other_ops"] - sums[r]["transactions"] <= others'
      BY <2>1, <2>5, <2>8, <3>1, <3>2
    <3> QED BY <2>7, <3>1, <3>3
  <2> QED
    BY <2>4, <2>6, <2>7, <2>9 DEF CommitsInv, At
<1> QED BY <1>2, <1>3, <1>4

(* A store adds one to the share of its runner, and one to its queries of  *)
(* type OTHER if it was one.                                               *)
LEMMA StoreShares ==
  ASSUME TypeOK, RunnersInv, QueriesInv, ReadersInv,
         NEW own, NEW other, Shares(own, other), NEW t \in Threads, Store(t)
  PROVE  \E own2 \in [Threads -> [Fields -> 0 .. MaxQueries]],
            other2 \in [Threads -> 0 .. MaxQueries] : Shares(own2, other2)'
<1> DEFINE f == Head(counting[t])
           s == counting[t]
<1>1. /\ pc[t] = "store" /\ pc'[t] # "store"
      /\ \A u \in Threads : u # t =>
           pc'[u] = pc[u] /\ counting'[u] = counting[u]
      /\ counting'[t] = Tail(s)
      /\ UNCHANGED <<loaded, queries, others, readerVars>>
  BY DEF Store, Goto, TypeOK
<1>2. s \in Remaining /\ s # << >> /\ f \in Fields
  BY <1>1, RemainingFacts DEF RunnersInv
<1>3. /\ own \in [Threads -> [Fields -> 0 .. MaxQueries]]
      /\ other \in [Threads -> 0 .. MaxQueries]
  BY DEF Shares, SharesInv, CommitsInv
<1>4. executed[f] + 1 <= MaxQueries /\ executed[f] \in Nat
  <2>1. s \in With(f)
    BY <1>2, RemainingFacts
  <2>2. Cardinality(At(Threads, counting, With(f))) # 0
    BY <2>1, CountZero, DbStatsAssumption
  <2>3. /\ Cardinality(At(Threads, counting, With(f))) \in Nat
        /\ executed[f] \in Nat /\ queries \in Nat /\ MaxQueries \in Nat
        /\ queries <= MaxQueries
    BY <1>2, CountingNat, DbStatsAssumption DEF TypeOK
  <2>4. executed[f] + Cardinality(At(Threads, counting, With(f))) <= queries
    BY <1>2 DEF QueriesInv
  <2>5. \A a, b, c, d \in Nat : a + b <= c /\ b # 0 /\ c <= d => a + 1 <= d
    OBVIOUS
  <2> QED BY <2>2, <2>3, <2>4, <2>5
<1>5. own[t][f] <= executed[f] /\ own[t][f] \in 0 .. MaxQueries
  BY <1>2, <1>3, ShareFacts DEF Shares
<1>6. own[t][f] + 1 \in 0 .. MaxQueries /\ MaxQueries \in Nat
  BY <1>4, <1>5, DbStatsAssumption
<1> HIDE DEF f, s
<1>7. PICK own2 :
        /\ own2 \in [Threads -> [Fields -> 0 .. MaxQueries]]
        /\ \A u \in Threads, g \in Fields :
             own2[u][g] = IF u = t /\ g = f THEN own[t][f] + 1 ELSE own[u][g]
  <2> DEFINE o == [u \in Threads |-> [g \in Fields |->
                    IF u = t /\ g = f THEN own[t][f] + 1 ELSE own[u][g]]]
  <2>1. o \in [Threads -> [Fields -> 0 .. MaxQueries]]
    BY <1>2, <1>3, <1>6
  <2>2. \A u \in Threads, g \in Fields :
          o[u][g] = IF u = t /\ g = f THEN own[t][f] + 1 ELSE own[u][g]
    OBVIOUS
  <2> HIDE DEF o
  <2> QED BY <2>1, <2>2
<1>8. /\ thread_stats'[t][f] = (loaded[t] + 1) % ULONG
      /\ \A g \in Fields : g # f => thread_stats'[t][g] = thread_stats[t][g]
      /\ \A u \in Threads : u # t => thread_stats'[u] = thread_stats[u]
      /\ executed'[f] = executed[f] + 1
      /\ \A g \in Fields : g # f => executed'[g] = executed[g]
  BY <1>2 DEF Store, TypeOK, f
<1>9. (loaded[t] + 1) % ULONG = loaded[t] + 1 /\ loaded[t] <= own[t][f]
  <2>1. loaded[t] <= own[t][f]
    BY <1>1 DEF Shares, SharesInv, f
  <2>2. loaded[t] \in Nat /\ ULONG \in Nat /\ ULONG > MaxQueries
    BY DbStatsAssumption DEF TypeOK
  <2>3. loaded[t] + 1 \in 0 .. ULONG - 1
    BY <1>6, <1>5, <2>1, <2>2
  <2> QED BY <2>1, <2>3, ModFacts
<1>10. reader_pc["master"] = "idle" /\ (Untouched' <=> Untouched)
  BY <1>1, RunnerReaders DEF RunnerStep, Untouched, readerVars
<1>11. ASSUME NEW u \in Threads, NEW g \in Fields
       PROVE  /\ own[u][g] \in 0 .. MaxQueries /\ own2[u][g] \in 0 .. MaxQueries
              /\ own2[u][g] = IF u = t /\ g = f THEN own[t][f] + 1 ELSE own[u][g]
              /\ own[u][g] <= own2[u][g]
  <2>1. own[u][g] \in 0 .. MaxQueries /\ own2[u][g] \in 0 .. MaxQueries
    BY <1>3, <1>7
  <2>2. own2[u][g] = IF u = t /\ g = f THEN own[t][f] + 1 ELSE own[u][g]
    BY <1>7
  <2> QED BY <2>1, <2>2, <1>6
<1>12. ASSUME NEW g \in Fields, NEW A \in SUBSET Threads
       PROVE  /\ Tally(A, Column(own, g)) <= Tally(A, Column(own2, g))
              /\ Tally(A, Column(own, g)) \in Nat
              /\ Tally(A, Column(own2, g)) \in Nat
  <2> DEFINE v == Column(own, g)
             w == Column(own2, g)
  <2>1. \A u \in A : /\ v[u] \in 0 .. MaxQueries /\ w[u] \in 0 .. MaxQueries
                     /\ v[u] <= w[u]
    BY <1>11 DEF Column
  <2>2. IsFiniteSet(A)
    BY FS_Subset, DbStatsAssumption
  <2> HIDE DEF v, w
  <2>3. \A u \in A : v[u] \in Int /\ v[u] <= w[u]
    BY <2>1, <1>6
  <2>4. Tally(A, v) <= Tally(A, w)
    BY <1>6, <2>1, <2>2, <2>3, TallyMonotone
  <2>5. Tally(A, v) \in Nat /\ Tally(A, w) \in Nat
    BY <1>6, <2>1, <2>2, TallyNat
  <2> QED BY <2>4, <2>5 DEF v, w
<1>13. SharesInv(own2)'
  <2>1. ASSUME NEW g \in Fields
        PROVE  Tally(Threads, Column(own2, g)) = executed'[g]
    <3> DEFINE v == Column(own, g)
               w == Column(own2, g)
    <3>1. Tally(Threads, v) = executed[g]
      BY DEF Shares, SharesInv
    <3>2. CASE g = f
      <4>1. w[t] = v[t] + 1
        BY <1>11, <3>2 DEF Column
      <4>2. \A u \in Threads : u # t => w[u] = v[u]
        BY <1>11, <3>2 DEF Column
      <4>3. \A u \in Threads : v[u] \in 0 .. MaxQueries /\ w[u] \in 0 .. MaxQueries
        BY <1>11, <3>2 DEF Column
      <4>4. MaxQueries \in Nat /\ IsFiniteSet(Threads)
        BY DbStatsAssumption
      <4> HIDE DEF v, w
      <4>5. Tally(Threads, w) = Tally(Threads, v) + 1
        BY <4>1, <4>2, <4>3, <4>4, TallyIncrement
      <4>6. Tally(Threads, w) = executed'[g]
        BY <1>8, <3>1, <3>2, <4>5
      <4> QED BY <4>6 DEF w
    <3>3. CASE g # f
      <4>1. \A u \in Threads : w[u] = v[u]
        BY <1>7, <3>3 DEF Column
      <4> HIDE DEF v, w
      <4>2. Tally(Threads, w) = Tally(Threads, v)
        BY <4>1, TallySame
      <4>3. Tally(Threads, w) = executed'[g]
        BY <1>8, <3>1, <3>3, <4>2
      <4> QED BY <4>3 DEF w
    <3> QED BY <3>2, <3>3
  <2>2. ASSUME NEW u \in Threads, NEW g \in Fields
        PROVE  /\ thread_stats'[u][g] <= own2[u][g]
               /\ Untouched => thread_stats'[u][g] = own2[u][g]
    <3>1. /\ thread_stats[u][g] <= own[u][g]
          /\ Untouched => thread_stats[u][g] = own[u][g]
      BY DEF Shares, SharesInv
    <3>2. CASE u = t /\ g = f
      <4>1. loaded[t] \in Nat /\ own[t][f] \in Nat
        BY <1>5, <1>6, DbStatsAssumption DEF TypeOK
      <4>2. Untouched => loaded[t] = own[t][f]
        BY <1>1 DEF Shares, SharesInv, f
      <4>3. thread_stats'[u][g] = loaded[t] + 1 /\ own2[u][g] = own[t][f] + 1
        BY <1>7, <1>8, <1>9, <3>2
      <4> QED BY <1>9, <4>1, <4>2, <4>3
    <3>3. CASE ~(u = t /\ g = f)
      BY <1>7, <1>8, <3>1, <3>3
    <3> QED BY <3>2, <3>3
  <2>3. ASSUME NEW u \in Threads, pc'[u] = "store"
        PROVE  /\ loaded'[u] <= own2[u][Head(counting'[u])]
               /\ Untouched => loaded'[u] = own2[u][Head(counting'[u])]
    <3>1. u # t /\ pc[u] = "store" /\ counting'[u] = counting[u]
          /\ loaded'[u] = loaded[u]
      BY <1>1, <2>3
    <3>2. Head(counting[u]) \in Fields
      BY <3>1, RemainingFacts DEF RunnersInv
    <3>3. own2[u][Head(counting[u])] = own[u][Head(counting[u])]
      BY <1>7, <3>1, <3>2
    <3> QED BY <3>1, <3>3 DEF Shares, SharesInv
  <2> QED BY <1>7, <1>10, <2>1, <2>2, <2>3 DEF SharesInv, Column
<1>14. UNCHANGED <<checkpoints, reader_pc, sums, unread, last, shown, others>>
  BY <1>1 DEF readerVars
<1>15. ASSUME NEW g \in Fields
       PROVE  executed'[g] >= executed[g] /\ executed[g] \in Nat /\ executed'[g] \in Nat
  <2>1. executed[g] \in Nat
    BY DEF TypeOK
  <2> QED BY <1>8, <2>1
<1>16. \A x, y, z \in Int : x <= y /\ y <= z => x <= z
  OBVIOUS
<1>17. SumsInv(own2)'
  <2>1. ASSUME NEW g \in Fields, NEW r \in Readers
        PROVE  /\ reader_pc[r] = "sum" =>
                    sums[r][g] <= Tally(Threads \ unread[r], Column(own2, g))
               /\ reader_pc[r] \in {"print", "save", "reset"} =>
                    sums[r][g] <= executed'[g]
    <3>1. sums[r][g] \in Int
      BY DbStatsAssumption DEF TypeOK
    <3>2. /\ reader_pc[r] = "sum" =>
               sums[r][g] <= Tally(Threads \ unread[r], Column(own, g))
          /\ reader_pc[r] \in {"print", "save", "reset"} =>
               sums[r][g] <= executed[g]
      BY DEF Shares, SumsInv
    <3>3. CASE reader_pc[r] = "sum"
      <4>1. /\ Tally(Threads \ unread[r], Column(own, g)) <=
                 Tally(Threads \ unread[r], Column(own2, g))
            /\ Tally(Threads \ unread[r], Column(own, g)) \in Int
            /\ Tally(Threads \ unread[r], Column(own2, g)) \in Int
        BY <1>12
      <4> QED BY <1>16, <3>1, <3>2, <3>3, <4>1
    <3>4. CASE reader_pc[r] \in {"print", "save", "reset"}
      BY <1>15, <1>16, <3>1, <3>2, <3>4
    <3> QED BY <3>3, <3>4
  <2> QED BY <1>10, <1>14, <2>1 DEF SumsInv, Column
<1>18. IntervalsInv(own2)'
  <2>1. ASSUME checkpoints = 0, reader_pc["master"] = "idle", NEW g \in LastFields
        PROVE  /\ last[g] <= executed'[g]
               /\ reader_pc["report"] = "sum" =>
                    last[g] <= sums["report"][g]
                                 + Tally(unread["report"], Column(own2, g))
    <3>1. /\ last[g] \in Int /\ sums["report"][g] \in Int
          /\ unread["report"] \in SUBSET Threads /\ g \in Fields
      BY DbStatsAssumption DEF TypeOK, LastFields, Readers
    <3>2. /\ last[g] <= executed[g]
          /\ reader_pc["report"] = "sum" =>
               last[g] <= sums["report"][g]
                            + Tally(unread["report"], Column(own, g))
      BY <2>1 DEF Shares, IntervalsInv
    <3>3. /\ Tally(unread["report"], Column(own, g)) <=
               Tally(unread["report"], Column(own2, g))
          /\ Tally(unread["report"], Column(own, g)) \in Int
          /\ Tally(unread["report"], Column(own2, g)) \in Int
      BY <1>12, <3>1
    <3>4. last[g] <= executed'[g]
      BY <1>15, <1>16, <3>1, <3>2
    <3>5. \A l, m, x, y \in Int : l <= m + x /\ x <= y => l <= m + y
      OBVIOUS
    <3> QED BY <3>1, <3>2, <3>3, <3>4, <3>5
  <2> QED BY <1>14, <2>1 DEF Shares, IntervalsInv, Column
<1>19. \A u \in Threads :
         own[u]["other_ops"] = own[u]["transactions"] + other[u]
           + (IF counting[u] = <<"transactions">> THEN 1 ELSE 0)
  BY DEF Shares, CommitsInv
<1>20. PICK other2 :
         /\ DOMAIN other2 = Threads /\ other2 = [u \in Threads |-> other2[u]]
         /\ other2[t] = IF s = <<"other_ops">> THEN other[t] + 1 ELSE other[t]
         /\ \A u \in Threads : u # t => other2[u] = other[u]
  <2> DEFINE o == [u \in Threads |-> IF u = t /\ s = <<"other_ops">>
                                       THEN other[u] + 1 ELSE other[u]]
  <2>1. /\ DOMAIN o = Threads /\ o = [u \in Threads |-> o[u]]
        /\ o[t] = IF s = <<"other_ops">> THEN other[t] + 1 ELSE other[t]
        /\ \A u \in Threads : u # t => o[u] = other[u]
    OBVIOUS
  <2> HIDE DEF o
  <2> QED BY <2>1
<1>21. own2[t]["other_ops"] = own2[t]["transactions"] + other2[t]
         + (IF counting'[t] = <<"transactions">> THEN 1 ELSE 0)
  <2> DEFINE a == own[t]["other_ops"]
             b == own[t]["transactions"]
             c == other[t]
  <2>1. a \in Int /\ b \in Int /\ c \in Int
    <3>1. own[t] \in [Fields -> 0 .. MaxQueries]
      BY <1>3
    <3>2. a \in 0 .. MaxQueries
      BY <3>1 DEF Fields
    <3>3. b \in 0 .. MaxQueries
      BY <3>1 DEF Fields
    <3> QED BY <1>3, <1>6, <3>2, <3>3
  <2>2. a = b + c + (IF s = <<"transactions">> THEN 1 ELSE 0)
    BY <1>19 DEF s
  <2>3. CASE s = <<"other_ops", "transactions">>
    <3>1. f = "other_ops" /\ counting'[t] = <<"transactions">>
      BY <1>1, <2>3, CommitFacts DEF f, s
    <3>2. s # <<"transactions">> /\ s # <<"other_ops">>
      BY <2>3
    <3>3. own2[t]["other_ops"] = a + 1 /\ own2[t]["transactions"] = b /\ other2[t] = c
      BY <1>7, <1>20, <3>1, <3>2 DEF Fields
    <3> HIDE DEF a, b, c
    <3> QED BY <2>1, <2>2, <3>1, <3>2, <3>3
  <2>4. CASE s = <<"transactions">>
    <3>1. f = "transactions" /\ counting'[t] = << >>
      BY <1>1, <2>4, CommitFacts DEF f, s
    <3>2. s # <<"other_ops">> /\ counting'[t] # <<"transactions">>
      BY <2>4, <3>1
    <3>3. own2[t]["other_ops"] = a /\ own2[t]["transactions"] = b + 1 /\ other2[t] = c
      BY <1>7, <1>20, <3>1, <3>2 DEF Fields
    <3> HIDE DEF a, b, c
    <3> QED BY <2>1, <2>2, <2>4, <3>2, <3>3
  <2>5. CASE s = <<"other_ops">>
    <3>1. f = "other_ops" /\ counting'[t] = << >>
      BY <1>1, <2>5, CommitFacts DEF f, s
    <3>2. s # <<"transactions">> /\ counting'[t] # <<"transactions">>
      BY <2>5, <3>1
    <3>3. own2[t]["other_ops"] = a + 1 /\ own2[t]["transactions"] = b
          /\ other2[t] = c + 1
      BY <1>7, <1>20, <2>5, <3>1 DEF Fields
    <3> HIDE DEF a, b, c
    <3> QED BY <2>1, <2>2, <3>2, <3>3
  <2>6. CASE s \notin {<<"other_ops", "transactions">>, <<"transactions">>,
                       <<"other_ops">>}
    <3>1. f \notin {"other_ops", "transactions"} /\ counting'[t] # <<"transactions">>
      <4>1. s \in {<<"read_ops">>, <<"write_ops">>, <<"reconnects">>, <<"errors">>}
        BY <1>2, <2>6 DEF Remaining
      <4>2. f \notin {"other_ops", "transactions"}
        BY <4>1 DEF f, s
      <4>3. counting'[t] # <<"transactions">>
        BY <1>1, <1>2, <2>6, CommitFacts
      <4> QED BY <4>2, <4>3
    <3>2. s # <<"other_ops">> /\ s # <<"transactions">>
      BY <2>6
    <3>3. own2[t]["other_ops"] = a /\ own2[t]["transactions"] = b /\ other2[t] = c
      BY <1>7, <1>20, <3>1, <3>2 DEF Fields
    <3> HIDE DEF a, b, c
    <3> QED BY <2>1, <2>2, <3>1, <3>2, <3>3
  <2> QED BY <2>3, <2>4, <2>5, <2>6
<1>22. other2[t] \in 0 .. MaxQueries
  <2>1. own2[t] \in [Fields -> 0 .. MaxQueries]
    BY <1>7
  <2>2. own2[t]["other_ops"] \in 0 .. MaxQueries
    BY <2>1 DEF Fields
  <2>3. own2[t]["transactions"] \in 0 .. MaxQueries
    BY <2>1 DEF Fields
  <2>4. other2[t] \in Nat
    BY <1>3, <1>6, <1>20
  <2>5. \A a, b \in 0 .. MaxQueries : \A c, d \in Nat :
          a = b + c + d => c \in 0 .. MaxQueries
    BY <1>6
  <2>6. (IF counting'[t] = <<"transactions">> THEN 1 ELSE 0) \in Nat
    OBVIOUS
  <2> QED BY <1>21, <2>2, <2>3, <2>4, <2>5, <2>6
<1>23. other2 \in [Threads -> 0 .. MaxQueries]
  BY <1>3, <1>20, <1>22
<1>24. \A u \in Threads : other[u] \in Int /\ other2[u] \in Int /\ other[u] <= other2[u]
  BY <1>3, <1>6, <1>20
<1>25. ASSUME NEW A \in SUBSET Threads
       PROVE  /\ Tally(A, other) <= Tally(A, other2)
              /\ Tally(A, other) \in Int /\ Tally(A, other2) \in Int
  <2>1. IsFiniteSet(A)
    BY FS_Subset, DbStatsAssumption
  <2>2. \A u \in A : /\ other[u] \in 0 .. MaxQueries /\ other2[u] \in 0 .. MaxQueries
                     /\ other[u] \in Int /\ other[u] <= other2[u]
    BY <1>3, <1>23, <1>24
  <2>3. Tally(A, other) <= Tally(A, other2)
    BY <1>6, <2>1, <2>2, TallyMonotone
  <2>4. Tally(A, other) \in Nat /\ Tally(A, other2) \in Nat
    BY <1>6, <2>1, <2>2, TallyNat
  <2> QED BY <2>3, <2>4
<1>26. Tally(Threads, other2)
         + Cardinality(At(Threads, counting', {<<"other_ops">>})) <= others
  <2> DEFINE C == Cardinality(At(Threads, counting, {<<"other_ops">>}))
             D == Cardinality(At(Threads, counting', {<<"other_ops">>}))
             S == Tally(Threads, other)
             T == Tally(Threads, other2)
  <2>1. /\ C \in Nat /\ D \in Nat /\ others \in Nat /\ S \in Int /\ T \in Int
    BY <1>25, CountingNat DEF TypeOK
  <2>2. S + C <= others
    BY DEF Shares, CommitsInv
  <2>3. D = C + (IF counting'[t] \in {<<"other_ops">>} THEN 1 ELSE 0)
              - (IF counting[t] \in {<<"other_ops">>} THEN 1 ELSE 0)
    BY <1>1, CountingCount
  <2>4. counting'[t] # <<"other_ops">>
    <3>1. Tail(s) # <<"other_ops">>
      BY <1>2, RemainingFacts
    <3> QED BY <1>1, <3>1
  <2>5. CASE s = <<"other_ops">>
    <3>1. /\ other2[t] = other[t] + 1
          /\ \A u \in Threads : /\ other[u] \in 0 .. MaxQueries
                                 /\ other2[u] \in 0 .. MaxQueries
      BY <1>3, <1>20, <1>23, <2>5
    <3>2. T = S + 1
      BY <1>6, <1>20, <3>1, TallyIncrement, DbStatsAssumption
    <3>3. counting[t] = <<"other_ops">>
      BY <2>5 DEF s
    <3>4. D = C + 0 - 1
      BY <2>3, <2>4, <3>3
    <3> HIDE DEF C, D, S, T
    <3>5. \A x, y \in Int : \A c, d, o \in Nat :
            x + c <= o /\ y = x + 1 /\ d = c + 0 - 1 => y + d <= o
      OBVIOUS
    <3>6. T + D <= others
      BY <2>1, <2>2, <3>2, <3>4, <3>5
    <3> QED BY <3>6 DEF T, D
  <2>6. CASE s # <<"other_ops">>
    <3>1. T = S
      BY <1>20, <2>6, TallySame
    <3>2. counting[t] # <<"other_ops">>
      BY <2>6 DEF s
    <3>3. D = C + 0 - 0
      BY <2>3, <2>4, <3>2
    <3> HIDE DEF C, D, S, T
    <3>4. T + D <= others
      BY <2>1, <2>2, <3>1, <3>3
    <3> QED BY <3>4 DEF T, D
  <2> QED BY <2>5, <2>6
<1>27. CommitsInv(own2, other2)'
  <2>1. ASSUME NEW u \in Threads
        PROVE  own2[u]["other_ops"] = own2[u]["transactions"] + other2[u]
                 + (IF counting'[u] = <<"transactions">> THEN 1 ELSE 0)
    <3>1. CASE u = t
      BY <1>21, <3>1
    <3>2. CASE u # t
      <4>1. /\ own2[u]["other_ops"] = own[u]["other_ops"]
            /\ own2[u]["transactions"] = own[u]["transactions"]
        BY <1>7, <3>2 DEF Fields
      <4>2. counting'[u] = counting[u] /\ other2[u] = other[u]
        BY <1>1, <1>20, <3>2
      <4> QED BY <1>19, <4>1, <4>2
    <3> QED BY <3>1, <3>2
  <2>2. ASSUME checkpoints = 0, NEW r \in Readers, reader_pc[r] = "sum"
        PROVE  sums[r]["other_ops"] - sums[r]["transactions"] <=
                 Tally(Threads \ unread[r], other2)
    <3>1. sums[r]["other_ops"] \in Int
      BY DbStatsAssumption DEF TypeOK, Fields
    <3>2. sums[r]["transactions"] \in Int
      BY DbStatsAssumption DEF TypeOK, Fields
    <3>3. sums[r]["other_ops"] - sums[r]["transactions"] \in Int
      BY <3>1, <3>2
    <3>4. sums[r]["other_ops"] - sums[r]["transactions"] <=
            Tally(Threads \ unread[r], other)
      BY <2>2 DEF Shares, CommitsInv
    <3>5. /\ Tally(Threads \ unread[r], other) \in Int
          /\ Tally(Threads \ unread[r], other2) \in Int
          /\ Tally(Threads \ unread[r], other) <= Tally(Threads \ unread[r], other2)
      BY <1>25
    <3> QED BY <1>16, <3>3, <3>4, <3>5
  <2>3. ASSUME checkpoints = 0, NEW r \in Readers
        PROVE  /\ reader_pc[r] = "sum" =>
                    sums[r]["transactions"] <= sums[r]["other_ops"]
               /\ reader_pc[r] \in {"print", "save", "reset"} =>
                    /\ sums[r]["transactions"] <= sums[r]["other_ops"]
                    /\ sums[r]["other_ops"] - sums[r]["transactions"] <= others
    BY <2>3 DEF Shares, CommitsInv
  <2>4. /\ checkpoints' = checkpoints /\ reader_pc' = reader_pc /\ sums' = sums
        /\ unread' = unread /\ others' = others
    BY <1>14
  <2> QED BY <1>23, <1>26, <2>1, <2>2, <2>3, <2>4 DEF CommitsInv, At
<1>28. Shares(own2, other2)'
  BY <1>13, <1>17, <1>18, <1>27 DEF Shares
<1> QED BY <1>7, <1>23, <1>28
-----------------------------------------------------------------------------
(* A reader's step changes no slot and no share but by a reset, and after  *)
(* a reset the slots are not untouched any more.                           *)
LEMMA ReaderSlots ==
  ASSUME TypeOK, RunnersInv, ReadersInv, NEW own, SharesInv(own),
         NEW r \in Readers, ReaderStep(r)
  PROVE  /\ SharesInv(own)'
         /\ UNCHANGED <<executed, others, counting, queries>>
         /\ checkpoints' = 0 => checkpoints = 0
<1> USE DEF ReaderGoto
<1>1. /\ UNCHANGED <<stat_mutex, pc, counting, loaded, queries, executed, others>>
      /\ checkpoints' = 0 => checkpoints = 0
      /\ reader_pc'["master"] \in {"idle", "sum", "print"} =>
           reader_pc["master"] \in {"idle", "sum", "print"}
  <2>1. UNCHANGED <<stat_mutex, pc, counting, loaded, queries, executed, others>>
    BY DEF ReaderStep, Begin, Sum, ResetSlot, PrintIntermediate, SaveLast,
       PrintCumulative, ResetLast, runnerVars, historyVars
  <2>2. checkpoints' = 0 => checkpoints = 0
    BY DEF ReaderStep, Begin, Sum, ResetSlot, PrintIntermediate, SaveLast,
       PrintCumulative, ResetLast, TypeOK
  <2>3. reader_pc'["master"] \in {"idle", "sum", "print"} =>
          reader_pc["master"] \in {"idle", "sum", "print"}
    BY DEF ReaderStep, Begin, Sum, ResetSlot, PrintIntermediate, SaveLast,
       PrintCumulative, ResetLast, TypeOK, Readers
  <2> QED BY <2>1, <2>2, <2>3
<1>2. Untouched' => Untouched
  BY <1>1 DEF Untouched
<1>3. /\ own \in [Threads -> [Fields -> 0 .. MaxQueries]]
      /\ \A f \in Fields : Tally(Threads, Column(own, f)) = executed'[f]
      /\ \A t \in Threads : pc'[t] = "store" =>
           /\ loaded'[t] <= own[t][Head(counting'[t])]
           /\ Untouched' => loaded'[t] = own[t][Head(counting'[t])]
  BY <1>1, <1>2 DEF SharesInv
<1>4. ASSUME NEW t \in Threads, NEW f \in Fields
      PROVE  /\ thread_stats'[t][f] <= own[t][f]
             /\ Untouched' => thread_stats'[t][f] = own[t][f]
  <2>1. CASE thread_stats' = thread_stats
    BY <1>2, <2>1 DEF SharesInv
  <2>2. ASSUME NEW u \in Threads, ResetSlot(r, u)
        PROVE  /\ thread_stats'[t][f] <= own[t][f]
               /\ Untouched' => thread_stats'[t][f] = own[t][f]
    <3>1. thread_stats'[t][f] \in {0, thread_stats[t][f]}
      BY <2>2 DEF ResetSlot, TypeOK, Zero
    <3>2. ~Untouched'
      BY <2>2 DEF ResetSlot, ReadersInv, Untouched, Readers, TypeOK
    <3>3. own[t][f] \in Nat /\ thread_stats[t][f] <= own[t][f]
      BY DbStatsAssumption DEF SharesInv
    <3> QED BY <3>1, <3>2, <3>3
  <2> QED
    BY <2>1, <2>2 DEF ReaderStep, Begin, Sum, PrintIntermediate, SaveLast,
       PrintCumulative, ResetLast, runnerVars
<1>5. SharesInv(own)'
  BY <1>3, <1>4 DEF SharesInv, Column
<1> QED BY <1>1, <1>5

(* What a step of reader r has to show of its own sums. *)
SumsOf(own, r) ==
  \A f \in Fields :
    /\ reader_pc[r] = "sum" =>
         sums[r][f] <= Tally(Threads \ unread[r], Column(own, f))
    /\ reader_pc[r] \in {"print", "save", "reset"} =>
         sums[r][f] <= executed[f]
    /\ checkpoints = 0 /\ r = "master" =>
         /\ reader_pc[r] = "sum" =>
              sums[r][f] = Tally(Threads \ unread[r], Column(own, f))
         /\ reader_pc[r] \in {"print", "reset"} => sums[r][f] = executed[f]

CommitsOf(other, r) ==
  checkpoints = 0 =>
    /\ reader_pc[r] = "sum" =>
         /\ sums[r]["transactions"] <= sums[r]["other_ops"]
         /\ sums[r]["other_ops"] - sums[r]["transactions"] <=
              Tally(Threads \ unread[r], other)
    /\ reader_pc[r] \in {"print", "save", "reset"} =>
         /\ sums[r]["transactions"] <= sums[r]["other_ops"]
         /\ sums[r]["other_ops"] - sums[r]["transactions"] <= others

(* The readers' parts of the invariant, reader by reader. *)
LEMMA SumsByReader ==
  ASSUME NEW own
  PROVE  /\ SumsInv(own) <=> \A r \in Readers : SumsOf(own, r)
         /\ SumsInv(own)' <=> \A r \in Readers : SumsOf(own, r)'
BY DEF SumsInv, SumsOf, Readers, Column

(* A reader's step leaves the sums of the other readers alone. *)
LEMMA OtherReaders ==
  ASSUME TypeOK, RunnersInv, ReadersInv, NEW own, NEW other,
         SharesInv(own), SumsInv(own), CommitsInv(own, other),
         NEW r \in Readers, ReaderStep(r), SumsOf(own, r)', CommitsOf(other, r)'
  PROVE  SumsInv(own)' /\ CommitsInv(own, other)'
<1>1. /\ UNCHANGED <<executed, others, counting>>
      /\ checkpoints' = 0 => checkpoints = 0
  BY ReaderSlots
<1>2. ASSUME NEW q \in Readers, q # r
      PROVE  reader_pc'[q] = reader_pc[q] /\ unread'[q] = unread[q]
               /\ sums'[q] = sums[q]
  BY <1>2 DEF ReaderStep, Begin, Sum, ResetSlot, PrintIntermediate, SaveLast,
     PrintCumulative, ResetLast, ReaderGoto, TypeOK
<1>3. ASSUME NEW q \in Readers
      PROVE  SumsOf(own, q)' /\ CommitsOf(other, q)'
  <2>1. CASE q = r
    BY <2>1
  <2>2. CASE q # r
    <3>1. SumsOf(own, q) /\ CommitsOf(other, q)
      BY SumsByReader DEF CommitsInv, CommitsOf
    <3>2. SumsOf(own, q)'
      BY <1>1, <1>2, <2>2, <3>1 DEF SumsOf, Column
    <3>3. CommitsOf(other, q)'
      BY <1>1, <1>2, <2>2, <3>1 DEF CommitsOf
    <3> QED BY <3>2, <3>3
  <2> QED BY <2>1, <2>2
<1>4. SumsInv(own)'
  BY <1>3, SumsByReader
<1>5. CommitsInv(own, other)'
  BY <1>1, <1>3 DEF CommitsInv, CommitsOf, At
<1> QED BY <1>4, <1>5

(* A reader that begins has summed nothing. *)
LEMMA BeginShares ==
  ASSUME TypeOK, RunnersInv, QueriesInv, ReadersInv, NEW own, NEW other,
         Shares(own, other), NEW r \in Readers, Begin(r)
  PROVE  Shares(own, other)'
<1>1. /\ reader_pc[r] = "idle" /\ reader_pc'[r] = "sum"
      /\ \A q \in Readers : q # r => reader_pc'[q] = reader_pc[q]
      /\ unread'[r] = Threads /\ sums'[r] = Zero
      /\ UNCHANGED <<last, shown, executed>>
  BY DEF Begin, ReaderGoto, TypeOK, runnerVars, historyVars
<1>2. /\ Threads \ unread'[r] = {}
      /\ \A v : Tally({}, v) = 0
      /\ \A f \in Fields : sums'[r][f] = 0
  BY <1>1, TallyEmpty DEF Zero
<1>3. SumsOf(own, r)'
  <2>1. \A f \in Fields : Tally(Threads \ unread'[r], Column(own, f)) = 0
    BY <1>2
  <2>2. \A f \in Fields : sums'[r][f] = 0
    BY <1>2
  <2>3. reader_pc'[r] = "sum"
    BY <1>1
  <2>4. 0 <= 0
    OBVIOUS
  <2>5. ASSUME NEW f \in Fields
        PROVE  /\ sums'[r][f] <= Tally(Threads \ unread'[r], Column(own, f))
               /\ sums'[r][f] = Tally(Threads \ unread'[r], Column(own, f))
    BY <2>1, <2>2, <2>4
  <2> QED BY <2>3, <2>5 DEF SumsOf, Column
<1>4. CommitsOf(other, r)'
  BY <1>1, <1>2 DEF CommitsOf, Fields
<1>5. SharesInv(own)' /\ SumsInv(own)' /\ CommitsInv(own, other)'
  BY <1>3, <1>4, ReaderSlots, OtherReaders DEF Shares, ReaderStep
<1>6. IntervalsInv(own)'
  <2>1. SUFFICES ASSUME checkpoints' = 0, reader_pc'["master"] = "idle",
                        NEW f \in LastFields
                 PROVE  /\ shown'[f] = IF reader_pc'["report"] = "save"
                                         THEN sums'["report"][f] ELSE last'[f]
                        /\ last'[f] <= executed'[f]
                        /\ reader_pc'["report"] = "sum" =>
                             last'[f] <= sums'["report"][f]
                               + Tally(unread'["report"], Column(own, f))
                        /\ reader_pc'["report"] = "print" =>
                             last'[f] <= sums'["report"][f]
    BY DEF IntervalsInv, Column
  <2>2. r = "report"
    BY <1>1, <2>1 DEF Begin, Readers, TypeOK
  <2>3. checkpoints = 0 /\ reader_pc["master"] = "idle"
    BY <1>1, <2>1, <2>2 DEF Begin, Readers
  <2>4. shown[f] = last[f] /\ last[f] <= executed[f]
    BY <1>1, <2>2, <2>3 DEF Shares, IntervalsInv
  <2>5. /\ Tally(Threads, Column(own, f)) = executed[f]
        /\ last[f] \in Int /\ executed[f] \in Int /\ f \in Fields
    BY DbStatsAssumption DEF Shares, SharesInv, LastFields, TypeOK
  <2>6. last[f] <= 0 + executed[f]
    BY <2>4, <2>5
  <2> QED BY <1>1, <1>2, <2>2, <2>4, <2>5, <2>6
<1> QED BY <1>5, <1>6 DEF Shares

(* A reader that adds a slot. *)
LEMMA SumFacts ==
  ASSUME TypeOK, QueriesInv, NEW own, SharesInv(own), SumsInv(own),
         NEW r \in Readers, NEW t \in Threads, Sum(r, t), NEW f \in Fields,
         NEW A, A = Threads \ unread[r], NEW U, U = unread[r] \ {t}
  PROVE  /\ sums'[r][f] = sums[r][f] + thread_stats[t][f]
         /\ sums[r][f] \in Nat /\ thread_stats[t][f] \in Nat
         /\ own[t][f] \in Nat
         /\ thread_stats[t][f] <= own[t][f]
         /\ Tally(A \cup {t}, Column(own, f)) =
              Tally(A, Column(own, f)) + own[t][f]
         /\ Tally(A, Column(own, f)) \in Nat
         /\ Tally(unread[r], Column(own, f)) =
              Tally(U, Column(own, f)) + own[t][f]
         /\ Tally(U, Column(own, f)) \in Nat
<1> DEFINE v == Column(own, f)
<1>1. /\ t \in unread[r] /\ unread[r] \in SUBSET Threads
      /\ reader_pc[r] = "sum" /\ t \notin A
      /\ sums'[r][f] = (sums[r][f] + thread_stats[t][f]) % ULONG
  BY DEF Sum, ReaderGoto, TypeOK
<1>2. /\ sums[r][f] \in Nat /\ thread_stats[t][f] \in Nat /\ own[t][f] \in Nat
  <2>1. sums[r][f] \in Nat
    BY DbStatsAssumption DEF TypeOK
  <2>2. thread_stats[t][f] \in Nat
    BY DbStatsAssumption DEF TypeOK
  <2>3. own[t][f] \in Nat
    BY DbStatsAssumption DEF SharesInv
  <2> QED BY <2>1, <2>2, <2>3
<1>3. sums[r][f] <= Tally(A, v) /\ thread_stats[t][f] <= own[t][f]
  BY <1>1 DEF SumsInv, SharesInv
<1>4. /\ \A u \in Threads : v[u] \in 0 .. MaxQueries
      /\ v[t] = own[t][f] /\ MaxQueries \in Nat
      /\ executed[f] <= MaxQueries /\ executed[f] \in Nat
      /\ \A B \in SUBSET Threads :
           IsFiniteSet(B) /\ Tally(B, v) \in Nat /\ Tally(B, v) <= executed[f]
  <2>1. /\ executed[f] <= queries /\ queries <= MaxQueries /\ queries \in Nat
        /\ executed[f] \in Nat /\ MaxQueries \in Nat
    BY ShareFacts, DbStatsAssumption DEF TypeOK
  <2>2. executed[f] <= MaxQueries
    BY <2>1
  <2> QED BY <2>1, <2>2, ShareFacts
<1> HIDE DEF v
<1>5. Tally(A \cup {t}, v) = Tally(A, v) + own[t][f]
  <2>1. \A u \in A \cup {t} : v[u] \in 0 .. MaxQueries
    BY <1>4
  <2>2. MaxQueries \in Nat /\ IsFiniteSet(A) /\ t \notin A
    BY <1>1, <1>4
  <2>3. Tally(A \cup {t}, v) = Tally(A, v) + v[t]
    BY ONLY <2>1, <2>2, TallyAdd
  <2> QED BY <1>4, <2>3
<1>6. /\ Tally(unread[r], v) = Tally(unread[r] \ {t}, v) + own[t][f]
      /\ Tally(unread[r] \ {t}, v) \in Nat
  <2>1. \A u \in unread[r] : v[u] \in 0 .. MaxQueries
    BY <1>1, <1>4
  <2>2. IsFiniteSet(unread[r])
    BY <1>1, <1>4
  <2> QED BY <1>1, <1>4, <2>1, <2>2, TallyTake
<1>7. sums[r][f] + thread_stats[t][f] \in 0 .. ULONG - 1
  <2>1. A \cup {t} \in SUBSET Threads /\ A \in SUBSET Threads
    OBVIOUS
  <2>2. Tally(A, v) + own[t][f] <= executed[f] /\ Tally(A, v) \in Nat
    BY <1>4, <1>5, <2>1
  <2>3. \A a, b, c, d, e, m, w \in Nat :
          a <= b /\ c <= d /\ b + d <= e /\ e <= m /\ w > m =>
            a + c \in 0 .. w - 1
    OBVIOUS
  <2> QED BY <1>2, <1>3, <1>4, <2>2, <2>3, DbStatsAssumption
<1>8. sums'[r][f] = sums[r][f] + thread_stats[t][f]
  BY <1>1, <1>7, ModFacts
<1>9. Tally(A, v) \in Nat
  BY <1>4
<1> QED BY <1>2, <1>3, <1>5, <1>6, <1>8, <1>9 DEF v

(* The same for the queries of type OTHER: a reader sees no commit that is *)
(* half counted, because its runner holds the mutex of the slot.           *)
LEMMA SumOthers ==
  ASSUME TypeOK, RunnersInv, NEW own, NEW other, SharesInv(own),
         CommitsInv(own, other), NEW r \in Readers, NEW t \in Threads,
         Sum(r, t)
  PROVE  /\ own[t]["other_ops"] = own[t]["transactions"] + other[t]
         /\ own[t]["transactions"] \in Nat /\ other[t] \in Nat
         /\ Tally((Threads \ unread[r]) \cup {t}, other) =
              Tally(Threads \ unread[r], other) + other[t]
         /\ Tally(Threads \ unread[r], other) \in Nat
<1> DEFINE A == Threads \ unread[r]
<1>1. t \in unread[r] /\ stat_mutex[t] # t
  BY DbStatsAssumption DEF Sum
<1>2. counting[t] # <<"transactions">>
  BY <1>1, CommitFacts DEF RunnersInv
<1>3. own[t]["transactions"] \in Nat
  BY DbStatsAssumption DEF SharesInv, Fields
<1>4. /\ other[t] \in Nat /\ MaxQueries \in Nat
      /\ \A u \in A \cup {t} : other[u] \in 0 .. MaxQueries
  BY DbStatsAssumption DEF CommitsInv
<1>5. own[t]["other_ops"] = own[t]["transactions"] + other[t] + 0
  BY <1>2 DEF CommitsInv
<1>6. IsFiniteSet(A) /\ Tally(A, other) \in Nat /\ t \notin A
  BY <1>1, OtherFacts
<1>7. Tally(A \cup {t}, other) = Tally(A, other) + other[t]
  <2> HIDE DEF A
  <2>1. \A u \in A \cup {t} : other[u] \in 0 .. MaxQueries
    BY <1>4
  <2>2. MaxQueries \in Nat /\ IsFiniteSet(A) /\ t \notin A
    BY <1>4, <1>6
  <2> QED BY ONLY <2>1, <2>2, TallyAdd
<1> QED BY <1>3, <1>4, <1>5, <1>6, <1>7

(* A reader that adds a slot keeps the shares. *)
LEMMA SumShares ==
  ASSUME TypeOK, RunnersInv, QueriesInv, ReadersInv, NEW own, NEW other,
         Shares(own, other), NEW r \in Readers, NEW t \in Threads, Sum(r, t)
  PROVE  Shares(own, other)'
<1>0. PICK A, B, U : A = Threads \ unread[r] /\ B = A \cup {t}
                      /\ U = unread[r] \ {t}
  OBVIOUS
<1>1. /\ SharesInv(own) /\ SumsInv(own) /\ IntervalsInv(own)
      /\ CommitsInv(own, other) /\ ReaderStep(r)
  BY DEF Shares, ReaderStep
<1>2. /\ reader_pc[r] = "sum" /\ t \in unread[r] /\ unread[r] \in SUBSET Threads
      /\ reader_pc'[r] = IF unread[r] = {t} THEN "print" ELSE "sum"
      /\ \A q \in Readers : q # r => reader_pc'[q] = reader_pc[q]
      /\ unread'[r] = unread[r] \ {t}
      /\ UNCHANGED <<last, shown, executed, others, checkpoints>>
  BY DEF Sum, ReaderGoto, TypeOK, runnerVars, historyVars
<1>3. /\ Threads \ unread'[r] = B
      /\ reader_pc'[r] = "print" => B = Threads /\ unread'[r] = {}
  BY <1>0, <1>2
<1>4. ASSUME NEW f \in Fields
      PROVE  /\ sums'[r][f] = sums[r][f] + thread_stats[t][f]
             /\ sums[r][f] \in Nat /\ thread_stats[t][f] \in Nat
             /\ own[t][f] \in Nat
             /\ thread_stats[t][f] <= own[t][f]
             /\ Tally(B, Column(own, f)) = Tally(A, Column(own, f)) + own[t][f]
             /\ Tally(A, Column(own, f)) \in Nat
             /\ Tally(unread[r], Column(own, f)) =
                  Tally(U, Column(own, f)) + own[t][f]
             /\ Tally(U, Column(own, f)) \in Nat
             /\ Tally(Threads, Column(own, f)) = executed[f]
  <2>1. Tally(Threads, Column(own, f)) = executed[f]
    BY <1>1 DEF SharesInv
  <2>2. /\ sums'[r][f] = sums[r][f] + thread_stats[t][f]
        /\ sums[r][f] \in Nat /\ thread_stats[t][f] \in Nat
        /\ own[t][f] \in Nat
        /\ thread_stats[t][f] <= own[t][f]
    BY <1>0, <1>1, SumFacts
  <2>3. /\ Tally(B, Column(own, f)) = Tally(A, Column(own, f)) + own[t][f]
        /\ Tally(A, Column(own, f)) \in Nat
    BY <1>0, <1>1, SumFacts
  <2>4. /\ Tally(unread[r], Column(own, f)) =
             Tally(U, Column(own, f)) + own[t][f]
        /\ Tally(U, Column(own, f)) \in Nat
    BY <1>1, <1>0, SumFacts
  <2> QED BY <2>1, <2>2, <2>3, <2>4
<1>5. checkpoints = 0 /\ r # "checkpoint" => Untouched
  BY <1>2 DEF Untouched, ReadersInv, Readers
<1>6. Untouched => \A f \in Fields : thread_stats[t][f] = own[t][f]
  BY <1>1 DEF SharesInv
<1>7. SumsOf(own, r)'
  <2>1. ASSUME NEW f \in Fields
        PROVE  /\ sums'[r][f] <= Tally(B, Column(own, f))
               /\ checkpoints = 0 /\ r = "master" =>
                    sums'[r][f] = Tally(B, Column(own, f))
    <3>1. sums[r][f] <= Tally(A, Column(own, f))
      BY <1>0, <1>1, <1>2 DEF SumsInv
    <3>2. \A a, b, c, d \in Nat : a <= b /\ c <= d => a + c <= b + d
      OBVIOUS
    <3>3. sums'[r][f] <= Tally(B, Column(own, f))
      BY <1>4, <3>1, <3>2
    <3>4. ASSUME checkpoints = 0, r = "master"
          PROVE  sums'[r][f] = Tally(B, Column(own, f))
      <4>1. sums[r][f] = Tally(A, Column(own, f))
        BY <1>0, <1>1, <1>2, <3>4 DEF SumsInv
      <4>2. thread_stats[t][f] = own[t][f]
        BY <1>5, <1>6, <3>4
      <4> QED BY <1>4, <4>1, <4>2
    <3> QED BY <3>3, <3>4
  <2>2. CASE reader_pc'[r] = "sum"
    BY <1>2, <1>3, <2>1, <2>2 DEF SumsOf, Column
  <2>3. CASE reader_pc'[r] = "print"
    <3>1. \A f \in Fields : Tally(B, Column(own, f)) = executed'[f]
      BY <1>2, <1>3, <1>4, <2>3
    <3>2. \A f \in Fields : sums'[r][f] <= executed'[f]
      BY <2>1, <3>1
    <3>3. \A f \in Fields : checkpoints' = 0 /\ r = "master" =>
                              sums'[r][f] = executed'[f]
      BY <1>2, <2>1, <3>1
    <3> QED BY <2>3, <3>2, <3>3 DEF SumsOf
  <2> QED BY <1>2, <2>2, <2>3
<1>8. CommitsOf(other, r)'
  <2> DEFINE x == sums[r]["other_ops"]
             y == sums[r]["transactions"]
             T == Tally(A, other)
  <2>1. SUFFICES ASSUME checkpoints' = 0
                 PROVE  CommitsOf(other, r)'
    BY DEF CommitsOf
  <2>2. r # "checkpoint" /\ checkpoints = 0
    BY <1>2, <2>1 DEF ReadersInv
  <2>3. /\ sums'[r]["other_ops"] = x + own[t]["other_ops"] /\ x \in Nat
        /\ sums'[r]["transactions"] = y + own[t]["transactions"] /\ y \in Nat
    <3>1. \A f \in Fields : sums'[r][f] = sums[r][f] + own[t][f]
                              /\ sums[r][f] \in Nat
      BY <1>4, <1>5, <1>6, <2>2
    <3> QED BY <3>1 DEF Fields
  <2>4. /\ own[t]["other_ops"] = own[t]["transactions"] + other[t]
        /\ own[t]["transactions"] \in Nat /\ other[t] \in Nat
        /\ Tally(B, other) = T + other[t] /\ T \in Nat
    BY <1>0, <1>1, SumOthers
  <2>5. y <= x /\ x - y <= T
    BY <1>0, <1>1, <1>2, <2>2 DEF CommitsInv
  <2> HIDE DEF x, y, T
  <2>6. \A a, b, c, d, e \in Nat : b <= a /\ a - b <= c =>
          b + d <= a + (d + e) /\ (a + (d + e)) - (b + d) <= c + e
    OBVIOUS
  <2>7. /\ sums'[r]["transactions"] <= sums'[r]["other_ops"]
        /\ sums'[r]["other_ops"] - sums'[r]["transactions"] <= Tally(B, other)
    BY <2>3, <2>4, <2>5, <2>6
  <2>8. CASE reader_pc'[r] = "sum"
    BY <1>3, <2>7, <2>8 DEF CommitsOf
  <2>9. CASE reader_pc'[r] = "print"
    <3>1. Tally(B, other) <= others' /\ Tally(B, other) \in Nat /\ others' \in Nat
      BY <1>1, <1>2, <1>3, <2>9, OtherFacts
    <3>2. /\ sums'[r]["other_ops"] \in Nat
          /\ sums'[r]["transactions"] \in Nat
      BY <2>3, <2>4
    <3>3. \A a, b, c, d \in Nat : a - b <= c /\ c <= d => a - b <= d
      OBVIOUS
    <3>4. sums'[r]["other_ops"] - sums'[r]["transactions"] <= others'
      BY <2>7, <3>1, <3>2, <3>3
    <3> QED BY <2>7, <2>9, <3>4 DEF CommitsOf
  <2> QED BY <1>2, <2>8, <2>9
<1>9. SharesInv(own)' /\ SumsInv(own)' /\ CommitsInv(own, other)'
  BY <1>1, <1>7, <1>8, ReaderSlots, OtherReaders
<1>10. IntervalsInv(own)'
  <2>1. SUFFICES ASSUME checkpoints' = 0, reader_pc'["master"] = "idle",
                        NEW f \in LastFields
                 PROVE  /\ shown'[f] = IF reader_pc'["report"] = "save"
                                         THEN sums'["report"][f] ELSE last'[f]
                        /\ last'[f] <= executed'[f]
                        /\ reader_pc'["report"] = "sum" =>
                             last'[f] <= sums'["report"][f]
                               + Tally(unread'["report"], Column(own, f))
                        /\ reader_pc'["report"] = "print" =>
                             last'[f] <= sums'["report"][f]
    BY DEF IntervalsInv, Column
  <2>2. r = "report" /\ checkpoints = 0 /\ f \in Fields
    BY <1>2, <2>1 DEF ReadersInv, Readers, LastFields
  <2>3. reader_pc["master"] = "idle"
    BY <1>2, <2>1, <2>2 DEF Readers
  <2>4. /\ shown[f] = last[f] /\ last[f] <= executed[f]
        /\ last[f] <= sums[r][f] + Tally(unread[r], Column(own, f))
    BY <1>1, <1>2, <2>2, <2>3 DEF IntervalsInv
  <2>5. thread_stats[t][f] = own[t][f]
    BY <1>5, <1>6, <2>2
  <2>6. last[f] \in Int
    BY DbStatsAssumption DEF TypeOK
  <2>7. \A l \in Int : \A a, b, c \in Nat : l <= a + (b + c) => l <= (a + c) + b
    OBVIOUS
  <2>8. last[f] <= sums'[r][f] + Tally(U, Column(own, f))
    <3>1. /\ sums'[r][f] = sums[r][f] + own[t][f]
          /\ sums[r][f] \in Nat /\ own[t][f] \in Nat
          /\ Tally(U, Column(own, f)) \in Nat
          /\ Tally(unread[r], Column(own, f)) =
               Tally(U, Column(own, f)) + own[t][f]
      BY <1>4, <2>2, <2>5
    <3>2. last[f] <= sums[r][f] + (Tally(U, Column(own, f))
                                     + own[t][f])
      BY <2>4, <3>1
    <3> QED BY <2>6, <2>7, <3>1, <3>2
  <2>9. reader_pc'[r] = "print" => last[f] <= sums'[r][f]
    <3>1. reader_pc'[r] = "print" =>
            Tally(U, Column(own, f)) = 0
      BY <1>0, <1>2, <1>3, TallyEmpty
    <3>2. sums'[r][f] \in Nat
      BY <1>4, <2>2
    <3>3. \A l \in Int : \A a \in Nat : l <= a + 0 => l <= a
      OBVIOUS
    <3> QED BY <2>6, <2>8, <3>1, <3>2, <3>3
  <2> QED BY <1>0, <1>2, <2>2, <2>4, <2>8, <2>9
<1> QED BY <1>9, <1>10 DEF Shares

(* The steps of a reader that has its sums: it prints them, saves them as  *)
(* the last_* values, or resets what was counted.                          *)
LEMMA PrintShares ==
  ASSUME TypeOK, RunnersInv, QueriesInv, ReadersInv, NEW own, NEW other,
         Shares(own, other), NEW r \in Readers,
         \/ \E t \in Threads : ResetSlot(r, t)
         \/ r = "report" /\ (PrintIntermediate \/ SaveLast)
         \/ PrintCumulative(r)
         \/ ResetLast(r)
  PROVE  Shares(own, other)'
<1> USE DEF ReaderGoto
<1>1. /\ SharesInv(own) /\ SumsInv(own) /\ IntervalsInv(own)
      /\ CommitsInv(own, other) /\ ReaderStep(r)
  BY DEF Shares, ReaderStep
<1>2. /\ UNCHANGED <<executed, others, checkpoints, sums>>
      /\ \A q \in Readers : q # r => reader_pc'[q] = reader_pc[q]
  BY DEF ResetSlot, PrintIntermediate, SaveLast, PrintCumulative, ResetLast,
     runnerVars, historyVars, TypeOK
<1>3. /\ reader_pc[r] # "idle" /\ reader_pc'[r] # "sum"
      /\ reader_pc'[r] \in {"print", "save", "reset"} =>
           reader_pc[r] \in {"print", "save", "reset"}
      /\ reader_pc'[r] \in {"print", "reset"} =>
           reader_pc[r] \in {"print", "reset"}
      /\ r = "master" => reader_pc'[r] # "idle"
  BY DEF ResetSlot, PrintIntermediate, SaveLast, PrintCumulative, ResetLast,
     TypeOK, Readers
<1>4. SumsOf(own, r)'
  BY <1>1, <1>2, <1>3 DEF SumsOf, SumsInv
<1>5. CommitsOf(other, r)'
  BY <1>1, <1>2, <1>3 DEF CommitsOf, CommitsInv
<1>6. SharesInv(own)' /\ SumsInv(own)' /\ CommitsInv(own, other)'
  BY <1>1, <1>4, <1>5, ReaderSlots, OtherReaders
<1>7. IntervalsInv(own)'
  <2>1. SUFFICES ASSUME checkpoints' = 0, reader_pc'["master"] = "idle",
                        NEW f \in LastFields
                 PROVE  /\ shown'[f] = IF reader_pc'["report"] = "save"
                                         THEN sums'["report"][f] ELSE last'[f]
                        /\ last'[f] <= executed'[f]
                        /\ reader_pc'["report"] = "sum" =>
                             last'[f] <= sums'["report"][f]
                               + Tally(unread'["report"], Column(own, f))
                        /\ reader_pc'["report"] = "print" =>
                             last'[f] <= sums'["report"][f]
    BY DEF IntervalsInv, Column
  <2>2. r = "report" /\ checkpoints = 0 /\ f \in Fields
    BY <1>2, <1>3, <2>1 DEF ReadersInv, Readers, LastFields
  <2>3. reader_pc["master"] = "idle"
    BY <1>2, <2>1, <2>2 DEF Readers
  <2>4. /\ shown[f] = IF reader_pc["report"] = "save" THEN sums["report"][f]
                                                      ELSE last[f]
        /\ last[f] <= executed[f]
        /\ reader_pc["report"] = "print" => last[f] <= sums["report"][f]
    BY <1>1, <2>2, <2>3 DEF IntervalsInv
  <2>5. /\ last[f] \in Nat /\ sums["report"][f] \in 0 .. ULONG - 1
        /\ ULONG \in Nat
    BY <2>2, DbStatsAssumption DEF TypeOK
  <2>6. CASE PrintIntermediate
    <3>1. /\ reader_pc["report"] = "print" /\ reader_pc'["report"] = "save"
          /\ shown'[f] = shown[f] + Diff(sums["report"][f], last[f])
          /\ last' = last /\ sums' = sums
      BY <2>2, <2>6 DEF PrintIntermediate, TypeOK, Readers
    <3>2. Diff(sums["report"][f], last[f]) = sums["report"][f] - last[f]
      <4>1. sums["report"][f] - last[f] \in 0 .. ULONG - 1
        BY <2>4, <2>5, <3>1
      <4> QED BY <4>1, ModFacts DEF Diff
    <3>3. shown'[f] = sums["report"][f]
      BY <2>4, <2>5, <3>1, <3>2
    <3> QED BY <1>2, <2>4, <3>1, <3>3
  <2>7. CASE SaveLast
    <3>1. /\ reader_pc["report"] = "save" /\ reader_pc'["report"] = "idle"
          /\ last'[f] = sums["report"][f] /\ shown' = shown
      BY <2>2, <2>7 DEF SaveLast, TypeOK, Readers
    <3>2. sums["report"][f] <= executed[f]
      BY <1>1, <2>2, <3>1 DEF SumsInv
    <3> QED BY <1>2, <2>4, <3>1, <3>2
  <2>8. reader_pc[r] \notin {"reset", "forget"}
    BY <2>2 DEF ReadersInv
  <2> QED BY <2>2, <2>6, <2>7, <2>8 DEF ResetSlot, PrintCumulative, ResetLast
<1> QED BY <1>6, <1>7 DEF Shares
-----------------------------------------------------------------------------
(* The invariant holds initially: db_reset_stats has cleared every slot. *)
LEMMA InitIInv == Init => IInv
<1> SUFFICES ASSUME Init PROVE IInv
  OBVIOUS
<1> USE DbStatsAssumption
<1>1. TypeOK
  <2>1. 0 \in 0 .. ULONG - 1
    OBVIOUS
  <2>2. /\ thread_stats \in [Threads -> [Fields -> 0 .. ULONG - 1]]
        /\ sums \in [Readers -> [Fields -> 0 .. ULONG - 1]]
    BY <2>1 DEF Init, Zero
  <2>3. /\ last \in [LastFields -> 0 .. ULONG - 1]
        /\ loaded \in [Threads -> 0 .. ULONG - 1]
        /\ executed \in [Fields -> Nat] /\ shown \in [LastFields -> Nat]
    BY <2>1 DEF Init, Zero
  <2>4. counting \in [Threads -> Seq(Fields)]
    <3>1. << >> \in Seq(Fields)
      OBVIOUS
    <3> QED BY <3>1 DEF Init
  <2> QED BY <2>2, <2>3, <2>4 DEF Init, TypeOK
<1>2. RunnersInv
  BY CommitFacts DEF Init, RunnersInv, Remaining
<1>3. \A f \in Fields : executed[f] = 0
  BY DEF Init, Zero
<1>4. QueriesInv
  <2>1. ASSUME NEW f \in Fields
        PROVE  Cardinality(At(Threads, counting, With(f))) = 0
    <3>1. \A t \in Threads : counting[t] \notin With(f)
      <4>1. << >> \notin With(f)
        BY DEF With
      <4> QED BY <4>1 DEF Init
    <3> QED BY <3>1, CountZero
  <2> QED BY <1>3, <2>1 DEF QueriesInv, Init
<1>5. ReadersInv
  BY DEF Init, ReadersInv, Readers
<1>6. PICK own, other : /\ own = [t \in Threads |-> [f \in Fields |-> 0]]
                        /\ other = [t \in Threads |-> 0]
  OBVIOUS
<1>7. ASSUME NEW v, \A t \in Threads : v[t] = 0
      PROVE  Tally(Threads, v) = 0
  BY <1>7, TallyZero
<1>8. /\ own \in [Threads -> [Fields -> 0 .. MaxQueries]]
      /\ other \in [Threads -> 0 .. MaxQueries]
      /\ \A t \in Threads : other[t] = 0 /\ \A f \in Fields : own[t][f] = 0
  BY <1>6
<1>9. SharesInv(own)
  <2>1. \A f \in Fields : Tally(Threads, Column(own, f)) = executed[f]
    <3>1. ASSUME NEW f \in Fields
          PROVE  \A t \in Threads : Column(own, f)[t] = 0
      BY <1>8 DEF Column
    <3> QED BY <1>3, <1>7, <3>1
  <2>2. \A t \in Threads, f \in Fields : thread_stats[t][f] = own[t][f]
    BY <1>8 DEF Init, Zero
  <2>3. \A t \in Threads, f \in Fields : own[t][f] \in Int
    BY <1>8
  <2> QED BY <1>8, <2>1, <2>2, <2>3 DEF SharesInv, Init
<1>10. SumsInv(own)
  BY DEF Init, SumsInv, Readers
<1>11. IntervalsInv(own)
  BY <1>3 DEF Init, IntervalsInv, Readers, LastFields
<1>12. CommitsInv(own, other)
  <2>1. Tally(Threads, other) = 0
    BY <1>7, <1>8
  <2>2. Cardinality(At(Threads, counting, {<<"other_ops">>})) = 0
    <3>1. \A t \in Threads : counting[t] \notin {<<"other_ops">>}
      BY DEF Init
    <3> QED BY <3>1, CountZero
  <2>3. \A t \in Threads : counting[t] # <<"transactions">>
    BY CommitFacts DEF Init
  <2>4. \A t \in Threads : own[t]["other_ops"] = 0 /\ own[t]["transactions"] = 0
    BY <1>8 DEF Fields
  <2>5. others = 0 /\ \A r \in Readers : reader_pc[r] = "idle"
    BY DEF Init
  <2> QED BY <1>8, <2>1, <2>2, <2>3, <2>4, <2>5 DEF CommitsInv
<1> QED BY <1>1, <1>2, <1>4, <1>5, <1>8, <1>9, <1>10, <1>11, <1>12
        DEF IInv, Shares

(* Every step keeps the invariant. *)
LEMMA NextIInv == IInv /\ [Next]_vars => IInv'
<1> SUFFICES ASSUME IInv, [Next]_vars PROVE IInv'
  OBVIOUS
<1>1. PICK own \in [Threads -> [Fields -> 0 .. MaxQueries]],
           other \in [Threads -> 0 .. MaxQueries] : Shares(own, other)
  BY DEF IInv
<1>2. TypeOK /\ RunnersInv /\ QueriesInv /\ ReadersInv
  BY DEF IInv
<1>3. ASSUME NEW t \in Threads, RunnerStep(t)
      PROVE  IInv'
  <2>1. TypeOK' /\ RunnersInv' /\ QueriesInv' /\ ReadersInv'
    BY <1>2, <1>3, RunnerTypes, QueriesPreserved, RunnerReaders
  <2>2. CASE Store(t)
    BY <1>1, <1>2, <2>1, <2>2, StoreShares DEF IInv
  <2>3. CASE ~Store(t)
    <3>1. Shares(own, other)'
      BY <1>1, <1>2, <1>3, <2>3, QuietShares DEF RunnerStep
    <3> QED BY <1>1, <2>1, <3>1 DEF IInv
  <2> QED BY <2>2, <2>3
<1>4. ASSUME NEW r \in Readers, ReaderStep(r)
      PROVE  IInv'
  <2>1. TypeOK' /\ RunnersInv' /\ ReadersInv'
    BY <1>2, <1>4, ReaderTypes
  <2>2. Shares(own, other)'
    BY <1>1, <1>2, <1>4, BeginShares, SumShares, PrintShares DEF ReaderStep
  <2>3. QueriesInv'
    <3>1. UNCHANGED <<executed, counting, queries>>
      BY <1>1, <1>2, <1>4, ReaderSlots DEF Shares
    <3> QED BY <1>2, <3>1 DEF QueriesInv, At, With
  <2> QED BY <1>1, <2>1, <2>2, <2>3 DEF IInv
<1>5. CASE UNCHANGED vars
  <2>1. TypeOK' /\ RunnersInv' /\ QueriesInv' /\ ReadersInv'
    BY <1>2, <1>5 DEF vars, runnerVars, readerVars, historyVars, TypeOK,
       RunnersInv, QueriesInv, ReadersInv, RunnersEnded, At, With
  <2>2. Shares(own, other)'
    BY <1>1, <1>5 DEF vars, runnerVars, readerVars, historyVars, Shares,
       SharesInv, SumsInv, IntervalsInv, CommitsInv, Untouched, At, Column
  <2> QED BY <1>1, <2>1, <2>2 DEF IInv
<1> QED BY <1>3, <1>4, <1>5 DEF Next, Finished

(* The inductive invariant holds throughout. *)
THEOREM Invariance == Spec => []IInv
BY InitIInv, NextIInv, PTL DEF Spec

(* Every variable of the model of db_driver.c has its type throughout. *)
THEOREM TypeCorrect == Spec => []TypeOK
<1>1. IInv => TypeOK
  BY DEF IInv
<1> QED BY <1>1, Invariance, PTL

(* For any number of threads and reports racing with the counters: what    *)
(* db_print_stats sums never exceeds what was executed, and it sums no     *)
(* half counted commit.                                                    *)
THEOREM SoundReports == Spec => []ReportsSound
<1>1. IInv => ReportsSound
  <2> SUFFICES ASSUME IInv PROVE ReportsSound
    OBVIOUS
  <2>1. PICK own, other : Shares(own, other)
    BY DEF IInv
  <2>2. TypeOK
    BY DEF IInv
  <2>3. ASSUME NEW r \in Readers, reader_pc[r] \in {"print", "save", "reset"}
        PROVE  \A f \in Fields : sums[r][f] <= executed[f]
    BY <2>1, <2>3 DEF Shares, SumsInv
  <2>4. ASSUME NEW r \in Readers, reader_pc[r] \in {"print", "save", "reset"},
               checkpoints = 0
        PROVE  sums[r]["other_ops"] - sums[r]["transactions"] \in 0 .. others
    <3>1. /\ sums[r]["transactions"] <= sums[r]["other_ops"]
          /\ sums[r]["other_ops"] - sums[r]["transactions"] <= others
      BY <2>1, <2>4 DEF Shares, CommitsInv
    <3>2. sums[r]["other_ops"] \in Nat
      BY <2>2, DbStatsAssumption DEF TypeOK, Fields
    <3>3. sums[r]["transactions"] \in Nat
      BY <2>2, DbStatsAssumption DEF TypeOK, Fields
    <3>4. others \in Nat
      BY <2>2 DEF TypeOK
    <3>5. \A a, b, c \in Nat : b <= a /\ a - b <= c => a - b \in 0 .. c
      OBVIOUS
    <3> QED BY <3>1, <3>2, <3>3, <3>4, <3>5
  <2> QED BY <2>3, <2>4 DEF ReportsSound
<1> QED BY <1>1, Invariance, PTL

(* Without checkpoints the final report of db_print_stats is exact, for    *)
(* any number of threads.                                                  *)
THEOREM ExactFinal == Spec => []FinalExact
<1>1. IInv => FinalExact
  <2> SUFFICES ASSUME IInv, checkpoints = 0,
                      reader_pc["master"] \in {"print", "reset"}
               PROVE  sums["master"] = executed
    BY DEF FinalExact
  <2>1. PICK own, other : Shares(own, other)
    BY DEF IInv
  <2>2. \A f \in Fields : sums["master"][f] = executed[f]
    BY <2>1 DEF Shares, SumsInv
  <2>3. sums["master"] \in [Fields -> 0 .. ULONG - 1]
    BY DEF IInv, TypeOK, Readers
  <2>4. executed \in [Fields -> Nat]
    BY DEF IInv, TypeOK
  <2> QED BY <2>2, <2>3, <2>4
<1> QED BY <1>1, Invariance, PTL

(* Without checkpoints the intermediate reports of db_print_stats divide   *)
(* the run among them, whatever the runners do while they are made.        *)
THEOREM IntervalsDivide == Spec => []IntervalsAddUp
<1>1. IInv => IntervalsAddUp
  <2> SUFFICES ASSUME IInv PROVE IntervalsAddUp
    OBVIOUS
  <2>1. PICK own, other : Shares(own, other)
    BY DEF IInv
  <2> QED BY <2>1 DEF Shares, IntervalsInv, IntervalsAddUp
<1> QED BY <1>1, Invariance, PTL
=============================================================================
