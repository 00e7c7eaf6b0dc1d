---------------------------- MODULE FileIOProofs ----------------------------
(***************************************************************************)
(* What FileIO promises, for any number of runners, files and blocks and   *)
(* any options: the files are synced as often as was asked for, a file     *)
(* that is not synced in the end is one whose last fsync overtook a write, *)
(* and validation raises no false alarm.                                   *)
(***************************************************************************)
EXTENDS FileIO, TLAPS

Phases == {"start", "prepared", "run", "done", "removed", "failed"}

(* The counters of the generators. *)
GenTypes ==
  /\ cfg \in Configs
  /\ phase \in Phases
  /\ phase = "run" => OptionsValid
  /\ is_dirty \in BOOLEAN
  /\ req_performed \in Nat /\ fsynced_file \in Nat /\ fsynced_file2 \in Nat
  /\ fsynced_file = 0 \/ fsynced_file < num_files
  /\ since \in [Files -> Nat]

Due == req_performed % file_fsync_freq = 0

(* While a series of fsyncs is due, the files it has been to have no       *)
(* writes behind them and the others at most as many as requests are       *)
(* allowed; in between no file has more than there were requests since the *)
(* last series.                                                            *)
SeriesInv ==
  file_fsync_freq # 0 =>
    /\ fsynced_file # 0 => is_dirty /\ Due
    /\ ~is_dirty => \A f \in Files : since[f] = 0
    /\ is_dirty /\ Due => \A f \in Files :
         since[f] <= IF f < fsynced_file THEN 0 ELSE file_fsync_freq
    /\ ~(is_dirty /\ Due) => \A f \in Files :
         since[f] <= req_performed % file_fsync_freq

GenInv == GenTypes /\ SeriesInv
-----------------------------------------------------------------------------
(* Division with a remainder, which is unique. *)
LEMMA Division ==
  ASSUME NEW n \in Nat \ {0}, NEW k \in Nat
  PROVE  k % n \in 0 .. n - 1 /\ k \div n \in Int /\ k = (k \div n) * n + (k % n)
OBVIOUS

LEMMA Remainder ==
  ASSUME NEW n \in Nat \ {0}, NEW q \in Int, NEW r \in 0 .. n - 1,
         NEW k \in Int, k = q * n + r
  PROVE  k % n = r
OBVIOUS

(* Counting modulo n. *)
LEMMA ModStep ==
  ASSUME NEW n \in Nat \ {0}, NEW k \in Nat
  PROVE  /\ k % n \in 0 .. n - 1
         /\ (k + 1) % n = (IF k % n = n - 1 THEN 0 ELSE (k % n) + 1)
<1> DEFINE q == k \div n
           r == k % n
<1>1. r \in 0 .. n - 1 /\ q \in Int /\ k = q * n + r
  BY Division
<1> HIDE DEF q, r
<1>2. CASE r = n - 1
  <2>1. k + 1 = (q + 1) * n + 0 /\ q + 1 \in Int
    BY <1>1, <1>2
  <2>2. (k + 1) % n = 0
    BY <1>1, <2>1, Remainder
  <2> QED BY <1>1, <1>2, <2>2 DEF r
<1>3. CASE r # n - 1
  <2>1. k + 1 = q * n + (r + 1) /\ r + 1 \in 0 .. n - 1
    BY <1>1, <1>3
  <2>2. (k + 1) % n = r + 1
    BY <1>1, <2>1, Remainder
  <2> QED BY <1>1, <1>3, <2>2 DEF r
<1> QED BY <1>2, <1>3

LEMMA ModSmall ==
  ASSUME NEW n \in Nat \ {0}, NEW k \in Nat, k < n
  PROVE  (k + 1) % n = (IF k + 1 = n THEN 0 ELSE k + 1)
OBVIOUS

LEMMA GenConstants ==
  ASSUME GenTypes
  PROVE  /\ num_files \in Nat /\ file_fsync_freq \in Nat
         /\ Files = 0 .. num_files - 1
         /\ phase = "run" => num_files > 0
         /\ cfg.max_requests \in Nat
BY FileIOAssumption
   DEF GenTypes, Options, num_files, file_fsync_freq, Files, OptionsValid

(* Steps that hand out no request. *)
LEMMA GenQuiet ==
  ASSUME GenInv, cfg' = cfg, UNCHANGED genVars, phase' \in Phases,
         phase' = "run" => OptionsValid
  PROVE  GenInv'
<1>1. GenTypes'
  BY DEF GenInv, GenTypes, genVars, OptionsValid, num_files, Files
<1>2. SeriesInv'
  BY DEF GenInv, SeriesInv, Due, genVars, file_fsync_freq, num_files, Files
<1> QED BY <1>1, <1>2 DEF GenInv

(* A periodic fsync. *)
LEMMA GenPeriodic ==
  ASSUME GenInv, phase = "run", cfg' = cfg, phase' = phase,
         NEW t \in Threads, GivePeriodicFsync(t)
  PROVE  GenInv'
<1>1. /\ num_files \in Nat /\ num_files > 0 /\ file_fsync_freq \in Nat
      /\ Files = 0 .. num_files - 1
      /\ fsynced_file \in Nat /\ fsynced_file < num_files
  BY GenConstants DEF GenInv, GenTypes
<1>2. /\ num_files' = num_files /\ Files' = Files
      /\ file_fsync_freq' = file_fsync_freq /\ OptionsValid' = OptionsValid
  BY DEF num_files, Files, file_fsync_freq, OptionsValid
<1>3. /\ file_fsync_freq # 0 /\ is_dirty /\ Due
      /\ fsynced_file' = (IF fsynced_file + 1 = num_files THEN 0
                          ELSE fsynced_file + 1)
      /\ is_dirty' = (fsynced_file + 1 # num_files)
      /\ since' = [since EXCEPT ![fsynced_file] = 0]
      /\ UNCHANGED <<fsynced_file2, req_performed>>
  <2>1. /\ fsynced_file' = (fsynced_file + 1) % num_files
        /\ since' = [since EXCEPT ![fsynced_file] = 0]
        /\ UNCHANGED <<fsynced_file2, req_performed>>
    BY DEF GivePeriodicFsync
  <2>2. /\ file_fsync_freq # 0 /\ is_dirty /\ Due
        /\ is_dirty' = (fsynced_file + 1 # num_files)
    BY DEF GivePeriodicFsync, PeriodicDue, StillDirty, Due
  <2>3. (fsynced_file + 1) % num_files =
          (IF fsynced_file + 1 = num_files THEN 0 ELSE fsynced_file + 1)
    BY <1>1, ModSmall
  <2> QED BY <2>1, <2>2, <2>3
<1>4. /\ since \in [Files -> Nat]
      /\ \A f \in Files :
           since[f] <= IF f < fsynced_file THEN 0 ELSE file_fsync_freq
  BY <1>3 DEF GenInv, GenTypes, SeriesInv
<1>5. GenTypes'
  <2>1. since' \in [Files -> Nat]
    BY <1>3, <1>4
  <2>2. /\ fsynced_file' \in Nat
        /\ fsynced_file' = 0 \/ fsynced_file' < num_files
    BY <1>1, <1>3
  <2> QED BY <1>2, <1>3, <2>1, <2>2 DEF GenInv, GenTypes
<1>6. Due' = Due
  BY <1>2, <1>3 DEF Due
<1>7. \A f \in Files : since'[f] = IF f = fsynced_file THEN 0 ELSE since[f]
  BY <1>4, <1>3
<1>8. CASE fsynced_file + 1 = num_files
  <2>1. \A f \in Files : since'[f] = 0
    BY <1>1, <1>4, <1>7, <1>8
  <2>2. ~is_dirty' /\ fsynced_file' = 0
    BY <1>3, <1>8
  <2>3. req_performed' % file_fsync_freq' \in Nat
    BY <1>1, <1>2, <1>3, ModStep DEF GenInv, GenTypes
  <2>4. SeriesInv'
    BY <1>2, <2>1, <2>2, <2>3 DEF SeriesInv
  <2> QED BY <1>5, <2>4 DEF GenInv
<1>9. CASE fsynced_file + 1 # num_files
  <2>1. is_dirty' /\ Due' /\ fsynced_file' = fsynced_file + 1
    BY <1>3, <1>6, <1>9
  <2>2. \A f \in Files :
          since'[f] <= IF f < fsynced_file' THEN 0 ELSE file_fsync_freq
    BY <1>1, <1>4, <1>7, <2>1
  <2>3. SeriesInv'
    BY <1>2, <2>1, <2>2 DEF SeriesInv
  <2> QED BY <1>5, <2>3 DEF GenInv
<1> QED BY <1>8, <1>9

(* A request, whatever it is. *)
LEMMA GenCount ==
  ASSUME GenInv, phase = "run", cfg' = cfg, phase' = phase, ~PeriodicDue,
         NEW r, CountWrite(r), UNCHANGED <<fsynced_file, fsynced_file2>>
  PROVE  GenInv'
<1>1. /\ num_files \in Nat /\ num_files > 0 /\ file_fsync_freq \in Nat
      /\ Files = 0 .. num_files - 1
      /\ req_performed \in Nat /\ since \in [Files -> Nat]
      /\ is_dirty \in BOOLEAN
  BY GenConstants DEF GenInv, GenTypes
<1>2. /\ num_files' = num_files /\ Files' = Files
      /\ file_fsync_freq' = file_fsync_freq /\ OptionsValid' = OptionsValid
  BY DEF num_files, Files, file_fsync_freq, OptionsValid
<1>3. /\ req_performed' = req_performed + 1
      /\ is_dirty' \in BOOLEAN /\ (is_dirty => is_dirty')
  BY <1>1 DEF CountWrite
<1>4. /\ since' \in [Files -> Nat]
      /\ \A f \in Files : since'[f] <= since[f] + 1
  BY <1>1 DEF CountWrite
<1>5. ~is_dirty' => ~is_dirty /\ since' = since
  BY DEF CountWrite
<1>6. GenTypes'
  BY <1>1, <1>2, <1>3, <1>4 DEF GenInv, GenTypes
<1>7. ASSUME file_fsync_freq # 0 PROVE SeriesInv'
  <2> DEFINE m == req_performed % file_fsync_freq
             n == req_performed' % file_fsync_freq
  <2>1. /\ m \in 0 .. file_fsync_freq - 1
        /\ n = (IF m = file_fsync_freq - 1 THEN 0 ELSE m + 1)
    BY <1>1, <1>3, <1>7, ModStep
  <2>2. ~(is_dirty /\ Due)
    BY <1>7 DEF PeriodicDue, Due
  <2>3. \A f \in Files : since[f] <= m
    BY <1>7, <2>2 DEF GenInv, SeriesInv
  <2>4. Due' <=> n = 0
    BY <1>2 DEF Due
  <2>5. ~is_dirty' => \A f \in Files : since'[f] = 0
    BY <1>5, <1>7 DEF GenInv, SeriesInv
  <2>6. fsynced_file' = 0
    BY <1>7, <2>2 DEF GenInv, SeriesInv
  <2> HIDE DEF m, n
  <2>7. is_dirty' /\ Due' => \A f \in Files : since'[f] <= file_fsync_freq
    BY <1>1, <1>4, <2>1, <2>3, <2>4
  <2>8. ~(is_dirty' /\ Due') => \A f \in Files : since'[f] <= n
    <3>1. CASE Due'
      BY <2>1, <2>4, <2>5, <3>1
    <3>2. CASE ~Due'
      BY <1>1, <1>4, <2>1, <2>3, <2>4, <3>2
    <3> QED BY <3>1, <3>2
  <2>9. \A f \in Files : ~(f < 0)
    BY <1>1
  <2> QED BY <1>2, <2>5, <2>6, <2>7, <2>8, <2>9 DEF SeriesInv, n
<1>8. SeriesInv'
  BY <1>2, <1>7 DEF SeriesInv
<1> QED BY <1>6, <1>8 DEF GenInv

(* A final fsync. *)
LEMMA GenFinal ==
  ASSUME GenInv, phase = "run", cfg' = cfg, phase' = phase,
         NEW t \in Threads, GiveFinalFsync(t)
  PROVE  GenInv'
<1>1. /\ file_fsync_freq \in Nat /\ since \in [Files -> Nat]
      /\ req_performed \in Nat
  BY GenConstants DEF GenInv, GenTypes
<1>2. /\ num_files' = num_files /\ Files' = Files
      /\ file_fsync_freq' = file_fsync_freq /\ OptionsValid' = OptionsValid
  BY DEF num_files, Files, file_fsync_freq, OptionsValid
<1>3. /\ since' = [since EXCEPT ![fsynced_file2] = 0]
      /\ fsynced_file2' = fsynced_file2 + 1
      /\ UNCHANGED <<fsynced_file, is_dirty, req_performed>>
  BY DEF GiveFinalFsync
<1>4. /\ since' \in [Files -> Nat]
      /\ \A f \in Files : since'[f] <= since[f] /\ since[f] \in Nat
  <2>1. since' \in [Files -> Nat]
    BY <1>1, <1>3
  <2>2. ASSUME NEW f \in Files
        PROVE  since'[f] \in {0, since[f]} /\ since[f] \in Nat
    BY <1>1, <1>3
  <2> QED BY <2>1, <2>2
<1>5. GenTypes'
  BY <1>2, <1>3, <1>4 DEF GenInv, GenTypes
<1>6. ASSUME file_fsync_freq # 0 PROVE SeriesInv'
  <2>1. Due' = Due
    BY <1>2, <1>3 DEF Due
  <2>2. req_performed % file_fsync_freq \in Nat
    BY <1>1, <1>6, ModStep
  <2>3. /\ fsynced_file # 0 => is_dirty /\ Due
        /\ ~is_dirty => \A f \in Files : since[f] = 0
        /\ is_dirty /\ Due => \A f \in Files :
             since[f] <= IF f < fsynced_file THEN 0 ELSE file_fsync_freq
        /\ ~(is_dirty /\ Due) => \A f \in Files :
             since[f] <= req_performed % file_fsync_freq
    BY <1>6 DEF GenInv, SeriesInv
  <2>4. ~is_dirty => \A f \in Files : since'[f] = 0
    BY <1>4, <2>3
  <2>5. is_dirty /\ Due => \A f \in Files :
          since'[f] <= IF f < fsynced_file THEN 0 ELSE file_fsync_freq
    BY <1>1, <1>4, <2>3
  <2>6. ~(is_dirty /\ Due) => \A f \in Files :
          since'[f] <= req_performed % file_fsync_freq
    BY <1>4, <2>2, <2>3
  <2> QED BY <1>2, <1>3, <2>1, <2>3, <2>4, <2>5, <2>6 DEF SeriesInv
<1>7. SeriesInv'
  BY <1>2, <1>6 DEF SeriesInv
<1> QED BY <1>5, <1>7 DEF GenInv

LEMMA GenRequest ==
  ASSUME GenInv, NEW t \in Threads, file_get_request(t)
  PROVE  GenInv'
<1>1. phase = "run" /\ cfg' = cfg /\ phase' = phase
  BY DEF file_get_request
<1>2. CASE GivePeriodicFsync(t)
  BY <1>1, <1>2, GenPeriodic
<1>3. CASE GiveFinalFsync(t)
  BY <1>1, <1>3, GenFinal
<1>4. CASE GiveNull(t)
  BY <1>1, <1>4, GenQuiet DEF GiveNull, GenInv, GenTypes
<1>5. CASE file_get_seq_request(t) \/ file_get_rnd_request(t)
  <2>1. /\ ~PeriodicDue /\ \E r : CountWrite(r)
        /\ UNCHANGED <<fsynced_file, fsynced_file2>>
    BY <1>5 DEF file_get_seq_request, file_get_rnd_request
  <2> QED BY <1>1, <2>1, GenCount
<1> QED BY <1>2, <1>3, <1>4, <1>5 DEF file_get_request

LEMMA GenInit ==
  ASSUME Init
  PROVE  GenInv
<1>1. num_files \in Nat /\ Files = 0 .. num_files - 1
      /\ file_fsync_freq \in Nat
  BY FileIOAssumption DEF Init, Options, num_files, Files, file_fsync_freq
<1>2. GenTypes
  BY DEF Init, GenTypes, Phases
<1>3. /\ fsynced_file = 0 /\ ~is_dirty /\ req_performed = 0
      /\ \A f \in Files : since[f] = 0
  BY DEF Init
<1>4. file_fsync_freq # 0 => 0 % file_fsync_freq = 0
  BY <1>1
<1>5. SeriesInv
  BY <1>3, <1>4 DEF SeriesInv
<1> QED BY <1>2, <1>5 DEF GenInv

(* The steps of a runner after it has its request, and those of the        *)
(* kernel, leave the generators alone.                                     *)
LEMMA RunnerQuiet ==
  ASSUME NEW t \in Threads, RunnerStep(t) \/ AioComplete(t),
         ~file_get_request(t)
  PROVE  cfg' = cfg /\ phase' = phase /\ UNCHANGED genVars
BY DEF RunnerStep, AioComplete, UnchangedByExecute, Reject, BeginIO, FailIO,
       EndWrite, EndRead, Fsync, FailFsync, Count, file_submit_or_wait,
       WaitForRoom, file_wait, file_thread_done

LEMMA CommandQuiet ==
  ASSUME \/ file_cmd_prepare \/ file_prepare \/ PrintIntermediate
         \/ PrintCumulative \/ file_done \/ file_cmd_cleanup \/ UNCHANGED vars
  PROVE  /\ cfg' = cfg /\ UNCHANGED genVars
         /\ UNCHANGED <<pc, req, unsynced, inFlight, queued>>
BY DEF file_cmd_prepare, file_prepare, PrintIntermediate, PrintCumulative,
       file_done, file_cmd_cleanup, UnchangedByCommand, aioVars, vars

LEMMA CommandPhase ==
  ASSUME phase \in Phases, phase = "run" => OptionsValid,
         \/ file_cmd_prepare \/ file_prepare \/ PrintIntermediate
         \/ PrintCumulative \/ file_done \/ file_cmd_cleanup \/ UNCHANGED vars
  PROVE  phase' \in Phases /\ (phase' = "run" => OptionsValid)
BY DEF Phases, file_cmd_prepare, file_prepare, PrintIntermediate,
       PrintCumulative, file_done, file_cmd_cleanup, vars

LEMMA GenNext ==
  ASSUME GenInv, [Next]_vars
  PROVE  GenInv'
<1>1. phase \in Phases /\ (phase = "run" => OptionsValid)
  BY DEF GenInv, GenTypes
<1>2. CASE \/ file_cmd_prepare \/ file_prepare \/ PrintIntermediate
           \/ PrintCumulative \/ file_done \/ file_cmd_cleanup
           \/ UNCHANGED vars
  <2>1. cfg' = cfg /\ UNCHANGED genVars
    BY <1>2, CommandQuiet
  <2>2. phase' \in Phases /\ (phase' = "run" => OptionsValid)
    BY <1>1, <1>2, CommandPhase
  <2> QED BY <2>1, <2>2, GenQuiet
<1>3. ASSUME NEW t \in Threads, RunnerStep(t) \/ AioComplete(t)
      PROVE  GenInv'
  <2>1. CASE file_get_request(t)
    BY <2>1, GenRequest
  <2>2. CASE ~file_get_request(t)
    BY <1>1, <1>3, <2>2, RunnerQuiet, GenQuiet
  <2> QED BY <2>1, <2>2
<1> QED BY <1>2, <1>3 DEF Next, Terminated

(* The generators keep their counters in step. *)
THEOREM Generators == Spec => []GenInv
<1>1. Init => GenInv
  BY GenInit
<1>2. GenInv /\ [Next]_vars => GenInv'
  BY GenNext
<1> QED BY <1>1, <1>2, PTL DEF Spec

LEMMA SeriesBounds ==
  ASSUME GenInv
  PROVE  FsyncEvery
<1> SUFFICES ASSUME file_fsync_freq # 0, NEW f \in Files
             PROVE  since[f] <= file_fsync_freq
  BY DEF FsyncEvery
<1>1. /\ file_fsync_freq \in Nat /\ req_performed \in Nat
      /\ since[f] \in Nat
  BY GenConstants DEF GenInv, GenTypes
<1>2. req_performed % file_fsync_freq \in 0 .. file_fsync_freq - 1
  BY <1>1, ModStep
<1>3. CASE is_dirty /\ Due
  <2>1. since[f] <= IF f < fsynced_file THEN 0 ELSE file_fsync_freq
    BY <1>3 DEF GenInv, SeriesInv
  <2> QED BY <1>1, <2>1
<1>4. CASE ~(is_dirty /\ Due)
  <2>1. since[f] <= req_performed % file_fsync_freq
    BY <1>4 DEF GenInv, SeriesInv
  <2> QED BY <1>1, <1>2, <2>1
<1> QED BY <1>3, <1>4

(* No file is written more often than --file-fsync-freq says before it is  *)
(* due for an fsync, with any number of threads handing out and executing  *)
(* the requests of a series between writes.                                *)
THEOREM SyncedAsAsked == Spec => []FsyncEvery
BY Generators, SeriesBounds, PTL
-----------------------------------------------------------------------------
(* The final fsyncs *)

Places == {"get", "exec", "write", "read", "fsync", "count", "wait",
           "thread_done", "done"}

Fields == {"op", "file", "pos", "size"}

FinalTypes ==
  /\ pc \in [Threads -> Places]
  /\ DOMAIN req = Threads /\ \A t \in Threads : DOMAIN req[t] = Fields
  /\ req = [t \in Threads |-> req[t]]
  /\ queued = [t \in Threads |-> queued[t]]
  /\ inFlight = [f \in Files |-> inFlight[f]]
  /\ errors \in Nat

(* What is written is a file of the test. *)
WritesKnown ==
  /\ unsynced \subseteq Files
  /\ \A t \in Threads : \A o \in queued[t] : o.file \in Files
  /\ \A t \in Threads :
       pc[t] = "write" => req[t].op = "WRITE" /\ req[t].file \in Files

(* The final fsyncs begin when no more writes are handed out. *)
FinalBegun ==
  /\ fsynced_file2 > 0 => LimitReached /\ file_fsync_end
  /\ phase = "done" => \A t \in Threads : pc[t] = "done"

(* The final fsync of f is still to be made, or overtook a write, or left  *)
(* nothing to be synced or written.                                        *)
Settled(f) ==
  \/ \E t \in Threads : pc[t] = "exec" /\ req[t] = FsyncOf(f)
  \/ inFlight[f] # {}
  \/ f \notin unsynced /\ WritersOf(f) = {}

AllSettled == errors = 0 => \A f \in Files : f < fsynced_file2 => Settled(f)

FinalInv ==
  GenInv /\ FinalTypes /\ WritesKnown /\ FinalBegun /\ AllSettled

LEMMA FinalInit ==
  ASSUME Init
  PROVE  FinalInv
<1>1. GenInv
  BY GenInit
<1>2. FinalTypes
  BY DEF Init, FinalTypes, Places, Fields, NullReq
<1>3. WritesKnown
  BY DEF Init, WritesKnown
<1>4. FinalBegun
  BY DEF Init, FinalBegun
<1>5. \A f \in Files : f \in Nat
  BY <1>1, GenConstants DEF GenInv
<1>6. AllSettled
  BY <1>5 DEF Init, AllSettled
<1> QED BY <1>1, <1>2, <1>3, <1>4, <1>6 DEF FinalInv

(* Steps that change neither a request nor what is written. *)
LEMMA FinalQuiet ==
  ASSUME FinalInv, GenInv', cfg' = cfg, UNCHANGED genVars,
         UNCHANGED <<pc, req, unsynced, inFlight, queued>>,
         errors' \in Nat, errors' = 0 => errors = 0,
         phase' = "done" => \A t \in Threads : pc[t] = "done"
  PROVE  FinalInv'
<1>0. Files' = Files
  BY DEF Files, num_files
<1>1. FinalTypes'
  BY <1>0 DEF FinalInv, FinalTypes
<1>2. WritesKnown'
  BY <1>0 DEF FinalInv, WritesKnown
<1>3. FinalBegun'
  BY DEF FinalInv, FinalBegun, LimitReached, file_fsync_end, genVars
<1>4. AllSettled'
  <2>1. \A f : Settled(f) => Settled(f)'
    BY DEF Settled, WritersOf, FsyncOf
  <2> QED BY <1>0, <2>1 DEF FinalInv, AllSettled, genVars
<1> QED BY <1>1, <1>2, <1>3, <1>4 DEF FinalInv

(* A runner moves on with the request it has. *)
LEMMA FinalMoves ==
  ASSUME FinalInv, GenInv', cfg' = cfg, phase' = phase, UNCHANGED genVars,
         UNCHANGED <<req, unsynced, inFlight, queued>>,
         phase = "run",
         errors' \in Nat, errors' = 0 => errors = 0,
         NEW t \in Threads, NEW from \in Places, NEW to \in Places,
         pc[t] = from, pc' = [pc EXCEPT ![t] = to], to # "exec",
         to = "write" => /\ from = "exec"
                         /\ req[t].op = "WRITE" /\ req[t].file \in Files,
         from = "exec" /\ req[t].op = "FSYNC" =>
           errors' # 0 \/ \A f \in Files : req[t] # FsyncOf(f)
  PROVE  FinalInv'
<1>0. Files' = Files
  BY DEF Files, num_files
<1>a. \A u \in Threads : pc'[u] = IF u = t THEN to ELSE pc[u]
  BY DEF FinalInv, FinalTypes
<1>1. FinalTypes'
  BY <1>0 DEF FinalInv, FinalTypes
<1>2. WritesKnown'
  BY <1>0, <1>a DEF FinalInv, WritesKnown
<1>3. FinalBegun'
  BY DEF FinalInv, FinalBegun, LimitReached, file_fsync_end, genVars
<1>4. AllSettled'
  <2>1. ASSUME NEW f \in Files, errors' = 0, Settled(f) PROVE Settled(f)'
    <3>1. WritersOf(f)' \subseteq WritersOf(f)
      BY <1>a DEF WritersOf
    <3>2. CASE \E u \in Threads : pc[u] = "exec" /\ req[u] = FsyncOf(f)
      <4>1. PICK u \in Threads : pc[u] = "exec" /\ req[u] = FsyncOf(f)
        BY <3>2
      <4>2. req[u].op = "FSYNC"
        BY <4>1 DEF FsyncOf
      <4>3. u # t
        BY <2>1, <4>1, <4>2
      <4>4. pc'[u] = "exec" /\ req'[u] = FsyncOf(f)'
        BY <1>a, <4>1, <4>3 DEF FsyncOf
      <4> QED BY <4>4 DEF Settled
    <3>3. CASE inFlight[f] # {}
      BY <3>3 DEF Settled
    <3>4. CASE f \notin unsynced /\ WritersOf(f) = {}
      BY <3>1, <3>4 DEF Settled
    <3> QED BY <2>1, <3>2, <3>3, <3>4 DEF Settled
  <2> QED BY <1>0, <2>1 DEF FinalInv, AllSettled, genVars
<1> QED BY <1>1, <1>2, <1>3, <1>4 DEF FinalInv

LEMMA GotoFrom ==
  ASSUME FinalTypes, NEW t \in Threads, NEW from, NEW to,
         Goto(t, from, to)
  PROVE  /\ phase = "run" /\ pc[t] = from /\ from \in Places
         /\ pc' = [pc EXCEPT ![t] = to]
BY DEF Goto, FinalTypes

(* An fsync is never rejected, as it has no position. *)
LEMMA RejectsNoFsync ==
  ASSUME FinalInv, NEW t \in Threads, phase = "run",
         \E f \in Files : req[t] = FsyncOf(f)
  PROVE  RequestChecked(req[t])
<1>1. PICK f \in Files : req[t] = FsyncOf(f)
  OBVIOUS
<1>2. num_files \in Nat /\ num_files > 0 /\ Files = 0 .. num_files - 1
  BY GenConstants DEF FinalInv, GenInv
<1>3. cfg.total_size \in Nat
  BY FileIOAssumption DEF FinalInv, GenInv, GenTypes, Options
<1>4. file_size >= 0 /\ file_size \in Int
  BY <1>2, <1>3 DEF file_size
<1>5. req[t].file = f /\ req[t].pos = 0 /\ req[t].size = 0
  BY <1>1 DEF FsyncOf
<1> HIDE DEF file_size
<1> QED BY <1>2, <1>4, <1>5 DEF RequestChecked

LEMMA ErrorCounts ==
  ASSUME errors \in Nat
  PROVE  /\ Error => errors' \in Nat /\ errors' # 0
         /\ NoError => errors' \in Nat /\ (errors' = 0 => errors = 0)
BY DEF Error, NoError

(* The steps of a runner that neither write nor sync. *)
LEMMA FinalOthers ==
  ASSUME FinalInv, GenInv', NEW t \in Threads,
         \/ BeginIO(t) \/ FailIO(t) \/ EndRead(t) \/ FailFsync(t) \/ Count(t)
         \/ WaitForRoom(t) \/ file_thread_done(t)
  PROVE  FinalInv'
<1>1. FinalTypes /\ errors \in Nat
  BY DEF FinalInv, FinalTypes
<1>3. /\ cfg' = cfg /\ phase' = phase /\ UNCHANGED genVars
      /\ UNCHANGED <<req, unsynced, inFlight, queued>>
  BY DEF BeginIO, FailIO, EndRead, FailFsync, Count, WaitForRoom, file_wait,
         file_thread_done, UnchangedByExecute, aioVars
<1>4. CASE BeginIO(t)
  <2>1. Goto(t, "exec", IF req[t].op = "WRITE" THEN "write" ELSE "read")
        /\ errors' = errors /\ req[t].op \in {"READ", "WRITE"}
        /\ req[t].file \in Files
    BY <1>4 DEF BeginIO
  <2>2. PICK to \in {"write", "read"} :
          /\ to = "write" => req[t].op = "WRITE"
          /\ Goto(t, "exec", to)
    BY <2>1
  <2>3. /\ phase = "run" /\ pc[t] = "exec" /\ pc' = [pc EXCEPT ![t] = to]
    BY <1>1, <2>2, GotoFrom
  <2> QED BY <1>1, <1>3, <2>1, <2>2, <2>3, FinalMoves DEF Places
<1>5. CASE FailIO(t)
  <2>1. /\ Goto(t, "exec", "thread_done") /\ req[t].op \in {"READ", "WRITE"}
        /\ Error \/ NoError
    BY <1>5 DEF FailIO, Fail
  <2>2. errors' \in Nat /\ (errors' = 0 => errors = 0)
    BY <1>1, <2>1, ErrorCounts
  <2>3. /\ phase = "run" /\ pc[t] = "exec"
        /\ pc' = [pc EXCEPT ![t] = "thread_done"]
    BY <1>1, <2>1, GotoFrom
  <2> QED BY <1>3, <2>1, <2>2, <2>3, FinalMoves DEF Places
<1>6. CASE EndRead(t)
  <2>1. \E to \in {"thread_done", "count"} : Goto(t, "read", to)
    BY <1>6 DEF EndRead, Fail
  <2>2. PICK to \in {"thread_done", "count"} : Goto(t, "read", to)
    BY <2>1
  <2>3. errors' = errors
    BY <1>6 DEF EndRead
  <2>4. phase = "run" /\ pc[t] = "read" /\ pc' = [pc EXCEPT ![t] = to]
    BY <1>1, <2>2, GotoFrom
  <2> QED BY <1>1, <1>3, <2>2, <2>3, <2>4, FinalMoves DEF Places
<1>7. CASE FailFsync(t)
  <2>1. PICK from \in {"fsync", "exec"} : Goto(t, from, "thread_done")
    BY <1>7 DEF FailFsync, Fail
  <2>2. errors' \in Nat /\ errors' # 0
    BY <1>1, <1>7, ErrorCounts DEF FailFsync
  <2>3. /\ phase = "run" /\ pc[t] = from
        /\ pc' = [pc EXCEPT ![t] = "thread_done"]
    BY <1>1, <2>1, GotoFrom
  <2> QED BY <1>3, <2>1, <2>2, <2>3, FinalMoves DEF Places
<1>8. CASE Count(t)
  <2>1. PICK to \in {"get", "thread_done"} : Goto(t, "count", to)
    BY <1>8 DEF Count
  <2>2. errors' = errors
    BY <1>8 DEF Count
  <2>3. phase = "run" /\ pc[t] = "count" /\ pc' = [pc EXCEPT ![t] = to]
    BY <1>1, <2>1, GotoFrom
  <2> QED BY <1>1, <1>3, <2>1, <2>2, <2>3, FinalMoves DEF Places
<1>9. CASE WaitForRoom(t) \/ file_thread_done(t)
  <2>1. \E from \in {"wait", "thread_done"},
           to \in {"fsync", "count", "thread_done", "done"} :
          Goto(t, from, to)
    <3>1. CASE WaitForRoom(t)
      <4>1. AfterIO(t) \in {"fsync", "count"}
        BY DEF AfterIO
      <4>2. Goto(t, "wait", AfterIO(t)) \/ Goto(t, "wait", "thread_done")
        BY <3>1 DEF WaitForRoom, file_wait
      <4> QED BY <4>1, <4>2
    <3>2. CASE file_thread_done(t)
      BY <3>2 DEF file_thread_done, file_wait
    <3> QED BY <1>9, <3>1, <3>2
  <2>2. PICK from \in {"wait", "thread_done"},
             to \in {"fsync", "count", "thread_done", "done"} :
          Goto(t, from, to)
    BY <2>1
  <2>3. errors' = errors
    BY <1>9 DEF WaitForRoom, file_wait, file_thread_done
  <2>4. phase = "run" /\ pc[t] = from /\ pc' = [pc EXCEPT ![t] = to]
    BY <1>1, <2>2, GotoFrom
  <2> QED BY <1>1, <1>3, <2>2, <2>3, <2>4, FinalMoves DEF Places
<1> QED BY <1>4, <1>5, <1>6, <1>7, <1>8, <1>9

LEMMA FinalReject ==
  ASSUME FinalInv, GenInv', NEW t \in Threads, Reject(t)
  PROVE  FinalInv'
<1>1. FinalTypes /\ errors \in Nat
  BY DEF FinalInv, FinalTypes
<1>2. /\ cfg' = cfg /\ phase' = phase /\ UNCHANGED genVars
      /\ UNCHANGED <<req, unsynced, inFlight, queued>> /\ errors' = errors
      /\ ~RequestChecked(req[t]) /\ Goto(t, "exec", "thread_done")
  BY DEF Reject, Fail, UnchangedByExecute, aioVars
<1>3. /\ phase = "run" /\ pc[t] = "exec"
      /\ pc' = [pc EXCEPT ![t] = "thread_done"]
  BY <1>1, <1>2, GotoFrom
<1>4. \A f \in Files : req[t] # FsyncOf(f)
  BY <1>2, <1>3, RejectsNoFsync
<1> QED BY <1>1, <1>2, <1>3, <1>4, FinalMoves DEF Places

(* A write that ends was in progress. *)
LEMMA FinalEndWrite ==
  ASSUME FinalInv, GenInv', NEW t \in Threads, EndWrite(t)
  PROVE  FinalInv'
<1>1. FinalTypes /\ WritesKnown /\ errors \in Nat
  BY DEF FinalInv, FinalTypes
<1>2. /\ cfg' = cfg /\ phase' = phase /\ UNCHANGED genVars
      /\ UNCHANGED <<req, inFlight, queued, errors>>
      /\ Goto(t, "write", AfterIO(t))
      /\ unsynced' = unsynced \cup {req[t].file}
  BY DEF EndWrite, UnchangedByExecute, aioVars
<1>3. PICK to \in {"fsync", "count"} : to = AfterIO(t)
  BY DEF AfterIO
<1>4. phase = "run" /\ pc[t] = "write" /\ pc' = [pc EXCEPT ![t] = to]
  BY <1>1, <1>2, <1>3, GotoFrom
<1>5. req[t].op = "WRITE" /\ req[t].file \in Files
  BY <1>1, <1>4 DEF WritesKnown
<1>6. Files' = Files
  BY <1>2 DEF Files, num_files
<1>7. \A u \in Threads : pc'[u] = IF u = t THEN to ELSE pc[u]
  BY <1>1, <1>4 DEF FinalTypes
<1>8. FinalTypes'
  BY <1>1, <1>2, <1>4, <1>6 DEF FinalTypes, Places
<1>9. WritesKnown'
  BY <1>1, <1>2, <1>5, <1>6, <1>7 DEF WritesKnown
<1>10. FinalBegun'
  BY <1>2, <1>4 DEF FinalInv, FinalBegun, LimitReached, file_fsync_end, genVars
<1>11. AllSettled'
  <2>1. ASSUME NEW f, Settled(f) PROVE Settled(f)'
    <3>1. WritersOf(f)' \subseteq WritersOf(f)
      BY <1>2, <1>7 DEF WritersOf
    <3>2. CASE \E u \in Threads : pc[u] = "exec" /\ req[u] = FsyncOf(f)
      BY <1>2, <1>4, <1>7, <3>2 DEF Settled, FsyncOf
    <3>3. CASE inFlight[f] # {}
      BY <1>2, <3>3 DEF Settled
    <3>4. CASE f \notin unsynced /\ WritersOf(f) = {}
      <4>1. f # req[t].file
        BY <1>4, <1>5, <3>4 DEF WritersOf
      <4> QED BY <1>2, <3>1, <3>4, <4>1 DEF Settled
    <3> QED BY <2>1, <3>2, <3>3, <3>4 DEF Settled
  <2> QED BY <1>2, <1>6, <2>1 DEF FinalInv, AllSettled, genVars
<1> QED BY <1>8, <1>9, <1>10, <1>11 DEF FinalInv

(* An fsync settles its file. *)
LEMMA FinalFsync ==
  ASSUME FinalInv, GenInv', NEW t \in Threads, Fsync(t)
  PROVE  FinalInv'
<1>1. FinalTypes /\ WritesKnown /\ errors \in Nat
  BY DEF FinalInv, FinalTypes
<1>2. /\ cfg' = cfg /\ phase' = phase /\ UNCHANGED genVars
      /\ UNCHANGED <<req, queued, errors>>
  BY DEF Fsync, UnchangedByExecute, aioVars
<1>3. \/ pc[t] = "fsync" /\ Goto(t, "fsync", "count")
      \/ /\ req[t].op = "FSYNC"
         /\ Goto(t, "exec", IF cfg.fsync_all THEN "get" ELSE "count")
  BY DEF Fsync
<1>4. PICK to \in {"count", "get"} : /\ pc[t] \in {"fsync", "exec"}
                                     /\ phase = "run"
                                     /\ pc' = [pc EXCEPT ![t] = to]
  BY <1>1, <1>3, GotoFrom
<1>5. \/ cfg.fsync_all /\ UNCHANGED <<unsynced, inFlight>>
      \/ /\ unsynced' = unsynced \ {req[t].file}
         /\ inFlight' = [inFlight EXCEPT ![req[t].file] = WritersOf(req[t].file)]
  BY DEF Fsync
<1>6. Files' = Files
  BY <1>2 DEF Files, num_files
<1>7. \A u \in Threads : pc'[u] = IF u = t THEN to ELSE pc[u]
  BY <1>1, <1>4 DEF FinalTypes
<1>8. FinalTypes'
  <2>1. inFlight' = [f \in Files |-> inFlight'[f]]
    BY <1>1, <1>5 DEF FinalTypes
  <2> QED BY <1>1, <1>2, <1>4, <1>6, <2>1 DEF FinalTypes, Places
<1>9. WritesKnown'
  <2>1. unsynced' \subseteq unsynced
    BY <1>5
  <2> QED BY <1>1, <1>2, <1>6, <1>7, <2>1 DEF WritesKnown
<1>10. FinalBegun'
  BY <1>2, <1>4 DEF FinalInv, FinalBegun, LimitReached, file_fsync_end, genVars
<1>11. AllSettled'
  <2>1. ASSUME NEW f \in Files, Settled(f), file_fsync_end PROVE Settled(f)'
    <3>1. WritersOf(f)' \subseteq WritersOf(f)
      BY <1>2, <1>7 DEF WritersOf
    <3>2. /\ unsynced' = unsynced \ {req[t].file}
          /\ inFlight' = [inFlight EXCEPT ![req[t].file] =
                            WritersOf(req[t].file)]
      BY <1>5, <2>1 DEF file_fsync_end
    <3>3. CASE f = req[t].file
      <4>1. f \notin unsynced' /\ inFlight'[f] = WritersOf(f)
        BY <1>1, <3>2, <3>3 DEF FinalTypes
      <4> QED BY <3>1, <4>1 DEF Settled
    <3>4. CASE f # req[t].file
      <4>1. inFlight'[f] = inFlight[f] /\ unsynced' \subseteq unsynced
        BY <1>1, <3>2, <3>4 DEF FinalTypes
      <4>2. CASE \E u \in Threads : pc[u] = "exec" /\ req[u] = FsyncOf(f)
        <5>1. PICK u \in Threads : pc[u] = "exec" /\ req[u] = FsyncOf(f)
          BY <4>2
        <5>2. u # t
          BY <3>4, <5>1 DEF FsyncOf
        <5> QED BY <1>2, <1>7, <5>1, <5>2 DEF Settled, FsyncOf
      <4>3. CASE inFlight[f] # {}
        BY <4>1, <4>3 DEF Settled
      <4>4. CASE f \notin unsynced /\ WritersOf(f) = {}
        BY <3>1, <4>1, <4>4 DEF Settled
      <4> QED BY <2>1, <4>2, <4>3, <4>4 DEF Settled
    <3> QED BY <3>3, <3>4
  <2>2. ASSUME NEW f \in Files, f < fsynced_file2 PROVE fsynced_file2 > 0
    BY <2>2, GenConstants DEF FinalInv, GenInv, GenTypes
  <2> QED BY <1>2, <1>6, <2>1, <2>2
          DEF FinalInv, FinalBegun, AllSettled, genVars
<1> QED BY <1>8, <1>9, <1>10, <1>11 DEF FinalInv

(* A write that is queued stays in progress. *)
LEMMA FinalSubmit ==
  ASSUME FinalInv, GenInv', NEW t \in Threads, file_submit_or_wait(t)
  PROVE  FinalInv'
<1>1. FinalTypes /\ WritesKnown /\ errors \in Nat
  BY DEF FinalInv, FinalTypes
<1> DEFINE op == [req[t] EXCEPT !.size = req_performed]
<1>2. /\ cfg' = cfg /\ phase' = phase /\ UNCHANGED genVars
      /\ UNCHANGED <<req, unsynced, inFlight, errors>>
      /\ req[t].op \in {"READ", "WRITE"} /\ req[t].file \in Files
      /\ queued' = [queued EXCEPT ![t] = @ \cup {op}]
      /\ Goto(t, "exec", IF RoomInQueue(t) THEN AfterIO(t) ELSE "wait")
  BY DEF file_submit_or_wait, UnchangedByExecute
<1>3. op.op = req[t].op /\ op.file = req[t].file
  BY <1>1 DEF FinalTypes, Fields
<1> HIDE DEF op
<1>4. PICK to \in {"fsync", "count", "wait"} :
        to = IF RoomInQueue(t) THEN AfterIO(t) ELSE "wait"
  BY DEF AfterIO
<1>5. phase = "run" /\ pc[t] = "exec" /\ pc' = [pc EXCEPT ![t] = to]
  BY <1>1, <1>2, <1>4, GotoFrom
<1>6. Files' = Files
  BY <1>2 DEF Files, num_files
<1>7. \A u \in Threads : pc'[u] = IF u = t THEN to ELSE pc[u]
  BY <1>1, <1>5 DEF FinalTypes
<1>8. \A u \in Threads :
        queued'[u] = IF u = t THEN queued[u] \cup {op} ELSE queued[u]
  BY <1>1, <1>2 DEF FinalTypes
<1>9. FinalTypes'
  <2>1. queued' = [u \in Threads |-> queued'[u]]
    BY <1>1, <1>2 DEF FinalTypes
  <2> QED BY <1>1, <1>2, <1>5, <1>6, <2>1 DEF FinalTypes, Places
<1>10. WritesKnown'
  BY <1>1, <1>2, <1>3, <1>6, <1>7, <1>8 DEF WritesKnown
<1>11. FinalBegun'
  BY <1>2, <1>5 DEF FinalInv, FinalBegun, LimitReached, file_fsync_end, genVars
<1>12. AllSettled'
  <2>1. ASSUME NEW f, Settled(f) PROVE Settled(f)'
    <3>1. WritersOf(f)' \subseteq WritersOf(f)
      BY <1>2, <1>3, <1>5, <1>7, <1>8 DEF WritersOf
    <3>2. CASE \E u \in Threads : pc[u] = "exec" /\ req[u] = FsyncOf(f)
      <4>1. PICK u \in Threads : pc[u] = "exec" /\ req[u] = FsyncOf(f)
        BY <3>2
      <4>2. u # t
        BY <1>2, <4>1 DEF FsyncOf
      <4> QED BY <1>2, <1>7, <4>1, <4>2 DEF Settled, FsyncOf
    <3>3. CASE inFlight[f] # {}
      BY <1>2, <3>3 DEF Settled
    <3>4. CASE f \notin unsynced /\ WritersOf(f) = {}
      BY <1>2, <3>1, <3>4 DEF Settled
    <3> QED BY <2>1, <3>2, <3>3, <3>4 DEF Settled
  <2> QED BY <1>2, <1>6, <2>1 DEF FinalInv, AllSettled, genVars
<1> QED BY <1>9, <1>10, <1>11, <1>12 DEF FinalInv

(* So is one the kernel finishes. *)
LEMMA FinalAio ==
  ASSUME FinalInv, GenInv', NEW t \in Threads, AioComplete(t)
  PROVE  FinalInv'
<1>1. FinalTypes /\ WritesKnown /\ errors \in Nat
  BY DEF FinalInv, FinalTypes
<1>2. /\ cfg' = cfg /\ phase' = phase /\ UNCHANGED genVars
      /\ UNCHANGED <<pc, req, inFlight>>
  BY DEF AioComplete
<1>3. PICK o \in queued[t] :
        /\ Error \/ NoError
        /\ queued' = [queued EXCEPT ![t] = @ \ {o}]
        /\ \/ unsynced' = unsynced
           \/ o.op = "WRITE" /\ unsynced' = unsynced \cup {o.file}
  BY DEF AioComplete
<1>4. errors' \in Nat /\ (errors' = 0 => errors = 0)
  BY <1>1, <1>3, ErrorCounts
<1>5. o.file \in Files
  BY <1>1 DEF WritesKnown
<1>6. Files' = Files
  BY <1>2 DEF Files, num_files
<1>7. \A u \in Threads :
        queued'[u] = IF u = t THEN queued[u] \ {o} ELSE queued[u]
  BY <1>1, <1>3 DEF FinalTypes
<1>8. FinalTypes'
  <2>1. queued' = [u \in Threads |-> queued'[u]]
    BY <1>1, <1>3 DEF FinalTypes
  <2> QED BY <1>1, <1>2, <1>4, <1>6, <2>1 DEF FinalTypes
<1>9. WritesKnown'
  BY <1>1, <1>2, <1>3, <1>5, <1>6, <1>7 DEF WritesKnown
<1>10. FinalBegun'
  BY <1>2 DEF FinalInv, FinalBegun, LimitReached, file_fsync_end, genVars
<1>11. AllSettled'
  <2>1. ASSUME NEW f, Settled(f) PROVE Settled(f)'
    <3>1. WritersOf(f)' \subseteq WritersOf(f)
      BY <1>2, <1>7 DEF WritersOf
    <3>2. CASE \E u \in Threads : pc[u] = "exec" /\ req[u] = FsyncOf(f)
      BY <1>2, <3>2 DEF Settled, FsyncOf
    <3>3. CASE inFlight[f] # {}
      BY <1>2, <3>3 DEF Settled
    <3>4. CASE f \notin unsynced /\ WritersOf(f) = {}
      <4>1. o.op = "WRITE" => f # o.file
        BY <3>4 DEF WritersOf
      <4> QED BY <1>3, <3>1, <3>4, <4>1 DEF Settled
    <3> QED BY <2>1, <3>2, <3>3, <3>4 DEF Settled
  <2> QED BY <1>2, <1>4, <1>6, <2>1 DEF FinalInv, AllSettled, genVars
<1> QED BY <1>8, <1>9, <1>10, <1>11 DEF FinalInv

(* A runner is handed a request. *)
LEMMA FinalGive ==
  ASSUME FinalInv, NEW t \in Threads, NEW r, Give(t, r), DOMAIN r = Fields,
         cfg' = cfg, UNCHANGED <<unsynced, inFlight, queued, errors>>
  PROVE  /\ FinalTypes' /\ WritesKnown'
         /\ phase = "run" /\ pc[t] = "get"
         /\ pc'[t] = (IF r = NullReq THEN "thread_done" ELSE "exec")
         /\ req'[t] = r
         /\ \A u \in Threads : u # t => pc'[u] = pc[u] /\ req'[u] = req[u]
<1>1. FinalTypes /\ WritesKnown
  BY DEF FinalInv
<1>2. PICK to \in {"thread_done", "exec"} :
        to = IF r = NullReq THEN "thread_done" ELSE "exec"
  OBVIOUS
<1>3. /\ phase = "run" /\ pc[t] = "get" /\ pc' = [pc EXCEPT ![t] = to]
      /\ req' = [req EXCEPT ![t] = r]
  BY <1>1, <1>2, GotoFrom DEF Give
<1>4. Files' = Files
  BY DEF Files, num_files
<1>5. \A u \in Threads : /\ pc'[u] = IF u = t THEN to ELSE pc[u]
                         /\ req'[u] = IF u = t THEN r ELSE req[u]
  BY <1>1, <1>3 DEF FinalTypes
<1>6. FinalTypes'
  <2>1. pc' \in [Threads -> Places]
    BY <1>1, <1>3 DEF FinalTypes, Places
  <2>2. /\ DOMAIN req' = Threads /\ req' = [u \in Threads |-> req'[u]]
        /\ \A u \in Threads : DOMAIN req'[u] = Fields
    BY <1>1, <1>3 DEF FinalTypes
  <2> QED BY <1>1, <1>4, <2>1, <2>2 DEF FinalTypes
<1>7. WritesKnown'
  BY <1>1, <1>4, <1>5 DEF WritesKnown
<1> QED BY <1>2, <1>3, <1>5, <1>6, <1>7

(* Until the limit is reached, there is nothing to settle. *)
LEMMA FinalBefore ==
  ASSUME FinalInv, GenInv', FinalTypes', WritesKnown', cfg' = cfg,
         phase = "run", phase' = phase,
         ~LimitReached, fsynced_file2' = fsynced_file2
  PROVE  FinalInv'
<1>1. fsynced_file2 \in Nat /\ ~(fsynced_file2 > 0)
  BY DEF FinalInv, FinalBegun, GenInv, GenTypes
<1>2. fsynced_file2' = 0
  BY <1>1
<1>3. FinalBegun'
  BY <1>2 DEF FinalBegun
<1>4. AllSettled'
  <2>1. \A f \in Files' : ~(f < 0)
    BY GenConstants DEF FinalInv, GenInv, Files, num_files
  <2> QED BY <1>2, <2>1 DEF AllSettled
<1> QED BY <1>3, <1>4 DEF FinalInv

(* Without a write, nothing that is settled is unsettled. *)
LEMMA FinalStill ==
  ASSUME FinalInv, NEW t \in Threads, NEW f, Settled(f),
         pc[t] = "get", req'[t].op # "WRITE",
         \A u \in Threads : u # t => pc'[u] = pc[u] /\ req'[u] = req[u],
         UNCHANGED <<unsynced, inFlight, queued>>
  PROVE  Settled(f)'
<1>1. WritersOf(f)' \subseteq WritersOf(f)
  BY DEF WritersOf
<1>2. CASE \E u \in Threads : pc[u] = "exec" /\ req[u] = FsyncOf(f)
  BY <1>2 DEF Settled, FsyncOf
<1>3. CASE inFlight[f] # {}
  BY <1>3 DEF Settled
<1>4. CASE f \notin unsynced /\ WritersOf(f) = {}
  BY <1>1, <1>4 DEF Settled
<1> QED BY <1>2, <1>3, <1>4 DEF Settled

LEMMA FinalRequest ==
  ASSUME FinalInv, GenInv', NEW t \in Threads, file_get_request(t)
  PROVE  FinalInv'
<1>1. /\ phase = "run" /\ cfg' = cfg /\ phase' = phase
      /\ UNCHANGED <<unsynced, errors, queued>>
  BY DEF file_get_request, aioVars
<1>0. Files' = Files
  BY <1>1 DEF Files, num_files
<1>2. CASE GivePeriodicFsync(t)
  <2>1. /\ ~LimitReached /\ fsynced_file2' = fsynced_file2
        /\ inFlight' = inFlight /\ Give(t, FsyncOf(fsynced_file))
    BY <1>2 DEF GivePeriodicFsync
  <2>2. DOMAIN FsyncOf(fsynced_file) = Fields
    BY DEF FsyncOf, Fields
  <2>3. FinalTypes' /\ WritesKnown'
    BY <1>1, <2>1, <2>2, FinalGive
  <2> QED BY <1>1, <2>1, <2>3, FinalBefore
<1>3. CASE file_get_seq_request(t) \/ file_get_rnd_request(t)
  <2>1. /\ ~LimitReached /\ fsynced_file2' = fsynced_file2
        /\ inFlight' = inFlight
    BY <1>3 DEF file_get_seq_request, file_get_rnd_request
  <2>2. \E r : DOMAIN r = Fields /\ Give(t, r)
    <3>1. CASE file_get_seq_request(t)
      BY <3>1 DEF file_get_seq_request, Fields
    <3>2. CASE file_get_rnd_request(t)
      BY <3>2 DEF file_get_rnd_request, Fields
    <3> QED BY <1>3, <3>1, <3>2
  <2>3. FinalTypes' /\ WritesKnown'
    BY <1>1, <2>1, <2>2, FinalGive
  <2> QED BY <1>1, <2>1, <2>3, FinalBefore
<1>4. CASE GiveNull(t)
  <2>1. UNCHANGED genVars /\ inFlight' = inFlight /\ Give(t, NullReq)
    BY <1>4 DEF GiveNull
  <2>2. DOMAIN NullReq = Fields /\ NullReq.op = "NULL"
    BY DEF NullReq, Fields
  <2>3. /\ FinalTypes' /\ WritesKnown' /\ pc[t] = "get" /\ req'[t] = NullReq
        /\ \A u \in Threads : u # t => pc'[u] = pc[u] /\ req'[u] = req[u]
    BY <1>1, <2>1, <2>2, FinalGive
  <2>4. FinalBegun'
    BY <1>1, <2>1
       DEF FinalInv, FinalBegun, LimitReached, file_fsync_end, genVars
  <2>5. \A f : Settled(f) => Settled(f)'
    BY <1>1, <2>1, <2>2, <2>3, FinalStill
  <2>6. AllSettled'
    BY <1>0, <1>1, <2>1, <2>5 DEF FinalInv, AllSettled, genVars
  <2> QED BY <2>3, <2>4, <2>6 DEF FinalInv
<1>5. CASE GiveFinalFsync(t)
  <2> DEFINE r == FsyncOf(fsynced_file2)
  <2>1. /\ LimitReached /\ file_fsync_end /\ Give(t, r)
        /\ fsynced_file2' = fsynced_file2 + 1
        /\ inFlight' = inFlight /\ req_performed' = req_performed
    BY <1>5 DEF GiveFinalFsync, FinalDue
  <2>2. DOMAIN r = Fields /\ r.op = "FSYNC" /\ r # NullReq
    BY DEF FsyncOf, Fields, NullReq
  <2>3. /\ FinalTypes' /\ WritesKnown' /\ pc[t] = "get"
        /\ pc'[t] = "exec" /\ req'[t] = r
        /\ \A u \in Threads : u # t => pc'[u] = pc[u] /\ req'[u] = req[u]
    BY <1>1, <2>1, <2>2, FinalGive
  <2>4. FinalBegun'
    BY <1>1, <2>1 DEF FinalInv, FinalBegun, LimitReached, file_fsync_end
  <2>5. \A f : Settled(f) => Settled(f)'
    BY <1>1, <2>1, <2>2, <2>3, FinalStill
  <2>6. ASSUME NEW f, f = fsynced_file2 PROVE Settled(f)'
    <3>2. pc'[t] = "exec" /\ req'[t] = FsyncOf(f)
      BY <2>3, <2>6
    <3>3. \E u \in Threads : pc'[u] = "exec" /\ req'[u] = FsyncOf(f)
      BY <3>2
    <3> QED BY <3>3 DEF Settled, FsyncOf
  <2>7. AllSettled'
    <3>1. fsynced_file2 \in Nat /\ Files \subseteq Nat
      BY GenConstants DEF FinalInv, GenInv, GenTypes
    <3>2. \A f \in Files : f < fsynced_file2' =>
                             f < fsynced_file2 \/ f = fsynced_file2
      BY <2>1, <3>1
    <3> QED BY <1>0, <1>1, <2>5, <2>6, <3>2 DEF FinalInv, AllSettled
  <2> QED BY <2>3, <2>4, <2>7 DEF FinalInv
<1> QED BY <1>2, <1>3, <1>4, <1>5 DEF file_get_request

LEMMA FinalNext ==
  ASSUME FinalInv, [Next]_vars
  PROVE  FinalInv'
<1>1. GenInv'
  BY GenNext DEF FinalInv
<1>2. errors \in Nat /\ (phase = "done" => \A t \in Threads : pc[t] = "done")
  BY DEF FinalInv, FinalTypes, FinalBegun
<1>3. CASE \/ file_cmd_prepare \/ file_prepare \/ PrintIntermediate
           \/ PrintCumulative \/ file_done \/ file_cmd_cleanup
           \/ UNCHANGED vars
  <2>1. /\ cfg' = cfg /\ UNCHANGED genVars
        /\ UNCHANGED <<pc, req, unsynced, inFlight, queued>>
    BY <1>3, CommandQuiet
  <2>2. Error \/ NoError
    BY <1>3 DEF file_cmd_prepare, file_prepare, PrintIntermediate,
                PrintCumulative, file_done, file_cmd_cleanup, NoError, vars
  <2>3. errors' \in Nat /\ (errors' = 0 => errors = 0)
    BY <1>2, <2>2, ErrorCounts
  <2>4. phase' = "done" => \A t \in Threads : pc[t] = "done"
    BY <1>2, <1>3
       DEF file_cmd_prepare, file_prepare, PrintIntermediate,
           PrintCumulative, file_done, file_cmd_cleanup, vars
  <2> QED BY <1>1, <2>1, <2>3, <2>4, FinalQuiet
<1>4. ASSUME NEW t \in Threads, RunnerStep(t) \/ AioComplete(t)
      PROVE  FinalInv'
  <2>1. CASE AioComplete(t)
    BY <1>1, <2>1, FinalAio
  <2>2. CASE RunnerStep(t)
    BY <1>1, <2>2, FinalRequest, FinalReject, FinalOthers, FinalEndWrite,
       FinalFsync, FinalSubmit DEF RunnerStep
  <2> QED BY <1>4, <2>1, <2>2
<1> QED BY <1>3, <1>4 DEF Next, Terminated

LEMMA FinalSettles ==
  ASSUME FinalInv
  PROVE  UnsyncedInFlight
<1> SUFFICES ASSUME phase = "done", errors = 0, fsynced_file2 = num_files,
                    NEW f \in unsynced
             PROVE  inFlight[f] # {}
  BY DEF UnsyncedInFlight
<1>1. f \in Files /\ f < fsynced_file2
  BY GenConstants DEF FinalInv, WritesKnown, GenInv
<1>2. Settled(f)
  BY <1>1 DEF FinalInv, AllSettled
<1>3. \A t \in Threads : pc[t] # "exec"
  BY DEF FinalInv, FinalBegun
<1> QED BY <1>2, <1>3 DEF Settled

(* What the final fsyncs have been to is synced, or a write was in         *)
(* progress that they overtook.                                            *)
THEOREM FinalFsyncs == Spec => []FinalInv
<1>1. Init => FinalInv
  BY FinalInit
<1>2. FinalInv /\ [Next]_vars => FinalInv'
  BY FinalNext
<1> QED BY <1>1, <1>2, PTL DEF Spec

(* After a run without errors in which every file had its final fsync, a   *)
(* file with data that is not on disk is one whose final fsync was made    *)
(* while a write of it was in progress: nothing else can be missed, with   *)
(* any number of threads and files and every way of doing I/O.             *)
THEOREM SyncedAtTheEnd == Spec => []UnsyncedInFlight
BY FinalFsyncs, FinalSettles, PTL
-----------------------------------------------------------------------------
(* The order of the sequential requests *)

(* The last sequential request, if any, ended its file, or the next one    *)
(* goes on where it ended.                                                 *)
Follows ==
  \/ prev_req.op = "NULL"
  \/ /\ prev_req.file \in Int /\ prev_req.pos \in Int /\ prev_req.size \in Int
     /\ \/ /\ prev_req.pos + prev_req.size = file_size
           /\ position = 0 /\ current_file = prev_req.file + 1
        \/ /\ position = prev_req.pos + prev_req.size
           /\ current_file = prev_req.file /\ current_file < num_files

SeqInv ==
  /\ position \in Int /\ current_file \in Nat /\ current_file <= num_files
  /\ ~cfg.validate => prev_req.op = "NULL" /\ alarms = {}
  /\ alarms \subseteq {"sequence", "checksum"}
  /\ Follows
  /\ "sequence" \in alarms => num_files = 1

LEMMA SeqInit ==
  ASSUME Init
  PROVE  SeqInv
<1>1. num_files \in Nat
  BY FileIOAssumption DEF Init, Options, num_files
<1> QED BY <1>1 DEF Init, SeqInv, Follows, NullReq

(* Steps that hand out no sequential request. *)
LEMMA SeqQuiet ==
  ASSUME SeqInv, cfg' = cfg, UNCHANGED <<position, current_file, prev_req>>,
         \/ alarms' = alarms
         \/ cfg.validate /\ alarms' = alarms \cup {"checksum"}
  PROVE  SeqInv'
<1>1. Follows'
  BY DEF SeqInv, Follows, num_files, file_size
<1>2. /\ alarms' \subseteq {"sequence", "checksum"}
      /\ "sequence" \in alarms' => "sequence" \in alarms
      /\ ~cfg.validate' => alarms' = {}
  BY DEF SeqInv
<1> QED BY <1>1, <1>2 DEF SeqInv, num_files

LEMMA SeqRequest ==
  ASSUME GenInv, SeqInv, NEW t \in Threads, phase = "run", cfg' = cfg,
         file_get_seq_request(t)
  PROVE  SeqInv'
<1> DEFINE rewind == current_file = num_files
           f == IF rewind THEN 0 ELSE current_file
           p == IF rewind THEN 0 ELSE position
           fits == p + file_max_request_size <= file_size
           r == [op |-> IF cfg.mode = "seqrd" THEN "READ" ELSE "WRITE",
                 file |-> f, pos |-> p,
                 size |-> IF cfg.merged_requests > 0 /\ ~fits
                          THEN file_size - p ELSE file_max_request_size]
           end == p + r.size = file_size
<1>1. /\ position' = IF end THEN 0 ELSE p + r.size
      /\ current_file' = IF end THEN f + 1 ELSE f
      /\ prev_req' = IF cfg.validate THEN r ELSE prev_req
      /\ alarms' = IF cfg.validate /\ OutOfSequence(prev_req, r)
                   THEN alarms \cup {"sequence"} ELSE alarms
  BY DEF file_get_seq_request
<1>2. /\ num_files \in Nat /\ num_files > 0
      /\ num_files' = num_files /\ file_size' = file_size
  BY GenConstants DEF GenInv, num_files, file_size
<1>3. file_size \in Int /\ file_max_request_size \in Int
  <2>1. /\ cfg.total_size \in Nat /\ cfg.block_size \in Nat
        /\ cfg.merged_requests \in Nat
    BY FileIOAssumption DEF GenInv, GenTypes, Options
  <2> QED BY <1>2, <2>1 DEF file_size, file_max_request_size
<1>4. /\ position \in Int /\ current_file \in Nat /\ current_file <= num_files
      /\ ~cfg.validate => prev_req.op = "NULL" /\ alarms = {}
      /\ alarms \subseteq {"sequence", "checksum"}
      /\ "sequence" \in alarms => num_files = 1
  BY DEF SeqInv
<1>5. PICK z : z = r.size
  OBVIOUS
<1>6. /\ r.file = f /\ r.pos = p /\ z \in Int
      /\ r.op # "NULL"
  BY <1>3, <1>4, <1>5
<1>7. f \in Nat /\ f < num_files /\ p \in Int
  BY <1>2, <1>4
<1>8. /\ position' = IF p + z = file_size THEN 0 ELSE p + z
      /\ current_file' = IF p + z = file_size THEN f + 1 ELSE f
  BY <1>1, <1>5
<1>9. position' \in Int /\ current_file' \in Nat /\ current_file' <= num_files
  BY <1>2, <1>3, <1>6, <1>7, <1>8
<1>10. Follows'
  <2>1. CASE cfg.validate
    <3>1. /\ prev_req'.file = f /\ prev_req'.pos = p /\ prev_req'.size = z
      BY <1>1, <1>5, <1>6, <2>1
    <3> HIDE DEF f, p, r, end, fits
    <3>2. CASE p + z = file_size
      BY <1>2, <1>3, <1>6, <1>7, <1>8, <3>1, <3>2 DEF Follows
    <3>3. CASE p + z # file_size
      BY <1>2, <1>3, <1>6, <1>7, <1>8, <3>1, <3>3 DEF Follows
    <3> QED BY <3>2, <3>3
  <2>2. CASE ~cfg.validate
    BY <1>1, <1>4, <2>2 DEF Follows
  <2> QED BY <2>1, <2>2
<1>11. num_files # 1 => ~OutOfSequence(prev_req, r)
  <2>1. SUFFICES ASSUME num_files # 1, prev_req.op # "NULL"
                 PROVE  ~OutOfSequence(prev_req, r)
    BY DEF OutOfSequence
  <2>2. PICK pf, pp, pz : /\ pf = prev_req.file /\ pp = prev_req.pos
                          /\ pz = prev_req.size
    OBVIOUS
  <2>3. /\ pf \in Int /\ pp \in Int /\ pz \in Int
        /\ \/ /\ pp + pz = file_size
              /\ position = 0 /\ current_file = pf + 1
           \/ /\ position = pp + pz
              /\ current_file = pf /\ current_file < num_files
    BY <2>1, <2>2 DEF SeqInv, Follows
  <2>4. \/ f - pf = 1 /\ p = 0 /\ pp + pz = file_size
        \/ f = 0 /\ pf = num_files - 1 /\ p = 0 /\ pp + pz = file_size
        \/ f = pf /\ p = pp + pz
    BY <1>2, <1>4, <2>3
  <2>5. f # pf \/ p - pp = pz
    BY <1>2, <1>7, <2>1, <2>3, <2>4
  <2> HIDE DEF f, p, r, end, fits
  <2> QED BY <1>2, <1>6, <1>7, <2>2, <2>3, <2>4, <2>5 DEF OutOfSequence
<1>12. /\ alarms' \subseteq {"sequence", "checksum"}
       /\ "sequence" \in alarms' => num_files = 1
       /\ ~cfg.validate => prev_req'.op = "NULL" /\ alarms' = {}
  BY <1>1, <1>4, <1>11
<1> QED BY <1>2, <1>9, <1>10, <1>12 DEF SeqInv

(* Who changes what the sequence depends on. *)
LEMMA SeqNext ==
  ASSUME GenInv, SeqInv, [Next]_vars
  PROVE  SeqInv'
<1>1. CASE \/ file_cmd_prepare \/ file_prepare \/ PrintIntermediate
           \/ PrintCumulative \/ file_done \/ file_cmd_cleanup
           \/ UNCHANGED vars
  <2>1. cfg' = cfg /\ UNCHANGED <<position, current_file, prev_req>>
    BY <1>1, CommandQuiet DEF genVars
  <2>2. alarms' = alarms
    BY <1>1 DEF file_cmd_prepare, file_prepare, PrintIntermediate,
                PrintCumulative, file_done, file_cmd_cleanup,
                UnchangedByCommand, vars
  <2> QED BY <2>1, <2>2, SeqQuiet
<1>2. ASSUME NEW t \in Threads, RunnerStep(t) \/ AioComplete(t)
      PROVE  SeqInv'
  <2>1. CASE file_get_request(t)
    <3>1. phase = "run" /\ cfg' = cfg
      BY <2>1 DEF file_get_request
    <3>2. CASE file_get_seq_request(t)
      BY <3>1, <3>2, SeqRequest
    <3>3. CASE ~file_get_seq_request(t)
      <4>1. /\ UNCHANGED <<position, current_file, prev_req>>
            /\ alarms' = alarms
        BY <2>1, <3>3
           DEF file_get_request, GivePeriodicFsync, GiveFinalFsync, GiveNull,
               file_get_rnd_request, genVars
      <4> QED BY <3>1, <4>1, SeqQuiet
    <3> QED BY <3>2, <3>3
  <2>2. CASE ~file_get_request(t)
    <3>1. cfg' = cfg /\ UNCHANGED <<position, current_file, prev_req>>
      BY <1>2, <2>2, RunnerQuiet DEF genVars
    <3>2. CASE EndRead(t)
      <4>1. \/ alarms' = alarms
            \/ cfg.validate /\ alarms' = alarms \cup {"checksum"}
        BY <3>2 DEF EndRead
      <4> QED BY <3>1, <4>1, SeqQuiet
    <3>3. CASE ~EndRead(t)
      <4>1. alarms' = alarms
        BY <1>2, <2>2, <3>3
           DEF RunnerStep, AioComplete, Reject, BeginIO, FailIO, EndWrite,
               Fsync, FailFsync, Count, file_submit_or_wait, WaitForRoom,
               file_wait, file_thread_done
      <4> QED BY <3>1, <4>1, SeqQuiet
    <3> QED BY <3>2, <3>3
  <2> QED BY <2>1, <2>2
<1> QED BY <1>1, <1>2 DEF Next, Terminated
-----------------------------------------------------------------------------
(* Blocks: positions that are multiples of the block size *)

LEMMA MultipleIff ==
  ASSUME NEW n \in Nat \ {0}, NEW k \in Nat
  PROVE  k % n = 0 <=> \E q \in Nat : k = q * n
<1>1. ASSUME k % n = 0 PROVE \E q \in Nat : k = q * n
  <2>1. k \div n \in Nat /\ k = (k \div n) * n
    BY <1>1, Division
  <2> QED BY <2>1
<1>2. ASSUME NEW q \in Nat, k = q * n PROVE k % n = 0
  <2>1. k = q * n + 0
    BY <1>2
  <2> QED BY <2>1, Remainder
<1> QED BY <1>1, <1>2

(* Different multiples are at least one apart. *)
LEMMA MultiplesApart ==
  ASSUME NEW n \in Nat \ {0}, NEW a \in Int, NEW b \in Int, a < b
  PROVE  a * n + n <= b * n
<1>1. PICK d \in Nat : b = a + 1 + d
  <2>1. b - a - 1 \in Nat /\ b = a + 1 + (b - a - 1)
    OBVIOUS
  <2> QED BY <2>1
<1>2. b * n = a * n + n + d * n
  BY <1>1
<1>3. d * n >= 0
  OBVIOUS
<1>4. PICK x \in Int, y \in Int, z \in Int :
        x = a * n /\ y = b * n /\ z = d * n
  OBVIOUS
<1> QED BY <1>2, <1>3, <1>4

LEMMA BlocksDisjoint ==
  ASSUME NEW n \in Nat \ {0}, NEW p \in Nat, NEW q \in Nat,
         p % n = 0, q % n = 0, p # q
  PROVE  Disjoint(<<p, n>>, <<q, n>>)
<1>1. PICK a \in Nat : p = a * n
  BY MultipleIff
<1>2. PICK b \in Nat : q = b * n
  BY MultipleIff
<1>3. a < b \/ b < a
  BY <1>1, <1>2
<1>4. CASE a < b
  BY <1>1, <1>2, <1>4, MultiplesApart DEF Disjoint
<1>5. CASE b < a
  BY <1>1, <1>2, <1>5, MultiplesApart DEF Disjoint
<1> QED BY <1>3, <1>4, <1>5

(* A block is followed by another one, or by the end of the file. *)
LEMMA BlockFits ==
  ASSUME NEW n \in Nat \ {0}, NEW p \in Nat, NEW s \in Nat,
         p % n = 0, s % n = 0, p < s
  PROVE  p + n <= s /\ (p + n) % n = 0
<1>1. PICK a \in Nat : p = a * n
  BY MultipleIff
<1>2. PICK b \in Nat : s = b * n
  BY MultipleIff
<1>3. a < b
  <2>1. CASE b <= a
    <3>1. b = a \/ b < a
      BY <2>1
    <3>2. b < a => b * n + n <= a * n
      BY MultiplesApart
    <3>3. s <= p
      BY <1>1, <1>2, <3>1, <3>2
    <3> QED BY <3>3
  <2> QED BY <2>1
<1>4. p + n <= s
  BY <1>1, <1>2, <1>3, MultiplesApart
<1>5. p + n = (a + 1) * n /\ a + 1 \in Nat /\ p + n \in Nat
  BY <1>1
<1>6. (p + n) % n = 0
  BY <1>5, MultipleIff
<1> QED BY <1>4, <1>6

(* A random block of the files is a block of its file. *)
LEMMA BlockOfFile ==
  ASSUME NEW n \in Nat \ {0}, NEW k \in Nat, NEW s \in Nat \ {0},
         k % n = 0, s % n = 0
  PROVE  k % s \in 0 .. s - 1 /\ (k % s) % n = 0
<1>1. PICK a \in Nat : k = a * n
  BY MultipleIff
<1>2. PICK b \in Nat : s = b * n
  BY MultipleIff
<1>3. PICK q \in Int, r \in 0 .. s - 1 : r = k % s /\ k = q * s + r
  BY Division
<1>4. q * s = (q * b) * n
  BY <1>2
<1>5. r = (a - q * b) * n + 0
  <2>1. (a - q * b) * n = a * n - (q * b) * n
    OBVIOUS
  <2> QED BY <1>1, <1>3, <1>4, <2>1
<1>6. r % n = 0
  BY <1>5, Remainder
<1> QED BY <1>3, <1>6

LEMMA RoundedUp ==
  ASSUME NEW n \in Nat \ {0}, NEW s \in Nat, s % n = 0
  PROVE  RoundUp(s, n) = s
<1>1. PICK b \in Nat : s = b * n
  BY MultipleIff
<1>2. s + n - 1 = b * n + (n - 1)
  BY <1>1
<1>3. (s + n - 1) \div n = b
  <2>0. PICK q \in Int, k \in Int, r \in 0 .. n - 1 :
          q = b /\ k = s + n - 1 /\ r = n - 1 /\ k = q * n + r
    BY <1>2
  <2>1. (s + n - 1) % n = n - 1
    <3>1. k = q * n + r
      BY <2>0
    <3>2. k % n = r
      BY <3>1, Remainder
    <3> QED BY <2>0, <3>2
  <2>2. /\ (s + n - 1) \div n \in Int
        /\ s + n - 1 = ((s + n - 1) \div n) * n + (n - 1)
    BY <2>1, Division
  <2>3. PICK c \in Int : c = (s + n - 1) \div n
    BY <2>2
  <2>4. c * n = b * n
    BY <1>1, <2>2, <2>3
  <2>5. c = b
    <3>1. c < b => c * n + n <= b * n
      BY MultiplesApart
    <3>2. b < c => b * n + n <= c * n
      BY MultiplesApart
    <3> QED BY <2>4, <3>1, <3>2
  <2> QED BY <2>3, <2>5
<1> QED BY <1>1, <1>3 DEF RoundUp
-----------------------------------------------------------------------------
(* The validation of blocks *)

Reading == cfg.mode \in {"seqrd", "rndrd", "rndrw"}
Random == cfg.mode \in {"rndrd", "rndrw"}

(* The options with which a checksum is one of a block. *)
Validated ==
  /\ cfg.validate /\ cfg.io # "async" /\ cfg.prepare
  /\ cfg.merged_requests <= 1 /\ WholeBlocks

(* A runner that is about to read or write, or does. *)
Active(t) ==
  pc[t] \in {"exec", "write", "read"} /\ req[t].op \in {"READ", "WRITE"}

Blocks == {<<p, cfg.block_size>> : p \in Starts(0, file_size)}

(* Where blocks are read, they are all whole. *)
DiskInv ==
  /\ disk = [f \in Files |-> disk[f]]
  /\ \A f \in Files : DOMAIN disk[f] = DOMAIN NoFile
  /\ phase = "start" => \A f \in Files : disk[f] = NoFile
  /\ phase = "prepared" \/ (phase = "run" /\ Reading) =>
       \A f \in Files : Blocks \subseteq disk[f].whole

RequestInv ==
  /\ \A t \in Threads : pc[t] = "read" => req[t].op = "READ"
  /\ \A t \in Threads : pc[t] \in {"read", "write"} => req[t].file \in Files
  /\ ~Reading => \A t \in Threads : req[t].op # "READ"
  /\ Reading => \A t \in Threads : Active(t) => Extent(req[t]) \in Blocks
  /\ cfg.mode = "seqrd" => \A t \in Threads : Active(t) => req[t].op = "READ"

(* In the random modes, no two runners are at the same block. *)
ClaimInv ==
  /\ claim = [t \in Threads |-> claim[t]]
  /\ Random => \A t \in Threads : Active(t) =>
       /\ claim[t] = <<req[t].file, req[t].pos>>
       /\ \A u \in Threads \ {t} : Active(u) => claim[u] # claim[t]

PositionInv == cfg.mode = "seqrd" => position \in Starts(0, file_size)

TornInv == Reading => \A t \in Threads : ~torn[t]

BlocksInv ==
  /\ "checksum" \notin alarms
  /\ DiskInv /\ RequestInv /\ ClaimInv /\ PositionInv /\ TornInv

ReadsInv == FinalInv /\ (Validated => BlocksInv)

LEMMA BlockConstants ==
  ASSUME GenInv, Validated
  PROVE  /\ cfg.block_size \in Nat \ {0} /\ file_size \in Nat \ {0}
         /\ file_size % cfg.block_size = 0
         /\ file_max_request_size = cfg.block_size
         /\ cfg.mode \in Modes /\ cfg.validate /\ cfg.prepare
         /\ cfg.total_size \in Nat
<1>1. /\ cfg.total_size \in Nat /\ cfg.block_size \in Nat
      /\ cfg.merged_requests \in Nat /\ cfg.mode \in Modes
      /\ num_files \in Nat
  BY FileIOAssumption DEF GenInv, GenTypes, Options, num_files
<1>2. /\ OptionsValid /\ file_size > 0 /\ file_size % cfg.block_size = 0
      /\ cfg.validate /\ cfg.prepare /\ cfg.merged_requests <= 1
  BY DEF Validated, WholeBlocks
<1>3. cfg.block_size > 0 /\ num_files > 0
  BY <1>2 DEF OptionsValid, num_files
<1>4. file_size \in Int
  BY <1>1, <1>3 DEF file_size
<1>5. (IF cfg.merged_requests > 0 THEN cfg.merged_requests ELSE 1) = 1
  BY <1>1, <1>2
<1>6. file_max_request_size = cfg.block_size
  BY <1>1, <1>5 DEF file_max_request_size
<1> QED BY <1>1, <1>2, <1>3, <1>4, <1>6

LEMMA BlockConstantsKept ==
  ASSUME cfg' = cfg
  PROVE  /\ Files' = Files /\ Blocks' = Blocks /\ Reading' = Reading
         /\ Random' = Random /\ Validated' = Validated
         /\ file_size' = file_size
         /\ Starts(0, file_size)' = Starts(0, file_size)
BY DEF Files, num_files, Blocks, Reading, Random, Validated, WholeBlocks,
       OptionsValid, file_size, Starts

LEMMA ReadsInit ==
  ASSUME Init
  PROVE  ReadsInv
<1>1. FinalInv
  BY FinalInit
<1>2. ASSUME Validated PROVE BlocksInv
  <2>1. DiskInv
    BY DEF Init, DiskInv
  <2>2. /\ RequestInv
    BY DEF Init, RequestInv, Active, NullReq
  <2>3. ClaimInv
    BY DEF Init, ClaimInv, Active
  <2>4. PositionInv
    BY <1>1, <1>2, BlockConstants DEF FinalInv, Init, PositionInv, Starts
  <2>5. TornInv
    BY DEF Init, TornInv
  <2> QED BY <2>1, <2>2, <2>3, <2>4, <2>5 DEF BlocksInv, Init
<1> QED BY <1>1, <1>2 DEF ReadsInv

(* Runners move on, or end their request. *)
LEMMA RequestMoves ==
  ASSUME cfg' = cfg, UNCHANGED <<req, genVars>>,
         \A u \in Threads : \/ pc'[u] = pc[u]
                            \/ pc'[u] \notin {"exec", "write", "read"},
         RequestInv, ClaimInv, PositionInv
  PROVE  RequestInv' /\ ClaimInv' /\ PositionInv'
<1>1. \A u \in Threads : Active(u)' => Active(u)
  BY DEF Active
<1>2. /\ \A u \in Threads : pc'[u] = "read" => pc[u] = "read"
      /\ \A u \in Threads : pc'[u] = "write" => pc[u] = "write"
  OBVIOUS
<1>3. RequestInv'
  BY <1>1, <1>2, BlockConstantsKept DEF RequestInv, Extent
<1>4. claim' = claim /\ position' = position
  BY DEF genVars
<1>5. ClaimInv'
  BY <1>1, <1>4, BlockConstantsKept DEF ClaimInv
<1>6. PositionInv'
  BY <1>4, BlockConstantsKept DEF PositionInv
<1> QED BY <1>3, <1>5, <1>6

LEMMA DiskKept ==
  ASSUME DiskInv, cfg' = cfg, phase' = phase, disk' = disk
  PROVE  DiskInv'
BY BlockConstantsKept DEF DiskInv, NoFile

LEMMA TornKept ==
  ASSUME TornInv, cfg' = cfg, torn' = torn
  PROVE  TornInv'
BY BlockConstantsKept DEF TornInv

(* prepare writes whole blocks from the beginning of each file. *)
LEMMA CreatedWhole ==
  ASSUME GenInv, Validated, NEW f \in Files, disk[f] = NoFile
  PROVE  Blocks \subseteq Created(f).whole
<1>1. /\ cfg.block_size \in Nat \ {0} /\ file_size \in Nat \ {0}
      /\ file_size % cfg.block_size = 0
  BY BlockConstants
<1>2. disk[f].size = 0
  BY DEF NoFile
<1>3. file_size - 0 = file_size /\ ~(0 >= file_size)
  BY <1>1
<1>4. RoundUp(file_size, cfg.block_size) = file_size
  BY <1>1, RoundedUp
<1>5. 0 + file_size = file_size
  BY <1>1
<1> HIDE DEF file_size
<1> QED BY <1>2, <1>3, <1>4, <1>5 DEF Created, Blocks

LEMMA CommandDisk ==
  ASSUME GenInv, Validated, DiskInv, cfg' = cfg,
         \/ file_cmd_prepare \/ file_prepare \/ PrintIntermediate
         \/ PrintCumulative \/ file_done \/ file_cmd_cleanup \/ UNCHANGED vars
  PROVE  DiskInv'
<1>1. Files' = Files /\ Blocks' = Blocks /\ Reading' = Reading
  BY BlockConstantsKept
<1>2. cfg.prepare /\ OptionsValid
  BY DEF Validated, WholeBlocks
<1>3. DOMAIN NoFile' = DOMAIN NoFile
  BY DEF NoFile
<1>4. CASE file_cmd_prepare
  <2>1. phase = "start" /\ \A f \in Files : disk[f] = NoFile
    BY <1>4 DEF file_cmd_prepare, DiskInv
  <2>2. \A f \in Files : /\ Blocks \subseteq Created(f).whole
                         /\ DOMAIN Created(f) = DOMAIN NoFile
    BY <2>1, CreatedWhole DEF Created, NoFile
  <2>3. \/ phase' = "prepared" /\ disk' = [f \in Files |-> Created(f)]
        \/ /\ phase' = "failed"
           /\ \E n \in Files :
                disk' = [f \in Files |-> IF f < n THEN Created(f) ELSE disk[f]]
    BY <1>2, <1>4 DEF file_cmd_prepare
  <2>4. CASE phase' = "prepared" /\ disk' = [f \in Files |-> Created(f)]
    BY <1>1, <1>3, <2>2, <2>4 DEF DiskInv
  <2>5. CASE phase' = "failed"
    <3>1. PICK n \in Files :
            disk' = [f \in Files |-> IF f < n THEN Created(f) ELSE disk[f]]
      BY <2>3, <2>5
    <3>2. disk' = [f \in Files |-> disk'[f]]
      BY <3>1
    <3>3. \A f \in Files : DOMAIN disk'[f] = DOMAIN NoFile
      BY <2>2, <3>1 DEF DiskInv
    <3> QED BY <1>1, <1>3, <2>5, <3>2, <3>3 DEF DiskInv
  <2> QED BY <2>3, <2>4, <2>5
<1>5. CASE file_prepare
  <2>1. phase = "prepared" /\ \A f \in Files : Blocks \subseteq disk[f].whole
    BY <1>2, <1>5 DEF file_prepare, DiskInv
  <2>2. ASSUME NEW f \in Files
        PROVE  /\ Reading => Blocks \subseteq Opened(f).whole
               /\ DOMAIN Opened(f) = DOMAIN NoFile
    <3>1. DOMAIN disk[f] = DOMAIN NoFile
      BY DEF DiskInv
    <3>2. CASE cfg.mode = "seqwr"
      BY <3>2 DEF Opened, NoFile, Reading
    <3>3. CASE cfg.mode # "seqwr"
      BY <2>1, <3>1, <3>3 DEF Opened, NoFile
    <3> QED BY <3>2, <3>3
  <2>3. \/ phase' = "run" /\ disk' = [f \in Files |-> Opened(f)]
        \/ phase' = "failed" /\ disk' = disk
        \/ /\ phase' = "failed"
           /\ \E n \in Files :
                disk' = [f \in Files |-> IF f < n THEN Opened(f) ELSE disk[f]]
    BY <1>5 DEF file_prepare
  <2>4. CASE phase' = "run" /\ disk' = [f \in Files |-> Opened(f)]
    BY <1>1, <1>3, <2>2, <2>4 DEF DiskInv
  <2>5. CASE phase' = "failed" /\ disk' = disk
    BY <1>1, <1>3, <2>5 DEF DiskInv
  <2>6. ASSUME phase' = "failed", NEW n \in Files,
               disk' = [f \in Files |-> IF f < n THEN Opened(f) ELSE disk[f]]
        PROVE  DiskInv'
    <3>1. disk' = [f \in Files |-> disk'[f]]
      BY <2>6
    <3>2. \A f \in Files : DOMAIN disk'[f] = DOMAIN NoFile
      BY <2>2, <2>6 DEF DiskInv
    <3> QED BY <1>1, <1>3, <2>6, <3>1, <3>2 DEF DiskInv
  <2> QED BY <2>3, <2>4, <2>5, <2>6
<1>6. CASE file_cmd_cleanup
  BY <1>1, <1>3, <1>6 DEF file_cmd_cleanup, DiskInv
<1>7. CASE file_done
  BY <1>1, <1>3, <1>7 DEF file_done, DiskInv
<1>8. CASE PrintIntermediate \/ PrintCumulative \/ UNCHANGED vars
  <2>1. phase' = phase /\ disk' = disk
    BY <1>8 DEF PrintIntermediate, PrintCumulative, vars
  <2> QED BY <2>1, DiskKept
<1> QED BY <1>4, <1>5, <1>6, <1>7, <1>8

LEMMA ReadsCommand ==
  ASSUME FinalInv, BlocksInv, Validated,
         \/ file_cmd_prepare \/ file_prepare \/ PrintIntermediate
         \/ PrintCumulative \/ file_done \/ file_cmd_cleanup \/ UNCHANGED vars
  PROVE  BlocksInv'
<1>1. cfg' = cfg /\ UNCHANGED <<pc, req, genVars>>
  BY CommandQuiet
<1>2. UNCHANGED <<torn, alarms>>
  BY DEF file_cmd_prepare, file_prepare, PrintIntermediate,
         PrintCumulative, file_done, file_cmd_cleanup, UnchangedByCommand, vars
<1>3. /\ DiskInv /\ RequestInv /\ ClaimInv /\ PositionInv /\ TornInv
      /\ GenInv
  BY DEF BlocksInv, FinalInv
<1>4. DiskInv'
  BY <1>1, <1>3, CommandDisk
<1>5. RequestInv' /\ ClaimInv' /\ PositionInv'
  BY <1>1, <1>3, RequestMoves
<1>6. TornInv'
  BY <1>1, <1>2, <1>3, TornKept
<1> QED BY <1>2, <1>4, <1>5, <1>6 DEF BlocksInv

(* The steps of the runners and of the kernel that touch no block. *)
LEMMA ReadsOthers ==
  ASSUME FinalInv, BlocksInv, NEW t \in Threads,
         \/ Reject(t) \/ FailIO(t) \/ Fsync(t) \/ FailFsync(t) \/ Count(t)
         \/ file_submit_or_wait(t) \/ WaitForRoom(t) \/ file_thread_done(t)
         \/ AioComplete(t)
  PROVE  BlocksInv'
<1>1. /\ cfg' = cfg /\ phase' = phase
      /\ UNCHANGED <<req, genVars, disk, torn, alarms>>
  BY DEF UnchangedByExecute, Reject, FailIO, Fsync, FailFsync, Count,
         file_submit_or_wait, WaitForRoom, file_wait, file_thread_done,
         AioComplete
<1>2. \/ pc' = pc
      \/ \E from, to : /\ to \notin {"exec", "write", "read"}
                       /\ Goto(t, from, to)
  <2>1. AfterIO(t) \in {"fsync", "count"}
    BY DEF AfterIO
  <2>2. CASE Reject(t) \/ FailIO(t) \/ FailFsync(t)
    BY <2>2 DEF Reject, FailIO, FailFsync, Fail
  <2>3. CASE Fsync(t) \/ Count(t)
    BY <2>3 DEF Fsync, Count
  <2>4. CASE file_submit_or_wait(t)
    BY <2>1, <2>4 DEF file_submit_or_wait
  <2>5. CASE WaitForRoom(t)
    BY <2>1, <2>5 DEF WaitForRoom, file_wait
  <2>6. CASE file_thread_done(t)
    BY <2>6 DEF file_thread_done, file_wait
  <2>7. CASE AioComplete(t)
    BY <2>7 DEF AioComplete
  <2> QED BY <2>2, <2>3, <2>4, <2>5, <2>6, <2>7
<1>3. \A u \in Threads : \/ pc'[u] = pc[u]
                         \/ pc'[u] \notin {"exec", "write", "read"}
  BY <1>2 DEF Goto, FinalInv, FinalTypes
<1>4. /\ DiskInv /\ RequestInv /\ ClaimInv /\ PositionInv /\ TornInv
  BY DEF BlocksInv
<1>5. RequestInv' /\ ClaimInv' /\ PositionInv'
  BY <1>1, <1>3, <1>4, RequestMoves
<1>6. DiskInv' /\ TornInv'
  BY <1>1, <1>4, DiskKept, TornKept
<1> QED BY <1>1, <1>5, <1>6 DEF BlocksInv

(* The extent of a block. *)
LEMMA ExtentOfBlock ==
  ASSUME GenInv, Validated, NEW r, Extent(r) \in Blocks
  PROVE  /\ r.pos \in Nat /\ r.pos % cfg.block_size = 0
         /\ r.size = cfg.block_size
<1>1. PICK p \in Starts(0, file_size) : Extent(r) = <<p, cfg.block_size>>
  BY DEF Blocks
<1>2. r.pos = p /\ r.size = cfg.block_size
  BY <1>1 DEF Extent
<1>3. p \in Nat /\ p % cfg.block_size = 0
  BY BlockConstants DEF Starts
<1> QED BY <1>2, <1>3

(* Where blocks are read, nobody is at the block another one begins with,  *)
(* unless both only read.                                                  *)
LEMMA NoOverlap ==
  ASSUME FinalInv, BlocksInv, Validated, Reading, NEW t \in Threads,
         pc[t] = "exec", req[t].op \in {"READ", "WRITE"}
  PROVE  Overlapping(t) = {}
<1> SUFFICES ASSUME NEW u \in Threads \ {t}, pc[u] \in {"write", "read"},
                    req[u].file = req[t].file,
                    ~Disjoint(Extent(req[u]), Extent(req[t])),
                    "WRITE" \in {req[u].op, req[t].op}
             PROVE  FALSE
  BY DEF Overlapping
<1>1. Active(u) /\ Active(t)
  BY DEF Active, FinalInv, WritesKnown, BlocksInv, RequestInv
<1>2. GenInv /\ cfg.block_size \in Nat \ {0}
  BY BlockConstants DEF FinalInv
<1>3. Extent(req[t]) \in Blocks /\ Extent(req[u]) \in Blocks
  BY <1>1 DEF BlocksInv, RequestInv
<1>4. /\ req[t].pos \in Nat /\ req[t].pos % cfg.block_size = 0
      /\ req[u].pos \in Nat /\ req[u].pos % cfg.block_size = 0
      /\ req[t].size = cfg.block_size /\ req[u].size = cfg.block_size
  BY <1>2, <1>3, ExtentOfBlock
<1>5. req[t].pos = req[u].pos
  BY <1>2, <1>4, BlocksDisjoint DEF Extent
<1>6. CASE cfg.mode = "seqrd"
  BY <1>1, <1>6 DEF BlocksInv, RequestInv
<1>7. CASE Random
  <2>1. /\ claim[t] = <<req[t].file, req[t].pos>>
        /\ claim[u] = <<req[u].file, req[u].pos>>
        /\ claim[u] # claim[t]
    BY <1>1, <1>7 DEF BlocksInv, ClaimInv
  <2> QED BY <1>5, <2>1
<1> QED BY <1>6, <1>7 DEF Reading, Random

LEMMA ReadsBegin ==
  ASSUME FinalInv, BlocksInv, Validated, NEW t \in Threads, BeginIO(t)
  PROVE  BlocksInv'
<1>1. /\ cfg' = cfg /\ phase' = phase
      /\ UNCHANGED <<req, genVars, disk, alarms>>
      /\ req[t].op \in {"READ", "WRITE"} /\ req[t].file \in Files
      /\ Goto(t, "exec", IF req[t].op = "WRITE" THEN "write" ELSE "read")
      /\ torn' = [u \in Threads |-> IF u = t THEN Overlapping(t) # {}
                                    ELSE torn[u] \/ u \in Overlapping(t)]
  BY DEF BeginIO, UnchangedByExecute
<1>2. /\ DiskInv /\ RequestInv /\ ClaimInv /\ PositionInv /\ TornInv
  BY DEF BlocksInv
<1>3. PICK to \in {"write", "read"} :
        to = IF req[t].op = "WRITE" THEN "write" ELSE "read"
  OBVIOUS
<1>4. pc[t] = "exec" /\ pc' = [pc EXCEPT ![t] = to]
  BY <1>1, <1>3, GotoFrom DEF FinalInv
<1>5. \A u \in Threads : pc'[u] = IF u = t THEN to ELSE pc[u]
  BY <1>4 DEF FinalInv, FinalTypes
<1>6. \A u \in Threads : Active(u)' => Active(u)
  BY <1>1, <1>4, <1>5 DEF Active
<1>7. RequestInv'
  <2>1. \A u \in Threads : pc'[u] = "read" => req'[u].op = "READ"
    BY <1>1, <1>2, <1>3, <1>5 DEF RequestInv
  <2>2. \A u \in Threads :
          pc'[u] \in {"read", "write"} => req'[u].file \in Files
    BY <1>1, <1>2, <1>5 DEF RequestInv
  <2> QED BY <1>1, <1>2, <1>6, <2>1, <2>2, BlockConstantsKept
          DEF RequestInv, Extent
<1>8. ClaimInv' /\ PositionInv'
  BY <1>1, <1>2, <1>6, BlockConstantsKept DEF ClaimInv, PositionInv, genVars
<1>9. DiskInv'
  BY <1>1, <1>2, DiskKept
<1>10. TornInv'
  <2>1. Reading => Overlapping(t) = {}
    BY <1>1, <1>4, NoOverlap
  <2>2. Reading => \A u \in Threads : ~torn'[u]
    BY <1>1, <1>2, <2>1 DEF TornInv
  <2> QED BY <1>1, <2>2, BlockConstantsKept DEF TornInv
<1> QED BY <1>1, <1>7, <1>8, <1>9, <1>10 DEF BlocksInv

(* A block that is written replaces itself and leaves the others alone. *)
LEMMA WriteKeepsBlocks ==
  ASSUME GenInv, Validated, NEW r, Extent(r) \in Blocks,
         NEW w, Blocks \subseteq w
  PROVE  Blocks \subseteq {e \in w : Disjoint(e, Extent(r))} \cup {Extent(r)}
<1> SUFFICES ASSUME NEW b \in Blocks, b # Extent(r)
             PROVE  Disjoint(b, Extent(r))
  OBVIOUS
<1>1. cfg.block_size \in Nat \ {0} /\ file_size \in Nat
  BY BlockConstants
<1>2. PICK p \in Starts(0, file_size) : b = <<p, cfg.block_size>>
  BY DEF Blocks
<1>3. PICK q \in Starts(0, file_size) : Extent(r) = <<q, cfg.block_size>>
  BY DEF Blocks
<1>4. p # q
  BY <1>2, <1>3
<1>5. p \in Nat /\ q \in Nat /\ p % cfg.block_size = 0 /\ q % cfg.block_size = 0
  BY <1>1 DEF Starts
<1>6. Disjoint(<<p, cfg.block_size>>, <<q, cfg.block_size>>)
  BY <1>1, <1>4, <1>5, BlocksDisjoint
<1> QED BY <1>2, <1>3, <1>6

LEMMA ReadsEndWrite ==
  ASSUME FinalInv, BlocksInv, Validated, NEW t \in Threads, EndWrite(t)
  PROVE  BlocksInv'
<1>1. /\ cfg' = cfg /\ phase' = phase
      /\ UNCHANGED <<req, genVars, torn, alarms>>
      /\ Goto(t, "write", AfterIO(t))
  BY DEF EndWrite, UnchangedByExecute
<1>2. /\ DiskInv /\ RequestInv /\ ClaimInv /\ PositionInv /\ TornInv
      /\ GenInv /\ FinalTypes
  BY DEF BlocksInv, FinalInv
<1>3. pc[t] = "write" /\ phase = "run" /\ pc' = [pc EXCEPT ![t] = AfterIO(t)]
  BY <1>1, <1>2, GotoFrom
<1>4. AfterIO(t) \notin {"exec", "write", "read"}
  BY DEF AfterIO
<1>5. \A u \in Threads : \/ pc'[u] = pc[u]
                         \/ pc'[u] \notin {"exec", "write", "read"}
  BY <1>2, <1>3, <1>4 DEF FinalTypes
<1>6. RequestInv' /\ ClaimInv' /\ PositionInv'
  BY <1>1, <1>2, <1>5, RequestMoves
<1>7. TornInv'
  BY <1>1, <1>2, TornKept
<1>8. DiskInv'
  <2> DEFINE r == req[t]
             n == IF disk[r.file].size < r.pos + r.size THEN r.pos + r.size
                  ELSE disk[r.file].size
             w == {e \in disk[r.file].whole : Disjoint(e, Extent(r))}
                    \cup IF torn[t] THEN {} ELSE {Extent(r)}
  <2>1. r.file \in Files
    BY <1>3 DEF FinalInv, WritesKnown
  <2>2. /\ disk = [f \in Files |-> disk[f]]
        /\ \A f \in Files : DOMAIN disk[f] = DOMAIN NoFile
    BY <1>2 DEF DiskInv
  <2>3. disk' = [disk EXCEPT
                  ![r.file].size = IF @ < r.pos + r.size
                                   THEN r.pos + r.size ELSE @,
                  ![r.file].whole =
                    {e \in @ : Disjoint(e, Extent(r))}
                      \cup IF torn[t] THEN {} ELSE {Extent(r)}]
    BY DEF EndWrite
  <2>4. /\ disk' = [f \in Files |-> disk'[f]]
        /\ \A f \in Files : DOMAIN disk'[f] = DOMAIN NoFile
        /\ \A f \in Files : f # r.file => disk'[f] = disk[f]
    BY <2>1, <2>2, <2>3
  <2>5. disk'[r.file].whole = w
    BY <2>1, <2>2, <2>3 DEF NoFile
  <2>6. Reading => \A f \in Files : Blocks \subseteq disk'[f].whole
    <3> SUFFICES ASSUME Reading, NEW f \in Files
                 PROVE  Blocks \subseteq disk'[f].whole
      OBVIOUS
    <3>1. Blocks \subseteq disk[f].whole
      BY <1>2, <1>3 DEF DiskInv
    <3>2. CASE f # r.file
      BY <2>4, <3>1, <3>2
    <3>3. CASE f = r.file
      <4>1. Active(t)
        BY <1>3 DEF Active, FinalInv, WritesKnown
      <4>2. Extent(r) \in Blocks /\ ~torn[t]
        BY <1>2, <4>1 DEF RequestInv, TornInv
      <4>3. w = {e \in disk[f].whole : Disjoint(e, Extent(r))} \cup {Extent(r)}
        BY <3>3, <4>2
      <4>4. Blocks \subseteq w
        BY <1>2, <3>1, <4>2, <4>3, WriteKeepsBlocks
      <4> QED BY <2>5, <3>3, <4>4
    <3> QED BY <3>2, <3>3
  <2>7. phase' # "start" /\ phase' # "prepared"
    BY <1>1, <1>3
  <2>8. DOMAIN NoFile' = DOMAIN NoFile
    BY DEF NoFile
  <2> QED BY <1>1, <2>4, <2>6, <2>7, <2>8, BlockConstantsKept DEF DiskInv
<1> QED BY <1>1, <1>6, <1>7, <1>8 DEF BlocksInv

(* What is read is a whole block. *)
LEMMA ReadsEndRead ==
  ASSUME FinalInv, BlocksInv, Validated, NEW t \in Threads, EndRead(t)
  PROVE  BlocksInv'
<1>1. /\ cfg' = cfg /\ phase' = phase
      /\ UNCHANGED <<req, genVars, disk, torn>>
      /\ pc[t] = "read"
  BY DEF EndRead, UnchangedByExecute
<1>2. /\ DiskInv /\ RequestInv /\ ClaimInv /\ PositionInv /\ TornInv
      /\ FinalTypes /\ "checksum" \notin alarms
  BY DEF BlocksInv, FinalInv
<1>3. \E to \in {"thread_done", "count"} : Goto(t, "read", to)
  BY DEF EndRead, Fail
<1>4. PICK to \in {"thread_done", "count"} : Goto(t, "read", to)
  BY <1>3
<1>5. phase = "run" /\ pc' = [pc EXCEPT ![t] = to]
  BY <1>2, <1>4, GotoFrom
<1>6. \A u \in Threads : \/ pc'[u] = pc[u]
                         \/ pc'[u] \notin {"exec", "write", "read"}
  BY <1>2, <1>5 DEF FinalTypes
<1>7. RequestInv' /\ ClaimInv' /\ PositionInv'
  BY <1>1, <1>2, <1>6, RequestMoves
<1>8. DiskInv' /\ TornInv'
  BY <1>1, <1>2, DiskKept, TornKept
<1>9. req[t].op = "READ" /\ req[t].file \in Files /\ Reading
  BY <1>1, <1>2 DEF RequestInv
<1>10. Extent(req[t]) \in Blocks /\ ~torn[t]
  BY <1>1, <1>2, <1>9 DEF RequestInv, TornInv, Active
<1>11. Blocks \subseteq disk[req[t].file].whole
  BY <1>2, <1>5, <1>9 DEF DiskInv
<1>12. alarms' = alarms
  BY <1>10, <1>11 DEF EndRead
<1> QED BY <1>2, <1>7, <1>8, <1>12 DEF BlocksInv

(* A request of t that is no block, or a block that fits in with what the  *)
(* other runners are at.                                                   *)
LEMMA RequestGiven ==
  ASSUME RequestInv, ClaimInv, cfg' = cfg, NEW t \in Threads,
         pc'[t] \in {"exec", "thread_done"},
         \A u \in Threads : u # t => pc'[u] = pc[u] /\ req'[u] = req[u],
         claim' = [u \in Threads |-> claim'[u]],
         \A u \in Threads : u # t => claim'[u] = claim[u],
         req'[t].op = "READ" => Reading,
         cfg.mode = "seqrd" => req'[t].op # "WRITE",
         Reading /\ req'[t].op \in {"READ", "WRITE"} =>
           Extent(req'[t]) \in Blocks,
         Random /\ req'[t].op \in {"READ", "WRITE"} =>
           /\ claim'[t] = <<req'[t].file, req'[t].pos>>
           /\ \A u \in Threads : u # t => claim[u] # claim'[t]
  PROVE  RequestInv' /\ ClaimInv'
<1>1. /\ Files' = Files /\ Blocks' = Blocks /\ Reading' = Reading
      /\ Random' = Random
  BY BlockConstantsKept
<1>2. \A u \in Threads : u # t => Active(u)' = Active(u)
  BY DEF Active
<1>3. Active(t)' => req'[t].op \in {"READ", "WRITE"}
  BY DEF Active
<1>4. \A u \in Threads : Active(u)' \in BOOLEAN /\ Active(u) \in BOOLEAN
  BY DEF Active
<1>5. RequestInv'
  <2>1. \A u \in Threads : pc'[u] = "read" => req'[u].op = "READ"
    BY DEF RequestInv
  <2>2. \A u \in Threads :
          pc'[u] \in {"read", "write"} => req'[u].file \in Files
    BY DEF RequestInv
  <2>3. ~Reading => \A u \in Threads : req'[u].op # "READ"
    BY DEF RequestInv
  <2>4. Reading => \A u \in Threads : Active(u)' => Extent(req'[u]) \in Blocks
    BY <1>2, <1>3 DEF RequestInv
  <2>5. cfg.mode = "seqrd" => \A u \in Threads :
          Active(u)' => req'[u].op = "READ"
    BY <1>2, <1>3 DEF RequestInv
  <2> QED BY <1>1, <2>1, <2>2, <2>3, <2>4, <2>5 DEF RequestInv, Extent
<1>6. ClaimInv'
  <2>1. ASSUME Random, NEW u \in Threads, Active(u)',
               NEW v \in Threads \ {u}, Active(v)'
        PROVE  claim'[v] # claim'[u]
    <3>1. CASE u = t
      BY <1>3, <2>1, <3>1
    <3>2. CASE v = t
      BY <1>3, <2>1, <3>2
    <3>3. CASE u # t /\ v # t
      BY <1>2, <2>1, <3>3 DEF ClaimInv
    <3> QED BY <3>1, <3>2, <3>3
  <2>2. ASSUME Random, NEW u \in Threads, Active(u)'
        PROVE  claim'[u] = <<req'[u].file, req'[u].pos>>
    <3>1. CASE u = t
      BY <1>3, <2>2, <3>1
    <3>2. CASE u # t
      BY <1>2, <2>2, <3>2 DEF ClaimInv
    <3> QED BY <3>1, <3>2
  <2> QED BY <1>1, <2>1, <2>2 DEF ClaimInv
<1> QED BY <1>5, <1>6

LEMMA ReadsRequest ==
  ASSUME FinalInv, BlocksInv, Validated, NEW t \in Threads,
         file_get_request(t)
  PROVE  BlocksInv'
<1>1. /\ phase = "run" /\ cfg' = cfg /\ phase' = phase
      /\ UNCHANGED <<disk, torn, unsynced, errors, queued>>
  BY DEF file_get_request, aioVars
<1>2. /\ DiskInv /\ RequestInv /\ ClaimInv /\ PositionInv /\ TornInv
      /\ GenInv /\ "checksum" \notin alarms
      /\ claim = [u \in Threads |-> claim[u]]
  BY DEF BlocksInv, FinalInv, ClaimInv
<1>3. DiskInv' /\ TornInv'
  BY <1>1, <1>2, DiskKept, TornKept
<1>4. /\ cfg.block_size \in Nat \ {0} /\ file_size \in Nat \ {0}
      /\ file_size % cfg.block_size = 0
      /\ file_max_request_size = cfg.block_size
      /\ cfg.mode \in Modes /\ cfg.total_size \in Nat /\ cfg.validate
  BY <1>2, BlockConstants
<1>5. \A r : Give(t, r) /\ DOMAIN r = Fields /\ inFlight' = inFlight =>
        /\ pc'[t] \in {"exec", "thread_done"} /\ req'[t] = r
        /\ \A u \in Threads : u # t => pc'[u] = pc[u] /\ req'[u] = req[u]
  BY <1>1, FinalGive
<1>6. CASE GivePeriodicFsync(t) \/ GiveFinalFsync(t) \/ GiveNull(t)
  <2>1. \A f : DOMAIN FsyncOf(f) = Fields /\ FsyncOf(f).op = "FSYNC"
    BY DEF FsyncOf, Fields
  <2>2. DOMAIN NullReq = Fields /\ NullReq.op = "NULL"
    BY DEF NullReq, Fields
  <2>3. /\ claim' = claim /\ position' = position /\ inFlight' = inFlight
        /\ \E r : Give(t, r) /\ DOMAIN r = Fields /\ r.op \in {"FSYNC", "NULL"}
    BY <1>6, <2>1, <2>2
       DEF GivePeriodicFsync, GiveFinalFsync, GiveNull, genVars
  <2>4. PICK r : Give(t, r) /\ DOMAIN r = Fields /\ r.op \in {"FSYNC", "NULL"}
    BY <2>3
  <2>5. /\ pc'[t] \in {"exec", "thread_done"} /\ req'[t] = r
        /\ \A u \in Threads : u # t => pc'[u] = pc[u] /\ req'[u] = req[u]
    BY <1>5, <2>3, <2>4
  <2>6. RequestInv' /\ ClaimInv'
    BY <1>1, <1>2, <2>3, <2>4, <2>5, RequestGiven
  <2>7. PositionInv'
    BY <1>1, <1>2, <2>3, BlockConstantsKept DEF PositionInv
  <2>8. alarms' = alarms
    BY <1>6 DEF file_get_request, GivePeriodicFsync, GiveFinalFsync, GiveNull,
                file_get_seq_request, file_get_rnd_request
  <2> QED BY <1>2, <1>3, <2>6, <2>7, <2>8 DEF BlocksInv
<1>7. CASE file_get_seq_request(t)
  <2> DEFINE rewind == current_file = num_files
             f == IF rewind THEN 0 ELSE current_file
             p == IF rewind THEN 0 ELSE position
             fits == p + file_max_request_size <= file_size
             r == [op |-> IF cfg.mode = "seqrd" THEN "READ" ELSE "WRITE",
                   file |-> f, pos |-> p,
                   size |-> IF cfg.merged_requests > 0 /\ ~fits
                            THEN file_size - p ELSE file_max_request_size]
  <2>1. /\ Give(t, r) /\ cfg.mode \in SeqModes
        /\ position' = IF p + r.size = file_size THEN 0 ELSE p + r.size
        /\ claim' = claim /\ inFlight' = inFlight
        /\ alarms' \subseteq alarms \cup {"sequence"}
    BY <1>7 DEF file_get_seq_request
  <2>2. /\ DOMAIN r = Fields /\ r.pos = p
        /\ r.op = IF cfg.mode = "seqrd" THEN "READ" ELSE "WRITE"
    BY DEF Fields
  <2>3. /\ pc'[t] \in {"exec", "thread_done"} /\ req'[t] = r
        /\ \A u \in Threads : u # t => pc'[u] = pc[u] /\ req'[u] = req[u]
    BY <1>5, <2>1, <2>2
  <2>4. ASSUME cfg.mode = "seqrd"
        PROVE  /\ p \in Nat /\ p % cfg.block_size = 0 /\ p < file_size
               /\ r.size = cfg.block_size
    <3>1. position \in Nat /\ position % cfg.block_size = 0
          /\ position < file_size
      BY <1>2, <1>4, <2>4 DEF PositionInv, Starts
    <3>2. p \in Nat /\ p % cfg.block_size = 0 /\ p < file_size
      BY <1>4, <3>1
    <3>3. p + cfg.block_size <= file_size
      BY <1>4, <3>2, BlockFits
    <3>4. fits
      BY <1>4, <3>3
    <3> QED BY <1>4, <3>2, <3>4
  <2> HIDE DEF r, p
  <2>5. cfg.mode = "seqrd" => Extent(r) \in Blocks
    BY <1>4, <2>2, <2>4 DEF Extent, Blocks, Starts
  <2>6. Reading => cfg.mode = "seqrd"
    BY <2>1 DEF Reading, SeqModes
  <2>7. ~Random
    BY <2>1 DEF Random, SeqModes
  <2>8. cfg.mode = "seqrd" => Reading
    BY DEF Reading
  <2>9. RequestInv' /\ ClaimInv'
    BY <1>1, <1>2, <2>1, <2>2, <2>3, <2>5, <2>6, <2>7, <2>8, RequestGiven
  <2>10. PositionInv'
    <3> SUFFICES ASSUME cfg.mode = "seqrd"
                 PROVE  position' \in Starts(0, file_size)
      BY <1>1, BlockConstantsKept DEF PositionInv
    <3>1. p + cfg.block_size <= file_size
          /\ (p + cfg.block_size) % cfg.block_size = 0
      BY <1>4, <2>4, BlockFits
    <3>2. position' = IF p + cfg.block_size = file_size THEN 0
                      ELSE p + cfg.block_size
      BY <2>1, <2>4
    <3>3. position' \in 0 .. file_size - 1 /\ position' % cfg.block_size = 0
      BY <1>4, <2>4, <3>1, <3>2
    <3> QED BY <3>3 DEF Starts
  <2>11. "checksum" \notin alarms'
    BY <1>2, <2>1
  <2> QED BY <1>3, <2>9, <2>10, <2>11 DEF BlocksInv
<1>8. CASE file_get_rnd_request(t)
  <2>1. /\ cfg.mode \notin SeqModes /\ position' = position
        /\ inFlight' = inFlight /\ alarms' = alarms
        /\ \E op \in {"READ", "WRITE"}, tmppos \in Starts(0, cfg.total_size) :
             LET r == [op |-> op, file |-> tmppos \div file_size,
                       pos |-> tmppos % file_size, size |-> cfg.block_size]
             IN /\ op = "READ" => Reading
                /\ Avoided(t, r.file, r.pos) /\ Give(t, r)
                /\ claim' = [claim EXCEPT ![t] = <<r.file, r.pos>>]
    BY <1>8 DEF file_get_rnd_request, Reading
  <2>2. PICK op \in {"READ", "WRITE"}, tmppos \in Starts(0, cfg.total_size) :
          LET r == [op |-> op, file |-> tmppos \div file_size,
                    pos |-> tmppos % file_size, size |-> cfg.block_size]
          IN /\ op = "READ" => Reading
             /\ Avoided(t, r.file, r.pos) /\ Give(t, r)
             /\ claim' = [claim EXCEPT ![t] = <<r.file, r.pos>>]
    BY <2>1
  <2> DEFINE r == [op |-> op, file |-> tmppos \div file_size,
                   pos |-> tmppos % file_size, size |-> cfg.block_size]
  <2>3. /\ op = "READ" => Reading
        /\ Avoided(t, r.file, r.pos) /\ Give(t, r)
        /\ claim' = [claim EXCEPT ![t] = <<r.file, r.pos>>]
    BY <2>2
  <2>4. /\ DOMAIN r = Fields /\ r.op = op /\ r.size = cfg.block_size
        /\ r.pos = tmppos % file_size
    BY DEF Fields
  <2>5. tmppos \in Nat /\ tmppos % cfg.block_size = 0
    BY <1>4 DEF Starts
  <2>6. /\ tmppos % file_size \in 0 .. file_size - 1
        /\ (tmppos % file_size) % cfg.block_size = 0
    BY <1>4, <2>5, BlockOfFile
  <2> HIDE DEF r
  <2>7. Extent(r) \in Blocks
    BY <2>4, <2>6 DEF Extent, Blocks, Starts
  <2>8. /\ pc'[t] \in {"exec", "thread_done"} /\ req'[t] = r
        /\ \A u \in Threads : u # t => pc'[u] = pc[u] /\ req'[u] = req[u]
    BY <1>5, <2>1, <2>3, <2>4
  <2>9. /\ claim' = [u \in Threads |-> claim'[u]]
        /\ claim'[t] = <<r.file, r.pos>>
        /\ \A u \in Threads : u # t => claim'[u] = claim[u]
    BY <1>2, <2>3
  <2>10. \A u \in Threads : u # t => claim[u] # claim'[t]
    BY <1>4, <2>3, <2>9 DEF Avoided
  <2>11. cfg.mode # "seqrd"
    BY <2>1 DEF SeqModes
  <2>12. RequestInv' /\ ClaimInv'
    BY <1>1, <1>2, <2>3, <2>4, <2>7, <2>8, <2>9, <2>10, <2>11, RequestGiven
  <2>13. PositionInv'
    BY <1>1, <2>11 DEF PositionInv
  <2> QED BY <1>2, <1>3, <2>1, <2>12, <2>13 DEF BlocksInv
<1> QED BY <1>6, <1>7, <1>8 DEF file_get_request

LEMMA ReadsNext ==
  ASSUME ReadsInv, [Next]_vars
  PROVE  ReadsInv'
<1>1. FinalInv /\ FinalInv'
  BY FinalNext DEF ReadsInv
<1>2. cfg' = cfg
  <2>1. ASSUME NEW t \in Threads, RunnerStep(t) \/ AioComplete(t)
        PROVE  cfg' = cfg
    BY <2>1, RunnerQuiet DEF file_get_request
  <2> QED BY <2>1, CommandQuiet DEF Next, Terminated
<1>3. ASSUME Validated PROVE BlocksInv'
  <2>1. BlocksInv
    BY <1>3 DEF ReadsInv
  <2>2. CASE \/ file_cmd_prepare \/ file_prepare \/ PrintIntermediate
             \/ PrintCumulative \/ file_done \/ file_cmd_cleanup
             \/ UNCHANGED vars
    BY <1>1, <1>3, <2>1, <2>2, ReadsCommand
  <2>3. ASSUME NEW t \in Threads, RunnerStep(t) \/ AioComplete(t)
        PROVE  BlocksInv'
    BY <1>1, <1>3, <2>1, <2>3, ReadsRequest, ReadsOthers, ReadsBegin,
       ReadsEndWrite, ReadsEndRead DEF RunnerStep
  <2> QED BY <2>2, <2>3 DEF Next, Terminated
<1> QED BY <1>1, <1>2, <1>3, BlockConstantsKept DEF ReadsInv

(* The blocks are read as they were written. *)
THEOREM BlocksWhole == Spec => [](ReadsInv /\ SeqInv)
<1>1. Init => ReadsInv /\ SeqInv
  BY ReadsInit, SeqInit
<1>2. (ReadsInv /\ SeqInv) /\ [Next]_vars => (ReadsInv /\ SeqInv)'
  BY ReadsNext, SeqNext DEF ReadsInv, FinalInv
<1> QED BY <1>1, <1>2, PTL DEF Spec

LEMMA AlarmsReal ==
  ASSUME ReadsInv, SeqInv
  PROVE  NoFalseAlarm
<1>1. /\ alarms \subseteq {"sequence", "checksum"}
      /\ ~cfg.validate => alarms = {}
      /\ "sequence" \in alarms => num_files = 1
  BY DEF SeqInv
<1>2. cfg.merged_requests \in Nat
  BY FileIOAssumption DEF ReadsInv, FinalInv, GenInv, GenTypes, Options
<1>3. ASSUME cfg.io # "async", cfg.prepare, "checksum" \in alarms
      PROVE  cfg.merged_requests > 1 \/ ~WholeBlocks
  <2>1. ~Validated
    BY <1>3 DEF ReadsInv, BlocksInv
  <2>2. cfg.validate
    BY <1>1, <1>3
  <2> QED BY <1>2, <1>3, <2>1, <2>2 DEF Validated
<1> QED BY <1>1, <1>3 DEF NoFalseAlarm

(* Validation raises no false alarm without AIO: for files of whole        *)
(* blocks, whatever their number and size, and any number of threads, a    *)
(* thread never finds a block torn or missing that others write, and the   *)
(* sequential requests follow each other.                                  *)
THEOREM AlarmsJustified == Spec => []NoFalseAlarm
BY BlocksWhole, AlarmsReal, PTL
=============================================================================
