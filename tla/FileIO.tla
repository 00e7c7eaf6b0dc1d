------------------------------- MODULE FileIO -------------------------------
(***************************************************************************)
(* The fileio test (tests/fileio/sb_fileio.c): its prepare, run and        *)
(* cleanup commands on the test files, the sequential and random request   *)
(* generators, and the execution of requests with synchronous,             *)
(* asynchronous (libaio) and memory-mapped I/O, with the periodic and      *)
(* final fsyncs, the statistics and the validation of block contents.      *)
(*                                                                         *)
(* The generators and the statistics are inside exec_mutex: one step each. *)
(* A write or read is two steps, begin and end; what a block holds is      *)
(* whole, or torn by two operations that overlapped on it.  Sizes and      *)
(* positions are small numbers; a file is the set of the extents, written  *)
(* in one piece, that are whole in it.                                     *)
(***************************************************************************)
EXTENDS Integers, FiniteSets

CONSTANTS
  Threads,        \* the runner threads
  Configs,        \* the option sets to run with, see Options
  MaxErrors,      \* bound on the failing system calls
  MaxCheckpoints  \* bound on the cumulative reports during the run

Modes == {"seqwr", "seqrewr", "seqrd", "rndrd", "rndwr", "rndrw"}
SeqModes == {"seqwr", "seqrewr", "seqrd"}

(* The options of the test; file_rw_ratio is a fraction. *)
Options ==
  [mode : Modes, io : {"sync", "async", "mmap"}, file_num : Nat,
   total_size : Nat, block_size : Nat, merged_requests : Nat,
   fsync_freq : Nat, fsync_end : BOOLEAN, fsync_all : BOOLEAN,
   rw_ratio : Nat \X (Nat \ {0}), async_backlog : Nat, validate : BOOLEAN,
   max_requests : Nat, max_time : BOOLEAN, reports : BOOLEAN,
   prepare : BOOLEAN]

ASSUME FileIOAssumption ==
  /\ IsFiniteSet(Threads) /\ Threads # {}
  /\ \A c \in Configs : c \in Options
  /\ {MaxErrors, MaxCheckpoints} \subseteq Nat

VARIABLES
  cfg,            \* the options
  phase,          \* "start", "prepared", "run", "done", "removed", "failed"
  disk,           \* file -> [exists, size, the whole extents]
  unsynced,       \* files written since their last fsync
  pc,             \* where each runner is
  req,            \* its request
  claim,          \* the block a runner last worked on: buffer_file_id, _pos
  position, current_file, fsynced_file, fsynced_file2, is_dirty,
  req_performed,
  prev_req,       \* the last sequential request, for its validation
  stats, last,    \* the counters, and those of the last intermediate report
  queued,         \* runner -> its submitted AIO operations in progress
  completed,      \* runner -> those finished and not fetched
  nrequests,      \* runner -> the length of its AIO queue
  errors,         \* bound: failed system calls
  checkpoints,    \* bound: cumulative reports printed
  torn,           \* runner -> another one touched its block meanwhile
  alarms,         \* history: what validation has complained of
  since,          \* history: file -> writes handed out since its last fsync
  inFlight        \* history: writers in progress when a final fsync was made

genVars == <<claim, position, current_file, fsynced_file, fsynced_file2,
             is_dirty, req_performed, prev_req, since>>
statVars == <<stats, last, checkpoints>>
aioVars == <<queued, completed, nrequests>>
vars == <<cfg, phase, disk, unsynced, pc, req, errors, torn, alarms, inFlight,
          genVars, statVars, aioVars>>
-----------------------------------------------------------------------------
(* parse_arguments *)

OptionsValid ==
  /\ cfg.file_num > 0
  /\ cfg.total_size > 0
  /\ cfg.block_size > 0

num_files == cfg.file_num
Files == 0 .. num_files - 1
file_size == cfg.total_size \div num_files
file_max_request_size ==
  cfg.block_size * (IF cfg.merged_requests > 0 THEN cfg.merged_requests ELSE 1)

(* --file-fsync-all overrides the other two. *)
file_fsync_end == cfg.fsync_end /\ ~cfg.fsync_all
file_fsync_freq == IF cfg.fsync_all THEN 0 ELSE cfg.fsync_freq

NoFile == [exists |-> FALSE, size |-> 0, whole |-> {}]

Starts(from, to) == {p \in from .. to - 1 : p % cfg.block_size = 0}

RoundUp(n, m) == ((n + m - 1) \div m) * m

(* create_files for one file: whole blocks are appended until it is long   *)
(* enough, and an existing file that is, is used as it is.                 *)
Created(f) ==
  LET old == disk[f].size
      new == IF old >= file_size THEN old
             ELSE old + RoundUp(file_size - old, cfg.block_size)
  IN [exists |-> TRUE, size |-> new,
      whole |-> disk[f].whole
                  \cup {<<p, cfg.block_size>> : p \in Starts(old, new)}]

(* The files it opens or creates; a sequential write starts without any,   *)
(* and a mapping needs them at their full length.                          *)
Opened(f) ==
  LET fresh == IF cfg.mode = "seqwr" THEN NoFile ELSE disk[f] IN
  [fresh EXCEPT !.exists = TRUE,
                !.size = IF cfg.mode = "seqwr" /\ cfg.io = "mmap"
                         THEN file_size ELSE @]

NullReq == [op |-> "NULL", file |-> 0, pos |-> 0, size |-> 0]

ZeroStats == [read_ops |-> 0, write_ops |-> 0, other_ops |-> 0,
              bytes_read |-> 0, bytes_written |-> 0]

NoBlock == <<0, -1>>

Init ==
  /\ cfg \in Configs
  /\ phase = "start"
  /\ disk = [f \in Files |-> NoFile]
  /\ unsynced = {}
  /\ pc = [t \in Threads |-> "get"]
  /\ req = [t \in Threads |-> NullReq]
  \* malloc leaves the claims as they are, which only validation reads:
  \* those it finds match some block, or none.
  /\ claim \in [Threads -> IF cfg.validate THEN {NoBlock, <<0, 0>>} ELSE {NoBlock}]
  /\ position = 0 /\ current_file = 0
  /\ fsynced_file = 0 /\ fsynced_file2 = 0
  /\ is_dirty = FALSE
  /\ req_performed = 0
  /\ prev_req = NullReq
  /\ stats = ZeroStats /\ last = ZeroStats
  /\ queued = [t \in Threads |-> {}]
  /\ completed = [t \in Threads |-> {}]
  /\ nrequests = [t \in Threads |-> 0]
  /\ errors = 0 /\ checkpoints = 0
  /\ torn = [t \in Threads |-> FALSE]
  /\ alarms = {}
  /\ since = [f \in Files |-> 0]
  /\ inFlight = [f \in Files |-> {}]

(* A system call fails. *)
Error == errors < MaxErrors /\ errors' = errors + 1
NoError == UNCHANGED errors

UnchangedByCommand ==
  UNCHANGED <<cfg, unsynced, pc, req, torn, alarms, inFlight, genVars,
              statVars, aioVars>>

(* The prepare command knows no test mode, and so always creates files. *)
file_cmd_prepare ==
  /\ phase = "start" /\ cfg.prepare
  /\ \/ /\ OptionsValid /\ NoError
        /\ phase' = "prepared"
        /\ disk' = [f \in Files |-> Created(f)]
     \/ /\ ~OptionsValid /\ NoError
        /\ phase' = "failed" /\ UNCHANGED disk
     \/ /\ OptionsValid /\ Error
        /\ phase' = "failed"
        /\ \E n \in Files :
             disk' = [f \in Files |-> IF f < n THEN Created(f) ELSE disk[f]]
  /\ UnchangedByCommand

(* file_init and file_prepare, at the beginning of the run command. *)
file_prepare ==
  /\ phase = (IF cfg.prepare THEN "prepared" ELSE "start")
  /\ \/ /\ OptionsValid /\ (cfg.io = "async" => cfg.async_backlog > 0)
        /\ NoError
        /\ phase' = "run"
        /\ disk' = [f \in Files |-> Opened(f)]
     \/ /\ ~(OptionsValid /\ (cfg.io = "async" => cfg.async_backlog > 0))
        /\ NoError
        /\ phase' = "failed" /\ UNCHANGED disk
     \/ /\ OptionsValid /\ Error
        /\ phase' = "failed"
        /\ \E n \in Files :
             disk' = [f \in Files |-> IF f < n THEN Opened(f) ELSE disk[f]]
  /\ UnchangedByCommand
-----------------------------------------------------------------------------
(* The request generators *)

Goto(t, from, to) ==
  /\ phase = "run"
  /\ pc[t] = from
  /\ pc' = [pc EXCEPT ![t] = to]

LimitReached == cfg.max_requests > 0 /\ req_performed >= cfg.max_requests

Writes == cfg.mode \in {"seqwr", "seqrewr", "rndwr", "rndrw"}

(* A request for t, or none, with which its loop ends. *)
Give(t, r) ==
  /\ Goto(t, "get", IF r = NullReq THEN "thread_done" ELSE "exec")
  /\ req' = [req EXCEPT ![t] = r]

(* Faulty: the request keeps file 0. *)
FsyncOfFirst(f) == [op |-> "FSYNC", file |-> 0, pos |-> 0, size |-> 0]

FsyncOf(f) == [op |-> "FSYNC", file |-> f, pos |-> 0, size |-> 0]

(* Writers that have a request for f in progress. *)
WritersOf(f) ==
  {t \in Threads : \/ /\ pc[t] \in {"exec", "write"}
                      /\ req[t].op = "WRITE" /\ req[t].file = f
                   \/ \E o \in queued[t] : o.op = "WRITE" /\ o.file = f}

PeriodicDue ==
  file_fsync_freq # 0 /\ is_dirty /\ req_performed % file_fsync_freq = 0

FinalDue == file_fsync_end /\ Writes /\ fsynced_file2 < num_files

(* Faulty: the series of fsyncs ends with its first file. *)
StillDirtyNever == FALSE

(* The series of fsyncs has not come to the last file. *)
StillDirty == fsynced_file + 1 # num_files

(* Every file_fsync_freq requests all files are due, in a series.  Reads   *)
(* never find is_dirty set.                                                *)
GivePeriodicFsync(t) ==
  /\ ~LimitReached
  /\ PeriodicDue
  /\ Give(t, FsyncOf(fsynced_file))
  /\ fsynced_file' = (fsynced_file + 1) % num_files
  /\ is_dirty' = StillDirty
  /\ since' = [since EXCEPT ![fsynced_file] = 0]
  /\ UNCHANGED <<claim, position, current_file, fsynced_file2, req_performed,
                 prev_req, inFlight>>

(* Once all requests are handed out, every file is due once more. *)
GiveFinalFsync(t) ==
  /\ LimitReached
  /\ FinalDue
  /\ Give(t, FsyncOf(fsynced_file2))
  /\ fsynced_file2' = fsynced_file2 + 1
  /\ since' = [since EXCEPT ![fsynced_file2] = 0]
  /\ UNCHANGED <<claim, position, current_file, fsynced_file, is_dirty,
                 req_performed, prev_req, inFlight>>

GiveNull(t) ==
  /\ LimitReached
  /\ ~FinalDue
  /\ Give(t, NullReq)
  /\ UNCHANGED <<genVars, inFlight>>

CountWrite(r) ==
  /\ req_performed' = req_performed + 1
  /\ is_dirty' = (is_dirty \/ r.op = "WRITE")
  /\ since' = IF r.op = "WRITE" /\ r.file \in Files
              THEN [since EXCEPT ![r.file] = @ + 1] ELSE since

(* check_seq_req: r does not follow prev. *)
OutOfSequence(prev, r) ==
  /\ prev.op # "NULL"
  /\ \/ /\ r.file - prev.file \notin {0, 1}
        /\ ~(r.file = 0 /\ prev.file = num_files - 1)
     \/ r.file = prev.file /\ r.pos - prev.pos # prev.size
     \/ /\ r.file # prev.file
        /\ ~(prev.pos + prev.size = file_size /\ r.pos = 0)

(* The next piece of the files, one after the other, round and round. *)
file_get_seq_request(t) ==
  LET rewind == current_file = num_files
      f == IF rewind THEN 0 ELSE current_file
      p == IF rewind THEN 0 ELSE position
      fits == p + file_max_request_size <= file_size
      r == [op |-> IF cfg.mode = "seqrd" THEN "READ" ELSE "WRITE",
            file |-> f, pos |-> p,
            size |-> IF cfg.merged_requests > 0 /\ ~fits
                     THEN file_size - p ELSE file_max_request_size]
      end == p + r.size = file_size
  IN
  /\ cfg.mode \in SeqModes
  /\ ~LimitReached /\ ~PeriodicDue
  /\ Give(t, r)
  /\ CountWrite(r)
  /\ position' = IF end THEN 0 ELSE p + r.size
  /\ current_file' = IF end THEN f + 1 ELSE f
  /\ prev_req' = IF cfg.validate THEN r ELSE prev_req
  /\ alarms' = IF cfg.validate /\ OutOfSequence(prev_req, r)
               THEN alarms \cup {"sequence"} ELSE alarms
  /\ UNCHANGED <<claim, fsynced_file, fsynced_file2, inFlight>>

(* Faulty: blocks other threads work on are not avoided. *)
AvoidedNone(t, f, p) == TRUE

(* Faulty: a thread avoids its own last block too. *)
AvoidedOwn(t, f, p) == cfg.validate => \A u \in Threads : claim[u] # <<f, p>>

(* In validation mode a block another thread works, or last worked, on is  *)
(* not taken: the generator draws again until it finds one.                *)
Avoided(t, f, p) ==
  cfg.validate => \A u \in Threads \ {t} : claim[u] # <<f, p>>

(* A random block of the files; a combined test reads as long as the ratio *)
(* of the operations counted so far is too small.                          *)
file_get_rnd_request(t) ==
  LET reads == \/ cfg.mode = "rndrd"
               \/ /\ cfg.mode = "rndrw"
                  /\ (stats.read_ops + 1) * cfg.rw_ratio[2]
                       < (stats.write_ops + 1) * cfg.rw_ratio[1]
  IN
  /\ cfg.mode \notin SeqModes
  /\ ~LimitReached /\ ~PeriodicDue
  /\ \E tmppos \in Starts(0, cfg.total_size) :
       LET r == [op |-> IF reads THEN "READ" ELSE "WRITE",
                 file |-> tmppos \div file_size,
                 pos |-> tmppos % file_size, size |-> cfg.block_size]
       IN
       /\ Avoided(t, r.file, r.pos)
       /\ Give(t, r)
       /\ CountWrite(r)
       /\ claim' = [claim EXCEPT ![t] = <<r.file, r.pos>>]
  /\ UNCHANGED <<position, current_file, fsynced_file, fsynced_file2,
                 prev_req, alarms, inFlight>>

file_get_request(t) ==
  /\ phase = "run"
  /\ \/ GivePeriodicFsync(t) /\ UNCHANGED alarms
     \/ GiveFinalFsync(t) /\ UNCHANGED alarms
     \/ GiveNull(t) /\ UNCHANGED alarms
     \/ file_get_seq_request(t)
     \/ file_get_rnd_request(t)
  /\ UNCHANGED <<cfg, phase, disk, unsynced, errors, torn, statVars, aioVars>>
-----------------------------------------------------------------------------
(* The execution of a request *)

(* An error ends this thread only; it still has its thread_done. *)
Fail(t, from) == Goto(t, from, "thread_done")

Extent(r) == <<r.pos, r.size>>

Disjoint(d, e) == d[1] + d[2] <= e[1] \/ e[1] + e[2] <= d[1]

(* Others that are between begin and end on a part of the same extent of a *)
(* file, where one of the two is a write.                                  *)
Overlapping(t) ==
  {u \in Threads \ {t} :
     /\ pc[u] \in {"write", "read"}
     /\ req[u].file = req[t].file
     /\ ~Disjoint(Extent(req[u]), Extent(req[t]))
     /\ "WRITE" \in {req[u].op, req[t].op}}

RequestChecked(r) == r.file <= num_files /\ r.pos + r.size <= file_size

UnchangedByExecute ==
  UNCHANGED <<cfg, phase, genVars, last, checkpoints>>

Reject(t) ==
  /\ req[t].op # "NULL" /\ ~RequestChecked(req[t])
  /\ Fail(t, "exec")
  /\ UnchangedByExecute
  /\ UNCHANGED <<disk, unsynced, req, errors, torn, alarms, inFlight, stats,
                 aioVars>>

(* pwrite, pread or the copy into or out of the mapping begins.  A file    *)
(* past the last one is whatever lies behind the array: its use fails.     *)
BeginIO(t) ==
  /\ cfg.io # "async"
  /\ req[t].op \in {"READ", "WRITE"} /\ RequestChecked(req[t])
  /\ req[t].file \in Files
  /\ Goto(t, "exec", IF req[t].op = "WRITE" THEN "write" ELSE "read")
  /\ torn' = [u \in Threads |-> IF u = t THEN Overlapping(t) # {}
                                ELSE torn[u] \/ u \in Overlapping(t)]
  /\ UnchangedByExecute
  /\ UNCHANGED <<disk, unsynced, req, errors, alarms, inFlight, stats, aioVars>>

FailIO(t) ==
  /\ req[t].op \in {"READ", "WRITE"} /\ RequestChecked(req[t])
  /\ IF req[t].file \in Files THEN Error ELSE NoError
  /\ Fail(t, "exec")
  /\ UnchangedByExecute
  /\ UNCHANGED <<disk, unsynced, req, torn, alarms, inFlight, stats, aioVars>>

(* Each write may have to be followed by an fsync. *)
AfterIO(t) == IF req[t].op = "WRITE" /\ cfg.fsync_all THEN "fsync" ELSE "count"

(* The write is done.  It carries the checksum of what it wrote, which is  *)
(* good unless another write tore it, and spoils those it overlaps.        *)
EndWrite(t) ==
  LET r == req[t] IN
  /\ Goto(t, "write", AfterIO(t))
  /\ disk' = [disk EXCEPT
                ![r.file].size = IF @ < r.pos + r.size THEN r.pos + r.size ELSE @,
                ![r.file].whole =
                  {e \in @ : Disjoint(e, Extent(r))}
                    \cup IF torn[t] THEN {} ELSE {Extent(r)}]
  /\ unsynced' = unsynced \cup {r.file}
  /\ UnchangedByExecute
  /\ UNCHANGED <<req, errors, torn, alarms, inFlight, stats, aioVars>>

(* The read is done: a short one is an error, and so is a block whose      *)
(* checksum or offset is wrong.                                            *)
EndRead(t) ==
  LET r == req[t]
      short == disk[r.file].size < r.pos + r.size
      bad == cfg.validate /\ (torn[t] \/ Extent(r) \notin disk[r.file].whole)
  IN
  /\ pc[t] = "read"
  /\ IF short \/ bad THEN Fail(t, "read") ELSE Goto(t, "read", "count")
  /\ alarms' = IF bad /\ ~short THEN alarms \cup {"checksum"} ELSE alarms
  /\ UnchangedByExecute
  /\ UNCHANGED <<disk, unsynced, req, errors, torn, inFlight, stats, aioVars>>

(* file_fsync is synchronous in every mode.  It flushes what was written   *)
(* before; who still writes is left out.                                   *)
Fsync(t) ==
  /\ \/ pc[t] = "fsync" /\ Goto(t, "fsync", "count")
     \/ /\ req[t].op = "FSYNC"
        /\ Goto(t, "exec", IF cfg.fsync_all THEN "get" ELSE "count")
  /\ IF cfg.fsync_all /\ req[t].op = "FSYNC"
     THEN UNCHANGED <<unsynced, inFlight>>
     ELSE /\ unsynced' = unsynced \ {req[t].file}
          /\ inFlight' = [inFlight EXCEPT ![req[t].file] = WritersOf(req[t].file)]
  /\ UnchangedByExecute
  /\ UNCHANGED <<disk, req, errors, torn, alarms, stats, aioVars>>

FailFsync(t) ==
  /\ Error
  /\ Fail(t, "fsync") \/ (req[t].op = "FSYNC" /\ ~cfg.fsync_all /\ Fail(t, "exec"))
  /\ UnchangedByExecute
  /\ UNCHANGED <<disk, unsynced, req, torn, alarms, inFlight, stats, aioVars>>

Counted(s, o) ==
  CASE o.op = "READ"  -> [s EXCEPT !.read_ops = @ + 1, !.bytes_read = @ + o.size]
    [] o.op = "WRITE" -> [s EXCEPT !.write_ops = @ + 1, !.bytes_written = @ + o.size]
    [] o.op = "FSYNC" -> [s EXCEPT !.other_ops = @ + 1]

(* The counters, which in async mode are left to the completion; only the  *)
(* fsync that follows a write is counted there and then.  The thread's     *)
(* loop may end here with the time limit.                                  *)
Count(t) ==
  LET extra == IF cfg.fsync_all THEN Counted(stats, FsyncOf(0)) ELSE stats IN
  /\ \/ Goto(t, "count", "get")
     \/ cfg.max_time /\ Goto(t, "count", "thread_done")
  /\ stats' = IF cfg.io = "async"
              THEN IF req[t].op = "WRITE" THEN extra ELSE stats
              ELSE Counted(IF req[t].op = "WRITE" THEN extra ELSE stats, req[t])
  /\ UnchangedByExecute
  /\ UNCHANGED <<disk, unsynced, req, errors, torn, alarms, inFlight, aioVars>>
-----------------------------------------------------------------------------
(* Asynchronous I/O *)

RoomInQueue(t) == nrequests[t] + 1 < cfg.async_backlog

(* The operation is queued; with the queue full one completion is awaited. *)
(* (Its identity is the request's number in the place of its size.)        *)
file_submit_or_wait(t) ==
  LET op == [req[t] EXCEPT !.size = req_performed] IN
  /\ cfg.io = "async"
  /\ req[t].op \in {"READ", "WRITE"} /\ RequestChecked(req[t])
  /\ req[t].file \in Files
  /\ queued' = [queued EXCEPT ![t] = @ \cup {op}]
  /\ nrequests' = [nrequests EXCEPT ![t] = @ + 1]
  /\ Goto(t, "exec", IF RoomInQueue(t) THEN AfterIO(t) ELSE "wait")
  /\ UnchangedByExecute
  /\ UNCHANGED <<disk, unsynced, req, errors, torn, alarms, inFlight, stats,
                 completed>>

(* The kernel finishes an operation, in any order. *)
AioComplete(t) ==
  \E o \in queued[t], ok \in BOOLEAN :
    /\ IF ok THEN NoError ELSE Error
    /\ queued' = [queued EXCEPT ![t] = @ \ {o}]
    /\ completed' = [completed EXCEPT ![t] =
                       @ \cup {[o EXCEPT !.op = IF ok THEN @ ELSE "BAD"]}]
    /\ unsynced' = IF ok /\ o.op = "WRITE" THEN unsynced \cup {o.file} ELSE unsynced
    /\ UNCHANGED <<cfg, phase, disk, pc, req, torn, alarms, inFlight, nrequests,
                   genVars, statVars>>

(* At least nreq completions are fetched and counted.  The first bad one   *)
(* ends the fetch, and those fetched after it are forgotten, while the     *)
(* length of the queue still includes them.                                *)
file_wait(t, from, to, nreq) ==
  LET got == completed[t]
      bad == {o \in got : o.op = "BAD"}
  IN
  /\ Cardinality(got) >= nreq
  /\ \E done \in SUBSET (got \ bad) :
       /\ bad = {} => done = got
       /\ IF bad = {} THEN Goto(t, from, to)
          ELSE Goto(t, from, IF from = "wait" THEN "thread_done" ELSE "done")
       /\ nrequests' = [nrequests EXCEPT ![t] = @ - Cardinality(done)]
       /\ LET reads == Cardinality({o \in done : o.op = "READ"})
              writes == Cardinality({o \in done : o.op = "WRITE"})
          IN stats' = [stats EXCEPT !.read_ops = @ + reads,
                                    !.bytes_read = @ + reads * cfg.block_size,
                                    !.write_ops = @ + writes,
                                    !.bytes_written = @ + writes * cfg.block_size]
  /\ completed' = [completed EXCEPT ![t] = {}]
  /\ UnchangedByExecute
  /\ UNCHANGED <<disk, unsynced, req, errors, torn, alarms, inFlight, queued>>

WaitForRoom(t) == file_wait(t, "wait", AfterIO(t), 1)

(* The end of a thread: all of its operations are awaited. *)
file_thread_done(t) ==
  \/ nrequests[t] > 0 /\ file_wait(t, "thread_done", "done", nrequests[t])
  \/ /\ nrequests[t] = 0 /\ Goto(t, "thread_done", "done")
     /\ UnchangedByExecute
     /\ UNCHANGED <<disk, unsynced, req, errors, torn, alarms, inFlight, stats,
                    aioVars>>
-----------------------------------------------------------------------------
(* Reports, and the end *)

PrintIntermediate ==
  /\ phase = "run" /\ cfg.reports
  /\ last' = stats
  /\ UNCHANGED <<cfg, phase, disk, unsynced, pc, req, errors, torn, alarms,
                 inFlight, genVars, stats, checkpoints, aioVars>>

(* clear_stats, from a checkpoint. *)
PrintCumulative ==
  /\ phase = "run" /\ cfg.reports /\ checkpoints < MaxCheckpoints
  /\ checkpoints' = checkpoints + 1
  /\ stats' = ZeroStats /\ last' = ZeroStats
  /\ UNCHANGED <<cfg, phase, disk, unsynced, pc, req, errors, torn, alarms,
                 inFlight, genVars, aioVars>>

(* The final statistics; files, contexts, mappings and buffers are freed. *)
file_done ==
  /\ phase = "run"
  /\ \A t \in Threads : pc[t] = "done"
  /\ phase' = "done"
  /\ stats' = ZeroStats /\ last' = ZeroStats
  /\ UNCHANGED <<cfg, disk, unsynced, pc, req, errors, torn, alarms, inFlight,
                 genVars, checkpoints, aioVars>>

file_cmd_cleanup ==
  /\ phase \in {"done", "failed"} /\ OptionsValid
  /\ phase' = "removed"
  /\ disk' = [f \in Files |-> NoFile]
  /\ NoError /\ UnchangedByCommand

RunnerStep(t) ==
  \/ file_get_request(t)
  \/ Reject(t) \/ BeginIO(t) \/ FailIO(t) \/ EndWrite(t) \/ EndRead(t)
  \/ Fsync(t) \/ FailFsync(t) \/ Count(t)
  \/ file_submit_or_wait(t) \/ WaitForRoom(t) \/ file_thread_done(t)

Terminated ==
  /\ phase = "removed" \/ (phase = "failed" /\ ~OptionsValid)
  /\ UNCHANGED vars

Next ==
  \/ file_cmd_prepare
  \/ file_prepare
  \/ \E t \in Threads : RunnerStep(t) \/ AioComplete(t)
  \/ PrintIntermediate
  \/ PrintCumulative
  \/ file_done
  \/ file_cmd_cleanup
  \/ Terminated

Spec == Init /\ [][Next]_vars

(* The user's commands and the threads make progress, and the kernel       *)
(* finishes every operation; no error and no report is promised.           *)
Fairness ==
  /\ WF_vars(file_cmd_prepare) /\ WF_vars(file_prepare) /\ WF_vars(file_done)
  /\ \A t \in Threads : WF_vars(RunnerStep(t)) /\ WF_vars(AioComplete(t))

FairSpec == Spec /\ Fairness
-----------------------------------------------------------------------------
(* "after this number of requests": no file is written more often than     *)
(* that before it is due for its next fsync, although the requests of the  *)
(* series go to different threads and writes are still being handed out    *)
(* and executed by others.                                                 *)
FsyncEvery ==
  file_fsync_freq # 0 => \A f \in Files : since[f] <= file_fsync_freq

(* The final fsyncs are handed out as soon as the last request is, not     *)
(* when it is finished.  After a run without errors, a file that is still  *)
(* not synced is one whose final fsync overtook a write of another thread, *)
(* or an asynchronous write of its own.                                    *)
UnsyncedInFlight ==
  phase = "done" /\ errors = 0 /\ fsynced_file2 = num_files =>
    \A f \in unsynced : inFlight[f] # {}

(* Validation raises no false alarm in the modes without AIO: blocks on    *)
(* disk are whole, nobody reads one that is being written, and sequential  *)
(* requests follow each other.  Three exceptions: with one file, the check *)
(* mistakes the rewind for a gap; a merged request has one checksum, the   *)
(* blocks it covers have one each; and if a file is not made of whole      *)
(* blocks, a random block of the files, counted from the first one, is not *)
(* a block of its file, and the last merged request is shorter than one.   *)
WholeBlocks == OptionsValid /\ file_size > 0 /\ file_size % cfg.block_size = 0

NoFalseAlarm ==
  cfg.io # "async" /\ cfg.prepare =>
    alarms \subseteq
      (IF num_files = 1 THEN {"sequence"} ELSE {})
        \cup (IF cfg.merged_requests > 1 \/ ~WholeBlocks THEN {"checksum"} ELSE {})

Ended == phase \in {"done", "removed", "failed"}

(* Without an asynchronous error the run ends: the generators always find  *)
(* a block to hand out, the series of fsyncs end, and no completion is     *)
(* awaited that does not come.                                             *)
Finishes == <>(Ended \/ (cfg.io = "async" /\ errors > 0))

=============================================================================
