------------------------------ MODULE MCFileIO ------------------------------
(* FileIO for TLC: two files of two blocks, and the modes, I/O modes and   *)
(* options that reach all of the code.                                     *)
EXTENDS FileIO

Base ==
  [mode |-> "rndrw", io |-> "sync", file_num |-> 2, total_size |-> 4,
   block_size |-> 1, merged_requests |-> 0, fsync_freq |-> 0,
   fsync_end |-> FALSE, fsync_all |-> FALSE, rw_ratio |-> <<3, 2>>,
   async_backlog |-> 2, validate |-> FALSE, max_requests |-> 3,
   max_time |-> FALSE, reports |-> FALSE, prepare |-> TRUE]

MCConfigs ==
  { [Base EXCEPT !.validate = TRUE, !.fsync_end = TRUE, !.max_requests = 2,
                 !.reports = TRUE],
    [Base EXCEPT !.validate = TRUE, !.total_size = 2],
    [Base EXCEPT !.validate = TRUE, !.total_size = 6, !.block_size = 2,
                 !.max_requests = 2],
    [Base EXCEPT !.fsync_freq = 2, !.mode = "rndwr", !.max_time = TRUE,
                 !.total_size = 2],
    [Base EXCEPT !.mode = "rndwr", !.fsync_all = TRUE, !.io = "mmap"],
    [Base EXCEPT !.mode = "rndrd", !.total_size = 5, !.max_requests = 2],
    [Base EXCEPT !.mode = "seqwr", !.fsync_freq = 2, !.fsync_end = TRUE, !.max_requests = 5],
    [Base EXCEPT !.mode = "seqwr", !.io = "mmap"],
    [Base EXCEPT !.mode = "seqrewr", !.merged_requests = 2, !.total_size = 6, !.block_size = 1,
                 !.max_requests = 4],
    [Base EXCEPT !.mode = "seqrd", !.validate = TRUE, !.max_requests = 6],
    [Base EXCEPT !.mode = "seqrd", !.validate = TRUE, !.merged_requests = 2],
    [Base EXCEPT !.mode = "seqrd", !.validate = TRUE, !.file_num = 1, !.total_size = 2],
    [Base EXCEPT !.mode = "seqrd", !.total_size = 6, !.block_size = 2],
    [Base EXCEPT !.mode = "seqrd", !.prepare = FALSE],
    [Base EXCEPT !.mode = "rndrw", !.io = "async", !.total_size = 2, !.fsync_freq = 2, !.fsync_end = TRUE],
    [Base EXCEPT !.mode = "seqwr", !.io = "async", !.fsync_all = TRUE, !.max_requests = 2],
    [Base EXCEPT !.io = "async", !.async_backlog = 0],
    [Base EXCEPT !.block_size = 0] }

=============================================================================
