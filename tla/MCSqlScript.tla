---------------------------- MODULE MCSqlScript -----------------------------
(* The scripts, drivers and options of the runs of SqlScript. *)
EXTENDS SqlScript

Query(q) == <<q, "store", "free">>

(* A transaction, as in oltp.lua (whose BEGIN and COMMIT have no rows to   *)
(* store), a script without thread_init and thread_done, a prepared        *)
(* statement, as in select_random_points.lua, and a bulk insert of a row   *)
(* per event.                                                              *)
Oltp == [init |-> <<>>, event |-> <<"begin">> \o Query("select") \o <<"commit">>,
         done |-> <<"disconnect">>]
Plain == [init |-> <<>>, event |-> Query("select"), done |-> <<>>]
Points == [init |-> <<"prepare", "bind">>,
           event |-> <<"execute", "store", "free">>,
           done |-> <<"close", "disconnect">>]
BoundResult == [Points EXCEPT !.init = @ \o <<"bind_result">>]
(* The same, prepared by the first event that gets there. *)
Lazy == [Points EXCEPT !.init = <<>>, !.event = Points.init \o @]
BulkInsert == [init |-> <<"bulk_init">>, event |-> <<"bulk_next">>,
               done |-> <<"bulk_done", "disconnect">>]

Config(script, driver, ps, ignored) ==
  [script |-> script, driver |-> driver, ps |-> ps, dry_run |-> FALSE,
   ignored |-> ignored, param |-> "int", row_lengths |-> {1},
   hosts |-> 2, sockets |-> 0]

All == Answers \cup {"detached"}

MCConfigs ==
  {Config(Plain, d, TRUE, {}) : d \in Drivers}
    \cup {[Config(Plain, d, TRUE, {}) EXCEPT !.sockets = 1] : d \in {"mysql", "drizzle"}}
    \cup {Config(Oltp, "mysql", FALSE, {"retry", "lost"})}
    \cup {Config(Points, d, TRUE, {}) : d \in Drivers \ {"mysql"}}
    \cup {Config(Points, d, FALSE, {}) : d \in {"pgsql", "oracle"}}
    \cup {Config(BoundResult, "mysql", TRUE, {"retry", "lost"}),
          Config(BoundResult, "oracle", TRUE, {}),
          Config(Lazy, "attachsql", TRUE, {}),
          [Config(Points, "mysql", TRUE, All) EXCEPT !.param = "string"],
          [Config(Points, "mysql", TRUE, {}) EXCEPT !.dry_run = TRUE]}
    \cup {[Config(BulkInsert, d, FALSE, {}) EXCEPT !.row_lengths = {1, 2}] :
            d \in {"mysql", "oracle", "pgsql"}}
    \cup {[Config(BulkInsert, "mysql", FALSE, {}) EXCEPT !.row_lengths = {7}]}

ASSUME MCResults == ResultsRead
=============================================================================
