----------------------------- MODULE MCStartup ------------------------------
(* Words of eight bits, three drivers, two configuration files. *)
EXTENDS Startup, TLC

Num(n) == [num |-> n, text |-> ""]
Txt(t) == [num |-> -1, text |-> t]
With(n, t) == [num |-> n, text |-> t]

Command(name) == [kind |-> "command", name |-> name, values |-> <<>>]
Option(name, values) == [kind |-> "option", name |-> name, values |-> values]

Args ==
  LET Arg(type, values) == [type |-> type, values |-> values]
      Off == Arg("FLAG", <<Txt("off")>>)
      Number(n) == Arg("INT", <<Num(n)>>)
      Str(t) == Arg("STRING", <<Txt(t)>>)
      Unset == Arg("STRING", <<>>)
  IN "num-threads" :> Number(1) @@ "max-time" :> Number(0) @@ "rand-seed" :> Number(0)
     @@ "verbosity" :> Number(3) @@ "percentile" :> Number(95) @@ "forced-shutdown" :> Str("off")
     @@ "thread-stack-size" :> Arg("SIZE", <<With(64, "K")>>)
     @@ "report-checkpoints" :> Arg("LIST", <<>>)
     @@ "test" :> Unset @@ "db-driver" :> Unset
     @@ "debug" :> Off @@ "version" :> Off @@ "rand-init" :> Off
     @@ "rand-type" :> Str("special") @@ "db-ps-mode" :> Str("auto")
     @@ "config-file" :> Arg("FILE", <<>>)

Line(name, values) == [name |-> name, values |-> values, closed |-> TRUE]

(* The third line of the second file lacks a closing quote. *)
ConfigFiles ==
  "a.cfg" :> <<Line("test", <<Txt("oltp.lua")>>), Line("own", <<Num(1), Num(2)>>),
               Line("debug", <<Txt("off")>>), Line("version", <<>>)>>
  @@ "b.cfg" :> <<Line("report-checkpoints", <<Num(3), Num(1)>>),
                  Line("report-checkpoints", <<Num(9), Num(2), Num(5)>>),
                  [name |-> "rand-type", values |-> <<Txt("pareto")>>, closed |-> FALSE],
                  Line("num-threads", <<Num(0)>>)>>

Compiled == "fileio" :> {"prepare", "cleanup"} @@ "cpu" :> {}

Drivers == <<"mysql", "pgsql", "oracle">>

Run == Command("run")
Script == Option("test", <<Txt("oltp.lua")>>)
Select == Option("test", <<Txt("select.lua")>>)

(* Any two settings in any order before a run of a script. *)
Settable ==
  {Option("config-file", <<Txt("a.cfg")>>), Option("config-file", <<Txt("b.cfg")>>),
   Option("config-file", <<Txt("missing.cfg")>>),
   Option("report-checkpoints", <<Num(200), Num(4), Num(4)>>),
   Option("report-checkpoints", <<Num(6), Num(4), Num(3), Num(2)>>),
   Option("report-checkpoints", <<Txt("soon")>>), Option("report-checkpoints", <<>>),
   Option("own", <<Num(7)>>), Option("own", <<>>), Option("debug", <<>>),
   Option("debug", <<NotSet>>), Option("max-time", <<NotSet>>), Option("verbosity", <<Num(6)>>),
   Option("percentile", <<Num(0)>>),
   Option("db-driver", <<Txt("mysql")>>), Option("db-driver", <<Txt("mariadb")>>),
   Option("db-ps-mode", <<Txt("often")>>), Option("max-time", <<Num(7)>>),
   Option("forced-shutdown", <<>>), Option("forced-shutdown", <<With(7, "%")>>),
   Option("forced-shutdown", <<Num(3)>>), Option("forced-shutdown", <<Txt("soon")>>),
   Option("num-threads", <<Num(0)>>), Option("num-threads", <<With(2, "x")>>),
   Option("thread-stack-size", <<With(2, "Q")>>), Option("thread-stack-size", <<Num(7)>>),
   Option("rand-init", <<>>), Option("rand-seed", <<Num(3)>>),
   Option("rand-type", <<Txt("zipf")>>), Option("version", <<Txt("off")>>)}

Lines ==
  {<<a, b, Script, Run>> : a \in Settable, b \in Settable}
  \cup {<<Command(c)>> \o rest :
          c \in {"prepare", "cleanup", "run", "help", "version", "fetch"},
          rest \in {<<>>, <<Run>>, <<Script>>, <<Option("test", <<Txt("fileio")>>)>>,
                    <<Option("test", <<Txt("cpu")>>)>>, <<Option("version", <<>>)>>}}
  \cup {<<Option("test", <<Txt(t)>>), Command(c)>> :
          t \in {"fileio", "cpu", "oltp.lua"}, c \in {"help", "run"}}
  \cup {<<Select, Run>>, <<>>}

Drawing == {"select.lua"}

(* Of one and of few numbers, below zero, of more numbers than an int, and *)
(* of all the ints.                                                        *)
DrawRanges == {<<0, 0>>, <<1, 2>>, <<2, 6>>, <<-9, -3>>, <<0, 127>>, <<-128, 127>>}
=============================================================================
