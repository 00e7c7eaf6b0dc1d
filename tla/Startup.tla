------------------------------- MODULE Startup ------------------------------
(***************************************************************************)
(* sysbench from main to the end of its command: the options of the        *)
(* command line and of configuration files (sb_options.c), init, the       *)
(* choice of the test and of the database driver, and the random numbers a *)
(* running script draws.                                                   *)
(*                                                                         *)
(* A value is a number followed by a text, [num, text]: "64K" is           *)
(* [64, "K"], "off" is [-1, "off"].  Option names are taken modulo '-' and *)
(* '_', as opt_name_cmp does.                                              *)
(***************************************************************************)
EXTENDS SbRand, Sequences, FiniteSets, Functions

CONSTANTS
  CommandLines,     \* sets of arguments, [kind, name, values]
  args,             \* the registered options: name -> [type, values]
  config_files,     \* name -> sequence of [name, values, closed], the lines with a
                    \* '='; a line is closed unless a quote in it is not
  Tests,            \* compiled-in tests: name -> the commands they have
  drivers,          \* the compiled-in database drivers, in their order
  MAX_CHECKPOINTS,
  RandomScripts,    \* the scripts that draw numbers
  Ranges,           \* pairs <<a, b>> numbers are drawn from
  MaxDraws          \* bound on the unique numbers drawn

IsSeq(s) == s \in Seq(Range(s))
Types == {"FLAG", "INT", "SIZE", "FLOAT", "STRING", "LIST", "FILE"}

(* "--name=", without a value. *)
NotSet == [num |-> -1, text |-> ""]

(* The options init reads are registered; --config-file is the one file.   *)
(* A value in a file is not empty.                                         *)
ASSUME StartupAssumption ==
  /\ \A line \in CommandLines : IsSeq(line) /\ \A k \in DOMAIN line : IsSeq(line[k].values)
  /\ \A n \in DOMAIN args :
       /\ args[n].type \in Types /\ IsSeq(args[n].values)
       /\ args[n].type = "FILE" <=> n = "config-file"
  /\ {"config-file", "verbosity", "percentile", "max-time", "report-checkpoints", "db-driver"}
       \subseteq DOMAIN args
  /\ \A f \in DOMAIN config_files :
       /\ IsSeq(config_files[f])
       /\ \A k \in DOMAIN config_files[f] :
            IsSeq(config_files[f][k].values) /\ NotSet \notin Range(config_files[f][k].values)
  /\ "" \notin DOMAIN config_files
  /\ IsSeq(drivers) /\ {"unknown", "failed"} \cap Range(drivers) = {}
  /\ \A r \in Ranges : r \in Ints \X Ints /\ r[1] <= r[2]
  /\ MaxDraws \in Nat

VARIABLES
  argv,      \* the command line
  i,         \* the next argument
  phase,     \* "parse", "dispatch", "init", "load", "command", "running", "exited"
  status,    \* the exit status, -1 before
  command,   \* sb_globals.command
  options,   \* name -> [type, values]
  globals,   \* what init has made of them
  test,      \* the test found
  driver,    \* the database driver: "unknown", "failed" or one of drivers
  seed,      \* rnd_seed
  uniq,      \* history: the unique numbers drawn, [range, n]
  drawn      \* history: the last number drawn or not, [type, a, b, n]

mainVars == <<argv, i, phase, status, command, options, globals, test, driver,
              seed, uniq, drawn>>
-----------------------------------------------------------------------------
(* Values and options *)

(* add_option: an option that is not known yet has no type and no values. *)
add_option(opts, name) ==
  IF name \in DOMAIN opts THEN opts
  ELSE [n \in DOMAIN opts \cup {name} |->
          IF n = name THEN [type |-> "NULL", values |-> <<>>] ELSE opts[n]]

(* A line of a file replaces the values of its option, whatever its type. *)
ReadLine(opts, line) ==
  [add_option(opts, line.name) EXCEPT ![line.name].values = line.values]

(* A line that is not closed is the last one read. *)
LinesOf(file) ==
  LET lines == config_files[file]
      open == {n \in DOMAIN lines : ~lines[n].closed}
  IN IF open = {} THEN lines
     ELSE SubSeq(lines, 1, CHOOSE n \in open : \A m \in open : n <= m)

(* Line by line. *)
read_config(opts, file) ==
  LET lines == LinesOf(file)
      read[n \in 0 .. Len(lines)] ==
        IF n = 0 THEN opts ELSE ReadLine(read[n - 1], lines[n])
  IN read[Len(lines)]

(* What a value given for an option makes of its values.  Without one a    *)
(* flag is on and anything else not set; with an empty one nothing is set. *)
ValuesOf(type, values) ==
  CASE type = "FLAG" -> IF values = <<>> \/ values[1].text = "on"
                        THEN <<[num |-> -1, text |-> "on"]>> ELSE <<>>
    [] type \in {"INT", "SIZE", "FLOAT", "STRING"} ->
           IF values = <<>> \/ values[1] = NotSet THEN <<>> ELSE <<values[1]>>
    [] type = "LIST" -> IF values = <<NotSet>> THEN <<>> ELSE values
    [] type \in {"FILE", "NULL"} -> <<>>

(* Faulty: the values set before are kept. *)
set_option_adding(opts, name, values, type) ==
  LET known == add_option(opts, name)
      set == [known EXCEPT ![name] = [type |-> type, values |->
                IF type = "LIST" THEN @.values \o ValuesOf(type, values)
                ELSE ValuesOf(type, values)]]
  IN IF type = "FILE" /\ values # <<>> /\ values[1].text \in DOMAIN config_files
     THEN read_config(set, values[1].text) ELSE set

(* A file that cannot be opened is passed over. *)
set_option(opts, name, values, type) ==
  LET known == add_option(opts, name)
      set == [known EXCEPT ![name] = [type |-> type, values |-> ValuesOf(type, values)]]
  IN IF type = "FILE" /\ values # <<>> /\ values[1].text \in DOMAIN config_files
     THEN read_config(set, values[1].text) ELSE set

TypeFor(opts, name) == IF name \in DOMAIN opts THEN opts[name].type ELSE "STRING"

Opt(name) == options[name].values
sb_get_value_flag(name) == Opt(name) # <<>>
sb_get_value_string(name) == IF Opt(name) = <<>> THEN NotSet ELSE Opt(name)[1]

(* strtol: nothing may follow the number; without a value it is 0. *)
ValidInt(name) ==
  Opt(name) # <<>> => Opt(name)[1].text = "" /\ Opt(name)[1].num <= INT_MAX
sb_get_value_int(name) == IF Opt(name) = <<>> THEN 0 ELSE Opt(name)[1].num

sb_get_value_size(name) ==
  LET v == sb_get_value_string(name) IN
  CASE v.num = -1 -> 0
    [] v.num # -1 /\ v.text = "" -> v.num
    [] v.num # -1 /\ v.text = "K" -> v.num * 1024
    [] OTHER -> 0

(* Every option with its default. *)
Registered == [n \in DOMAIN args |->
                 [type |-> args[n].type, values |-> ValuesOf(args[n].type, args[n].values)]]
-----------------------------------------------------------------------------
MainInit ==
  /\ argv \in CommandLines
  /\ i = 1 /\ phase = "parse" /\ status = -1 /\ command = "NULL"
  /\ options = Registered
  /\ globals = [checkpoints |-> <<>>, force_shutdown |-> FALSE, timeout |-> 0]
  /\ test = "NULL" /\ driver = "unknown"
  /\ seed = LARGE_PRIME
  /\ uniq = <<>>
  /\ drawn = [type |-> "none", a |-> 0, b |-> 0, n |-> 0]

runVars == <<seed, uniq, drawn, driver>>

Exit(rc) == phase' = "exited" /\ status' = rc
Go(p) == phase' = p /\ UNCHANGED status

(* parse_arguments: a command. *)
ParseCommand ==
  /\ phase = "parse" /\ i <= Len(argv) /\ argv[i].kind = "command"
  /\ IF command # "NULL" \/ argv[i].name \notin {"prepare", "run", "help", "cleanup", "version"}
     THEN Exit(1) /\ UNCHANGED <<i, command>>
     ELSE /\ command' = argv[i].name
          /\ i' = i + 1
          /\ UNCHANGED <<phase, status>>
  /\ UNCHANGED <<argv, options, globals, test, runVars>>

(* parse_arguments: an option.  After "help" it is an error, after         *)
(* "version" the end.  An option without a type comes from a file only.    *)
ParseOption ==
  LET type == TypeFor(options, argv[i].name) IN
  /\ phase = "parse" /\ i <= Len(argv) /\ argv[i].kind = "option"
  /\ CASE command = "help" -> Exit(1) /\ UNCHANGED <<i, options>>
       [] command = "version" -> Go("dispatch") /\ UNCHANGED <<i, options>>
       [] command \notin {"help", "version"} /\ type = "NULL"
            /\ argv[i].values \notin {<<>>, <<NotSet>>} ->
            Exit(1) /\ UNCHANGED <<i, options>>
       [] OTHER -> /\ options' = set_option(options, argv[i].name, argv[i].values, type)
                   /\ i' = i + 1
                   /\ UNCHANGED <<phase, status>>
  /\ UNCHANGED <<argv, command, globals, test, runVars>>

Parsed ==
  /\ phase = "parse" /\ i > Len(argv)
  /\ Go("dispatch")
  /\ UNCHANGED <<argv, i, command, options, globals, test, runVars>>

(* main, before init. *)
Dispatch ==
  /\ phase = "dispatch"
  /\ IF command = "version" \/ sb_get_value_flag("version") THEN Exit(0)
     ELSE IF command = "NULL" THEN Exit(1) ELSE Go("init")
  /\ UNCHANGED <<argv, i, command, options, globals, test, runVars>>
-----------------------------------------------------------------------------
(* init *)

(* The value of --forced-shutdown: "not" if it is off or there is no limit *)
(* of time, the timeout, or an error.                                      *)
ForcedShutdown ==
  LET v == sb_get_value_string("forced-shutdown")
      max_time == sb_get_value_int("max-time")
  IN CASE max_time <= 0 \/ v.text = "off" -> [force |-> FALSE, timeout |-> 0, ok |-> TRUE]
       [] max_time > 0 /\ v = NotSet ->
            [force |-> TRUE, timeout |-> max_time \div 20, ok |-> TRUE]
       [] max_time > 0 /\ v.num # -1 /\ v.text = "%" ->
            [force |-> TRUE, timeout |-> (v.num * max_time) \div 100, ok |-> TRUE]
       [] max_time > 0 /\ v.num # -1 /\ v.text = "" ->
            [force |-> TRUE, timeout |-> v.num, ok |-> TRUE]
       [] OTHER -> [force |-> FALSE, timeout |-> 0, ok |-> FALSE]

(* Faulty: the larger one comes first. *)
checkpoint_cmp_reversed(a, b) == Signed(b - a)

(* The difference as an int: for numbers more than half a word apart it    *)
(* has the wrong sign.                                                     *)
checkpoint_cmp(a, b) == Signed(a - b)

(* qsort: an order its comparison agrees with, if there is one. *)
qsort(list) ==
  LET orders == {[k \in DOMAIN list |-> list[p[k]]] :
                   p \in {f \in [DOMAIN list -> DOMAIN list] :
                            \A x, y \in DOMAIN list : f[x] = f[y] => x = y}}
      agreeing == {s \in orders : \A x, y \in DOMAIN list :
                                    x < y => checkpoint_cmp(s[x], s[y]) <= 0}
  IN IF agreeing = {} THEN orders ELSE agreeing

Checkpoints == [k \in DOMAIN Opt("report-checkpoints") |-> Opt("report-checkpoints")[k].num]

init_ok ==
  /\ \A name \in DOMAIN args : args[name].type = "INT" => ValidInt(name)
  /\ sb_get_value_int("num-threads") # 0
  /\ ForcedShutdown.ok
  /\ sb_get_value_size("thread-stack-size") > 0
  /\ ~(sb_get_value_flag("rand-init") /\ sb_get_value_int("rand-seed") # 0)
  /\ sb_get_value_string("rand-type").text \in {"uniform", "gaussian", "special", "pareto"}
  /\ \A k \in DOMAIN Opt("report-checkpoints") :
       LET v == Opt("report-checkpoints")[k] IN v.text = "" /\ v.num \in 0..(WORD - 1)
  /\ Len(Opt("report-checkpoints")) <= MAX_CHECKPOINTS

(* The verbosity is an unsigned char; debug mode makes it 5. *)
log_init_ok ==
  /\ sb_get_value_flag("debug") \/ sb_get_value_int("verbosity") % 256 <= 5
  /\ sb_get_value_int("percentile") \in 1 .. 100

(* init and log_init, both of which allocate memory. *)
init ==
  /\ phase = "init"
  /\ \/ /\ init_ok /\ log_init_ok
        /\ Go("load")
        /\ \E sorted \in qsort(Checkpoints) :
             globals' = [checkpoints |-> sorted,
                         force_shutdown |-> ForcedShutdown.force,
                         timeout |-> ForcedShutdown.timeout]
        /\ options' = IF sb_get_value_flag("debug")
                      THEN set_option(options, "verbosity", <<[num |-> 5, text |-> ""]>>,
                                      options["verbosity"].type)
                      ELSE options
     \/ Exit(1) /\ UNCHANGED <<globals, options>>
  /\ UNCHANGED <<argv, i, command, test, runVars>>
-----------------------------------------------------------------------------
(* The test.  A name that is not a test's is a script's: an error in it is *)
(* raised outside a protected call and ends the process.                   *)

find_test(name) == IF name \in DOMAIN Tests THEN name ELSE "NULL"

LoadTest ==
  LET name == sb_get_value_string("test").text IN
  /\ phase = "load"
  /\ \/ /\ name = "" \/ find_test(name) # "NULL"
        /\ test' = find_test(name)
        /\ Go("command")
     \/ /\ name # "" /\ find_test(name) = "NULL"
        /\ \/ test' = "script" /\ Go("command")
           \/ Exit(1) /\ UNCHANGED test
  /\ UNCHANGED <<argv, i, command, options, globals, runVars>>

(* What the test answers to prepare and cleanup is the exit status. *)
RunCommand ==
  /\ phase = "command"
  /\ CASE command = "help" -> Exit(0)
       [] command # "help" /\ test = "NULL" -> Exit(1)
       [] command \in {"prepare", "cleanup"} /\ test # "NULL" ->
            IF test = "script" \/ command \in Tests[test] THEN \E rc \in {0, 1} : Exit(rc)
            ELSE Exit(1)
       [] OTHER -> Go("running")
  /\ UNCHANGED <<argv, i, command, options, globals, test, runVars>>

(* db_init, once, when the first thread of a script connects: the only     *)
(* driver there is, or the one asked for.  If there is none of that name   *)
(* the search ends with the last one.                                      *)
db_init ==
  LET name == sb_get_value_string("db-driver").text IN
  /\ phase = "running" /\ test = "script" /\ driver = "unknown"
  /\ driver' = IF sb_get_value_string("db-ps-mode").text \notin {"auto", "disable"} THEN "failed"
               ELSE IF name = "" THEN IF Len(drivers) = 1 THEN drivers[1] ELSE "failed"
               ELSE IF name \in Range(drivers) THEN name
               ELSE drivers[Len(drivers)]
  /\ UNCHANGED <<argv, i, phase, status, command, options, globals, test, seed,
                 uniq, drawn>>

(* A script draws numbers (a run of the model draws one, or unique ones). *)
DrawsNumbers ==
  /\ phase = "running" /\ test = "script" /\ drawn.type = "none"
  /\ sb_get_value_string("test").text \in RandomScripts

(* The signal an integer division by zero raises ends the process. *)
SIGFPE == 136
Killed(type, r) ==
  /\ DividesByZero(type, r[1], r[2])
  /\ Exit(SIGFPE)
  /\ drawn' = [type |-> type, a |-> r[1], b |-> r[2], n |-> 0]

Draw(type) ==
  /\ DrawsNumbers /\ uniq = <<>>
  /\ \E r \in Ranges :
       \/ Killed(type, r)
       \/ /\ ~DividesByZero(type, r[1], r[2])
          /\ \E n \in sb_rand(type, r[1], r[2]) :
               drawn' = [type |-> type, a |-> r[1], b |-> r[2], n |-> n]
          /\ UNCHANGED <<phase, status>>
  /\ UNCHANGED <<argv, i, command, options, globals, test, driver, seed, uniq>>

(* The seed is the same for every range and thread. *)
sb_rand_uniq(r) ==
  /\ DrawsNumbers /\ Len(uniq) < MaxDraws
  /\ \/ Killed("uniq", r) /\ UNCHANGED <<seed, uniq>>
     \/ /\ ~DividesByZero("uniq", r[1], r[2])
        /\ uniq' = Append(uniq, [range |-> r, n |-> UniqNumber(seed, r[1], r[2])])
        /\ seed' = NextSeed(seed)
        /\ UNCHANGED <<phase, status, drawn>>
  /\ UNCHANGED <<argv, i, command, options, globals, test, driver>>

(* run_test has ended. *)
RunEnds ==
  /\ phase = "running"
  /\ \E rc \in {0, 1} : Exit(rc)
  /\ UNCHANGED <<argv, i, command, options, globals, test, runVars>>

MainExited == phase = "exited" /\ UNCHANGED mainVars

MainNext ==
  \/ ParseCommand \/ ParseOption \/ Parsed \/ Dispatch \/ init
  \/ LoadTest \/ RunCommand \/ db_init \/ RunEnds \/ MainExited
  \/ \E type \in {"uniform", "gaussian", "special", "pareto"} : Draw(type)
  \/ \E r \in Ranges : sb_rand_uniq(r)

MainSpec == MainInit /\ [][MainNext]_mainVars
-----------------------------------------------------------------------------
(* The settings an argument makes, in the order in which they are met: one *)
(* for an option, one for every line of a file.                            *)
SettingsOf(a) ==
  CASE a.kind = "command" -> <<>>
    [] a.kind # "command" /\ a.name = "config-file" ->
         IF a.values # <<>> /\ a.values[1].text \in DOMAIN config_files
         THEN LET lines == LinesOf(a.values[1].text) IN
              [k \in DOMAIN lines |->
                 [from |-> "file", name |-> lines[k].name, values |-> lines[k].values]]
         ELSE <<>>
    [] OTHER -> <<[from |-> "line", name |-> a.name, values |-> a.values]>>

(* Setting k of argument j, for the arguments parsed. *)
Setting(j, k) == SettingsOf(argv[j])[k]

Positions(name) ==
  {p \in UNION {{j} \X DOMAIN SettingsOf(argv[j]) : j \in 1 .. (i - 1)} :
     Setting(p[1], p[2]).name = name}

Before(p, q) == p[1] < q[1] \/ (p[1] = q[1] /\ p[2] < q[2])

(* What the program reads of the values of an option. *)
Read(type, values) ==
  CASE type = "FLAG" -> values # <<>>
    [] type = "LIST" -> values
    [] type \notin {"FLAG", "LIST"} -> IF values = <<>> THEN NotSet ELSE values[1]

(* A line "name=" of a file is "--name=". *)
AsArgument(setting) ==
  IF setting.from = "file" /\ setting.values = <<>> THEN <<NotSet>> ELSE setting.values

(* A flag that a file does not set to "on": it is on all the same. *)
FlagOffInFile(type, setting) ==
  /\ setting.from = "file" /\ type = "FLAG"
  /\ setting.values # <<>> /\ setting.values[1].text # "on"

(* What an option is after the last setting of it. *)
ReadsAs(name, setting) ==
  LET type == IF setting.from = "file" /\ options[name].type = "NULL" THEN "STRING"
              ELSE options[name].type
  IN \/ FlagOffInFile(type, setting)
     \/ Read(type, options[name].values) = Read(type, ValuesOf(type, AsArgument(setting)))

AsGiven(name) ==
  /\ name \in DOMAIN args => options[name].type = args[name].type
  /\ \/ Positions(name) = {} /\ options[name] = Registered[name]
     \/ \E p \in Positions(name) :
          /\ \A q \in Positions(name) : q # p => Before(q, p)
          /\ ReadsAs(name, Setting(p[1], p[2]))

(* set_option, read_config: whatever the order of arguments and files, the *)
(* program reads of an option what the last setting of it says, and a line *)
(* of a file says what the argument would; but for the flags that a file   *)
(* turns off, which are on.                                                *)
OptionsAsGiven ==
  phase \in {"parse", "dispatch"} =>
    \A name \in DOMAIN options \ {"config-file"} : AsGiven(name)

(* init, db_init: a test that runs has its checkpoints in the order of     *)
(* time, none lost or added - if they are less than half a word apart -,   *)
(* waits for a forced shutdown only if there is a limit of time, and works *)
(* with the driver that was asked for, if there is one of that name.       *)
RunAsConfigured ==
  phase = "running" =>
    LET given == Checkpoints
        asked == sb_get_value_string("db-driver").text
        times == globals.checkpoints
    IN /\ (\A x, y \in Range(given) : x - y <= INT_MAX) =>
            \A j, k \in DOMAIN times : j < k => times[j] <= times[k]
       /\ \A x \in Range(given) \cup Range(times) :
            Cardinality({k \in DOMAIN given : given[k] = x}) =
              Cardinality({k \in DOMAIN times : times[k] = x})
       /\ globals.force_shutdown => sb_get_value_int("max-time") > 0
       /\ driver \in Range(drivers) /\ asked \in Range(drivers) => driver = asked

(* "Return random number in specified range" (sysbench.c), whatever wraps  *)
(* in between.  Left out: the range of one number of the special           *)
(* distribution, and for pareto the ranges that end below zero or have     *)
(* more numbers than an int.  Only a range that, enlarged, has as many     *)
(* numbers as a word kills the process.                                    *)
InRange(d) ==
  LET size == d.b - d.a + 1 IN
  \/ d.type = "special" /\ d.a = d.b
  \/ d.type = "pareto" /\ (d.b < 0 \/ size > INT_MAX)
  \/ d.n \in d.a .. d.b

(* The unique numbers of a range that an int can count are in it, and they *)
(* repeat only after as many draws, of any ranges, as it has numbers,      *)
(* unless that is a multiple of the prime they are made with.              *)
NumbersSound ==
  /\ IF status = SIGFPE
     THEN (drawn.b - drawn.a + 1) * (100 \div (100 - rand_res)) >= WORD
     ELSE drawn.type # "none" => InRange(drawn)
  /\ \A k \in DOMAIN uniq :
       LET r == uniq[k].range
           size == r[2] - r[1] + 1
       IN size <= INT_MAX =>
            /\ uniq[k].n \in r[1] .. r[2]
            /\ \A j \in DOMAIN uniq :
                 /\ uniq[j].range = r /\ size % LARGE_PRIME # 0
                 /\ j < k /\ k - j < size
                 => uniq[j].n # uniq[k].n
=============================================================================
