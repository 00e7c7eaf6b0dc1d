-------------------------------- MODULE LuaVM --------------------------------
(***************************************************************************)
(* The Lua virtual machine: luaV_execute and its helpers (lvm.c), function  *)
(* calls (ldo.c), upvalues (lfunc.c), running what LuaParser compiled.      *)
(*                                                                         *)
(* One action of this module is one instruction.  The stack is the          *)
(* machine's own, frames and upvalues address it as the code does, and what *)
(* an earlier call left above top is still there.  Tables have no           *)
(* metatables, so an operation a value does not support is an error.  The   *)
(* host's functions are external: they append to trace and return values.   *)
(***************************************************************************)
EXTENDS LuaParser, TLC

CONSTANTS Programs,   \* the programs (sequences of statements) to compile
          Parse(_),   \* the parser a program is given to: luaY_parser
          Inputs,     \* the argument lists a chunk is called with
          StackSize   \* bound: slots of the modelled stack

ASSUME StackAssumption == StackSize \in Nat /\ StackSize > MAXSTACK

VARIABLES
  phase,    \* "source", "compiled", "run", "halt", "error" or "rejected"
  prog,     \* the program
  main,     \* what luaY_parser made of it
  input,    \* the arguments of the chunk
  stack,    \* L->stack
  ci,       \* L->base_ci .. L->ci: the host's frame and the Lua frames
  top,      \* L->top
  heap,     \* the tables, in order of creation
  clos,     \* the Lua closures, in order of creation
  upv,      \* the upvalues, in order of creation
  globals,  \* the table of globals
  trace     \* calls the host has seen

vars == <<phase, prog, main, input, stack, ci, top, heap, clos, upv, globals, trace>>
world == <<heap, clos, upv, globals, trace>>
source == <<prog, main, input>>

-----------------------------------------------------------------------------
(* Values.                                                                 *)
ttisnumber(v) == v[1] \in {"num", "nan"}
l_isfalse(v) == v = NilVal \/ v = Bool(FALSE)

(* luaO_str2d, over the numerals the programs use.                         *)
Numerals == -20 .. 60
luaV_tonumber(v) ==
  CASE ttisnumber(v) -> v
    [] v[1] = "str" /\ (\E n \in Numerals : ToString(n) = v[2]) ->
         Num(CHOOSE n \in Numerals : ToString(n) = v[2])
    [] OTHER -> NilVal

IsStringable(v) == v[1] \in {"str", "num"}
luaV_tostring(v) == IF v[1] = "num" THEN ToString(v[2]) ELSE v[2]

(* strcoll in the "C" locale, over the strings the programs compare.       *)
Collation == <<"1", "10", "2", "a", "b">>
l_strcmp(l, r) ==
  LET at(s) == SelectInSeq(Collation, LAMBDA x : x = s) IN at(l) - at(r)

(* luaV_lessthan and lessequal: <<is it an error, the answer>>.            *)
luaV_lessthan(l, r) ==
  CASE ttisnumber(l) /\ ttisnumber(r) -> <<FALSE, l # NaN /\ r # NaN /\ l[2] < r[2]>>
    [] l[1] = "str" /\ r[1] = "str" -> <<FALSE, l_strcmp(l[2], r[2]) < 0>>
    [] OTHER -> <<TRUE, FALSE>>

lessequal(l, r) ==
  CASE ttisnumber(l) /\ ttisnumber(r) -> <<FALSE, l # NaN /\ r # NaN /\ l[2] <= r[2]>>
    [] l[1] = "str" /\ r[1] = "str" -> <<FALSE, l_strcmp(l[2], r[2]) <= 0>>
    [] OTHER -> <<TRUE, FALSE>>

luaV_equalval(l, r) == <<FALSE, l = r /\ l # NaN>>

Compare(op, l, r) == CASE op = "EQ" -> luaV_equalval(l, r)
                       [] op = "LT" -> luaV_lessthan(l, r)
                       [] op = "LE" -> lessequal(l, r)

Arith(op, b, c) ==
  LET nb == luaV_tonumber(b)  nc == luaV_tonumber(c)
  IN  IF nb = NilVal \/ nc = NilVal THEN NilVal ELSE NumOp(op, nb, nc)

(* Tables: functions from keys to values other than nil.                   *)
luaH_get(t, key) == IF key \in DOMAIN t THEN t[key] ELSE NilVal
luaH_set(t, key, v) ==
  IF v = NilVal THEN [x \in DOMAIN t \ {key} |-> t[x]]
  ELSE [x \in DOMAIN t \union {key} |-> IF x = key THEN v ELSE t[x]]
luaH_getn(t) ==
  CHOOSE n \in 0 .. Cardinality(DOMAIN t) :
    /\ \A i \in 1 .. n : Num(i) \in DOMAIN t
    /\ Num(n + 1) \notin DOMAIN t
EmptyTable == [x \in {} |-> NilVal]

(* The host's functions: what each returns for its arguments.              *)
HostFunctions == {"echo", "two", "none", "iter"}
HostResults(name, args) ==
  LET arg(n) == IF n <= Len(args) THEN args[n] ELSE NilVal IN
  CASE name = "echo" -> args
    [] name = "two" -> <<Num(7), Num(8)>>
    [] name = "none" -> <<>>
    [] name = "iter" ->  \* a generator: 1 .. state
         LET c == IF arg(2) = NilVal THEN 1 ELSE arg(2)[2] + 1
         IN  <<IF c <= arg(1)[2] THEN Num(c) ELSE NilVal>>

HostGlobals ==
  [key \in {Str(n) : n \in HostFunctions} |-> <<"cfun", key[2]>>]

-----------------------------------------------------------------------------
(* The current frame and instruction.                                      *)
CI == ci[Len(ci)]
base == CI.base
cl == clos[CI.cl]
ProtoAt(path) == FoldLeft(LAMBDA p, n : p.p[n], main, path)
p == ProtoAt(cl.path)
i == p.code[CI.pc + 1]
ra == base + i.a
RK(x) == IF ISK(x) THEN p.k[INDEXK(x) + 1] ELSE stack[base + x]
At(op) == phase = "run" /\ i.op = op /\ ~CI.tfor

Slots == 0 .. StackSize - 1
SetReg(at, v) == stack' = [stack EXCEPT ![at] = v]
Jump(n) == ci' = [ci EXCEPT ![Len(ci)].pc = @ + 1 + n]
Continue == Jump(0)
RunError == phase' = "error" /\ UNCHANGED <<source, stack, ci, top, world>>

(* A run of stack slots from `at` gets the values vs.                      *)
Place(s, at, vs) == [x \in DOMAIN s |-> IF x \in at .. at + Len(vs) - 1 THEN vs[x - at + 1] ELSE s[x]]
Slice(s, from, to) == [n \in 1 .. (to - from) |-> s[from + n - 1]]

-----------------------------------------------------------------------------
(* Loads, moves, upvalues, globals and tables.                             *)
Load(v) == SetReg(ra, v) /\ Continue /\ UNCHANGED <<phase, source, top, world>>

OpMove == At("MOVE") /\ Load(stack[base + i.b])
OpLoadK == At("LOADK") /\ Load(p.k[i.b + 1])

OpLoadBool ==
  /\ At("LOADBOOL")
  /\ SetReg(ra, Bool(i.b = 1))
  /\ Jump(IF i.c # 0 THEN 1 ELSE 0)
  /\ UNCHANGED <<phase, source, top, world>>

OpLoadNil ==
  /\ At("LOADNIL")
  /\ stack' = [x \in Slots |-> IF x \in ra .. base + i.b \union {base + i.b} THEN NilVal ELSE stack[x]]
  /\ Continue
  /\ UNCHANGED <<phase, source, top, world>>

UpValue(u) == IF upv[u].open THEN stack[upv[u].at] ELSE upv[u].v

OpGetUpval == At("GETUPVAL") /\ Load(UpValue(cl.upvals[i.b + 1]))

OpSetUpval ==
  LET u == cl.upvals[i.b + 1] IN
  /\ At("SETUPVAL")
  /\ IF upv[u].open THEN SetReg(upv[u].at, stack[ra]) /\ UNCHANGED upv
     ELSE upv' = [upv EXCEPT ![u].v = stack[ra]] /\ UNCHANGED stack
  /\ Continue
  /\ UNCHANGED <<phase, source, top, heap, clos, globals, trace>>

OpGetGlobal == At("GETGLOBAL") /\ Load(luaH_get(globals, p.k[i.b + 1]))

OpSetGlobal ==
  /\ At("SETGLOBAL")
  /\ globals' = luaH_set(globals, p.k[i.b + 1], stack[ra])
  /\ Continue
  /\ UNCHANGED <<phase, source, stack, top, heap, clos, upv, trace>>

(* luaV_gettable: only a table can be indexed.                             *)
OpGetTable ==
  LET t == stack[base + i.b] IN
  /\ At("GETTABLE")
  /\ IF t[1] = "table" THEN Load(luaH_get(heap[t[2]], RK(i.c))) ELSE RunError

OpSelf ==
  LET t == stack[base + i.b] IN
  /\ At("SELF")
  /\ IF t[1] = "table"
     THEN /\ stack' = [stack EXCEPT ![ra + 1] = t, ![ra] = luaH_get(heap[t[2]], RK(i.c))]
          /\ Continue
          /\ UNCHANGED <<phase, source, top, world>>
     ELSE RunError

OpSetTable ==
  LET t == stack[ra] IN
  /\ At("SETTABLE")
  /\ IF t[1] = "table" /\ RK(i.b) \notin {NilVal, NaN}
     THEN /\ heap' = [heap EXCEPT ![t[2]] = luaH_set(@, RK(i.b), RK(i.c))]
          /\ Continue
          /\ UNCHANGED <<phase, source, stack, top, clos, upv, globals, trace>>
     ELSE RunError

OpNewTable ==
  /\ At("NEWTABLE")
  /\ heap' = Append(heap, EmptyTable)
  /\ SetReg(ra, <<"table", Len(heap) + 1>>)
  /\ Continue
  /\ UNCHANGED <<phase, source, top, clos, upv, globals, trace>>

(* Items of one flush go to (C-1)*LFIELDS_PER_FLUSH + 1 and on.             *)
OpSetList ==
  LET n == IF i.b = 0 THEN top - ra - 1 ELSE i.b
      c == IF i.c = 0 THEN p.code[CI.pc + 2].b ELSE i.c
      first == (c - 1) * LFIELDS_PER_FLUSH
      t == stack[ra][2]
  IN
  /\ At("SETLIST")
  /\ heap' = [heap EXCEPT ![t] =
                FoldLeftDomain(LAMBDA h, x : luaH_set(h, Num(first + x), stack[ra + x]),
                               @, [x \in 1 .. n |-> x])]
  /\ top' = IF i.b = 0 THEN CI.top ELSE top
  /\ Jump(IF i.c = 0 THEN 1 ELSE 0)
  /\ UNCHANGED <<phase, source, stack, clos, upv, globals, trace>>

-----------------------------------------------------------------------------
(* Operators.                                                              *)
LoadOrFail(v, ok) == IF ok THEN Load(v) ELSE RunError

OpArith ==
  /\ \E op \in Arithmetic : At(op)
  /\ LoadOrFail(Arith(i.op, RK(i.b), RK(i.c)), Arith(i.op, RK(i.b), RK(i.c)) # NilVal)

(* OP_UNM reads a register only; a constant operand is out of the frame.    *)
OpUnm ==
  LET v == Arith("UNM", stack[base + i.b], stack[base + i.b]) IN
  At("UNM") /\ (IF ISK(i.b) THEN RunError ELSE LoadOrFail(v, v # NilVal))

OpNot == At("NOT") /\ Load(Bool(l_isfalse(stack[base + i.b])))

OpLen ==
  LET v == stack[base + i.b] IN
  At("LEN") /\ LoadOrFail(IF v[1] = "table" THEN Num(luaH_getn(heap[v[2]])) ELSE Num(Len(v[2])),
                          v[1] \in {"table", "str"})

(* luaV_concat: all the operands at once, right to left.                   *)
OpConcat ==
  LET vs == Slice(stack, base + i.b, base + i.c + 1) IN
  At("CONCAT") /\ LoadOrFail(Str(FoldLeft(LAMBDA s, v : s \o luaV_tostring(v), "", vs)),
                             \A n \in DOMAIN vs : IsStringable(vs[n]))

-----------------------------------------------------------------------------
(* Jumps and loops.  A test is followed by the jump it may take.            *)
SkipUnless(taken) == Jump(IF taken THEN p.code[CI.pc + 2].b + 1 ELSE 1)

OpJmp == At("JMP") /\ Jump(i.b) /\ UNCHANGED <<phase, source, stack, top, world>>

OpCompare ==
  LET r == Compare(i.op, RK(i.b), RK(i.c)) IN
  /\ \E op \in {"EQ", "LT", "LE"} : At(op)
  /\ IF r[1] THEN RunError
     ELSE SkipUnless(r[2] = (i.a = 1)) /\ UNCHANGED <<phase, source, stack, top, world>>

OpTest ==
  /\ At("TEST")
  /\ SkipUnless(l_isfalse(stack[ra]) # (i.c = 1))
  /\ UNCHANGED <<phase, source, stack, top, world>>

OpTestSet ==
  LET v == stack[base + i.b]
      taken == l_isfalse(v) # (i.c = 1)
  IN
  /\ At("TESTSET")
  /\ IF taken THEN SetReg(ra, v) ELSE UNCHANGED stack
  /\ SkipUnless(taken)
  /\ UNCHANGED <<phase, source, top, world>>

OpForPrep ==
  LET n(x) == luaV_tonumber(stack[ra + x]) IN
  /\ At("FORPREP")
  /\ IF \E x \in 0 .. 2 : n(x) = NilVal THEN RunError
     ELSE /\ stack' = [stack EXCEPT ![ra] = NumOp("SUB", n(0), n(2)),
                                    ![ra + 1] = n(1), ![ra + 2] = n(2)]
          /\ Jump(i.b)
          /\ UNCHANGED <<phase, source, top, world>>

OpForLoop ==
  LET step == stack[ra + 2]
      idx == NumOp("ADD", stack[ra], step)
      limit == stack[ra + 1]
      again == IF luaV_lessthan(Num(0), step)[2] THEN lessequal(idx, limit)[2]
               ELSE lessequal(limit, idx)[2]
  IN
  /\ At("FORLOOP")
  /\ IF again THEN stack' = [stack EXCEPT ![ra] = idx, ![ra + 3] = idx] /\ Jump(i.b)
     ELSE Continue /\ UNCHANGED stack
  /\ UNCHANGED <<phase, source, top, world>>

-----------------------------------------------------------------------------
(* Upvalues.                                                               *)
luaF_findupval(us, level) ==
  LET u == SelectInSeq(us, LAMBDA x : x.open /\ x.at = level) IN
  IF u # 0 THEN [us |-> us, r |-> u]
  ELSE [us |-> Append(us, [open |-> TRUE, at |-> level, v |-> NilVal]), r |-> Len(us) + 1]

luaF_close(us, level) ==
  [u \in DOMAIN us |->
     IF us[u].open /\ us[u].at >= level
     THEN [open |-> FALSE, at |-> 0, v |-> stack[us[u].at]] ELSE us[u]]

OpClose ==
  /\ At("CLOSE")
  /\ upv' = luaF_close(upv, ra)
  /\ Continue
  /\ UNCHANGED <<phase, source, stack, top, heap, clos, globals, trace>>

(* The closure shares an enclosing function's upvalue or captures a         *)
(* register of this frame, as its pseudo-instructions say.                  *)
OpClosure ==
  LET path == Append(cl.path, i.b + 1)
      nup == Len(ProtoAt(path).upvalues)
      bound == FoldLeftDomain(
                 LAMBDA acc, j :
                   LET ps == p.code[CI.pc + 1 + j]
                       f == luaF_findupval(acc.us, base + ps.b)
                   IN  IF ps.op = "GETUPVAL"
                       THEN [acc EXCEPT !.l = Append(@, cl.upvals[ps.b + 1])]
                       ELSE [us |-> f.us, l |-> Append(acc.l, f.r)],
                 [us |-> upv, l |-> <<>>], [j \in 1 .. nup |-> j])
  IN
  /\ At("CLOSURE")
  /\ clos' = Append(clos, [path |-> path, upvals |-> bound.l])
  /\ upv' = bound.us
  /\ SetReg(ra, <<"func", Len(clos) + 1>>)
  /\ Jump(nup)
  /\ UNCHANGED <<phase, source, top, heap, globals, trace>>

-----------------------------------------------------------------------------
(* Calls.  c is the machine's state around a call: its frames (with the     *)
(* caller's pc already past the call), stack, top, heap and trace.          *)
Machine(pcs) == [ci |-> pcs, stack |-> stack, top |-> top, heap |-> heap, trace |-> trace]
Advanced == [ci EXCEPT ![Len(ci)].pc = @ + 1]
Become(c) == /\ ci' = c.ci /\ stack' = c.stack /\ top' = c.top
             /\ heap' = c.heap /\ trace' = c.trace

(* The results from `first` on move to the function's place.               *)
luaD_poscall(c, first) ==
  LET f == Last(c.ci)
      have == Slice(c.stack, first, c.top)
      vs == IF f.nresults = LUA_MULTRET THEN have
            ELSE [n \in 1 .. f.nresults |-> IF n <= Len(have) THEN have[n] ELSE NilVal]
  IN  [c EXCEPT !.ci = Front(@), !.stack = Place(@, f.func, vs), !.top = f.func + Len(vs)]

(* Fixed parameters move above the actual arguments; an old-style vararg    *)
(* function gets its extra ones in a table.                                 *)
adjust_varargs(c, pt, func) ==
  LET given == Slice(c.stack, func + 1, c.top)
      actual == IF Len(given) < pt.numparams
                THEN given \o [n \in 1 .. pt.numparams - Len(given) |-> NilVal] ELSE given
      nvar == Len(actual) - pt.numparams
      need == "NEEDSARG" \in pt.is_vararg
      htab == FoldLeftDomain(LAMBDA t, n : luaH_set(t, Num(n), actual[pt.numparams + n]),
                             luaH_set(EmptyTable, Str("n"), Num(nvar)), [n \in 1 .. nvar |-> n])
      start == func + 1 + Len(actual)
      fixed == SubSeq(actual, 1, pt.numparams)
      s1 == Place(c.stack, func + 1, [n \in 1 .. pt.numparams |-> NilVal]
                                      \o SubSeq(actual, pt.numparams + 1, Len(actual)))
      s2 == Place(s1, start, fixed \o (IF need THEN <<<<"table", Len(c.heap) + 1>>>> ELSE <<>>))
  IN  [c EXCEPT !.stack = s2, !.top = start + Len(fixed) + (IF need THEN 1 ELSE 0),
                !.heap = IF need THEN Append(@, htab) ELSE @,
                !.base = start]

Frame(func, b, t, nresults, closure) ==
  [func |-> func, base |-> b, top |-> t, pc |-> 0, nresults |-> nresults,
   cl |-> closure, tailcalls |-> 0, tfor |-> FALSE]

IsFunction(v) == v[1] \in {"func", "cfun"}

(* luaD_precall: a Lua function gets a frame whose registers above the      *)
(* arguments are nil; a host function runs and its results are in place.    *)
luaD_precall(c, func, nresults) ==
  LET v == c.stack[func]
      pt == ProtoAt(clos[v[2]].path)
      c0 == [ci |-> c.ci, stack |-> c.stack, top |-> c.top, heap |-> c.heap,
             trace |-> c.trace, base |-> func + 1]
      limit == func + 1 + pt.numparams
      in == IF pt.is_vararg = {} THEN [c0 EXCEPT !.top = IF @ > limit THEN limit ELSE @]
            ELSE adjust_varargs(c0, pt, func)
      ctop == in.base + pt.maxstacksize
      entered == [ci |-> Append(c.ci, Frame(func, in.base, ctop, nresults, v[2])),
                  stack |-> [x \in Slots |-> IF x \in in.top .. ctop - 1 THEN NilVal ELSE in.stack[x]],
                  top |-> ctop, heap |-> in.heap, trace |-> in.trace]
      args == Slice(c.stack, func + 1, c.top)
      results == HostResults(v[2], args)
      called == [c EXCEPT !.ci = Append(@, Frame(func, func + 1, c.top, nresults, 0)),
                          !.stack = Place(@, c.top, results), !.top = @ + Len(results),
                          !.trace = Append(@, <<v[2], args>>)]
  IN  IF v[1] = "func" THEN entered ELSE luaD_poscall(called, c.top)

TopRestored(c, nresults) ==
  IF nresults # LUA_MULTRET THEN [c EXCEPT !.top = Last(c.ci).top] ELSE c

OpCall ==
  LET top1 == IF i.b # 0 THEN ra + i.b ELSE top
      nresults == i.c - 1
      c == luaD_precall([Machine(Advanced) EXCEPT !.top = top1], ra, nresults)
  IN
  /\ At("CALL")
  /\ IF ~IsFunction(stack[ra]) THEN RunError
     ELSE /\ Become(IF stack[ra][1] = "cfun" THEN TopRestored(c, nresults) ELSE c)
          /\ UNCHANGED <<phase, source, clos, upv, globals>>

(* The new frame slides down over the caller's, whose captured variables    *)
(* are closed first.                                                        *)
OpTailCall ==
  LET top1 == IF i.b # 0 THEN ra + i.b ELSE top
      c == luaD_precall([Machine(Advanced) EXCEPT !.top = top1], ra, LUA_MULTRET)
      new == Last(c.ci)
      down == new.func - CI.func
      moved == Slice(c.stack, new.func, c.top)
      f == [new EXCEPT !.func = CI.func, !.base = @ - down, !.top = @ - down,
                       !.nresults = CI.nresults, !.tailcalls = CI.tailcalls + 1]
  IN
  /\ At("TAILCALL")
  /\ IF ~IsFunction(stack[ra]) THEN RunError
     ELSE IF stack[ra][1] = "func"
     THEN /\ Become([c EXCEPT !.ci = Append(Front(ci), f), !.stack = Place(@, CI.func, moved),
                              !.top = f.top])
          /\ upv' = luaF_close(upv, base)
          /\ UNCHANGED <<phase, source, clos, globals>>
     ELSE Become(c) /\ UNCHANGED <<phase, source, clos, upv, globals>>

(* The host's frame is ci[1]: returning to it ends the run.                *)
OpReturn ==
  LET top1 == IF i.b # 0 THEN ra + i.b - 1 ELSE top
      c == luaD_poscall([Machine(ci) EXCEPT !.top = top1], ra)
  IN
  /\ At("RETURN")
  /\ Become(IF Len(c.ci) = 1 THEN c ELSE TopRestored(c, CI.nresults))
  /\ upv' = luaF_close(upv, base)
  /\ phase' = IF Len(c.ci) = 1 THEN "halt" ELSE phase
  /\ UNCHANGED <<source, clos, globals>>

(* The generator is called with the state and the control variable in       *)
(* fresh registers; tfor marks a frame that waits for its results.          *)
OpTForLoop ==
  LET cb == ra + 3
      s == [stack EXCEPT ![cb] = stack[ra], ![cb + 1] = stack[ra + 1], ![cb + 2] = stack[ra + 2]]
      waiting == [ci EXCEPT ![Len(ci)].tfor = TRUE]
      c == luaD_precall([Machine(waiting) EXCEPT !.stack = s, !.top = cb + 3], cb, i.c)
  IN
  /\ At("TFORLOOP")
  /\ IF ~IsFunction(stack[ra]) THEN RunError
     ELSE Become(c) /\ UNCHANGED <<phase, source, clos, upv, globals>>

OpTForLoopTest ==
  LET cb == ra + 3
      again == stack[cb] # NilVal
  IN
  /\ phase = "run" /\ CI.tfor
  /\ IF again THEN SetReg(cb - 1, stack[cb]) ELSE UNCHANGED stack
  /\ ci' = [ci EXCEPT ![Len(ci)].tfor = FALSE,
                      ![Len(ci)].pc = @ + 1 + IF again THEN p.code[CI.pc + 2].b + 1 ELSE 1]
  /\ top' = CI.top
  /\ UNCHANGED <<phase, source, world>>

OpVarArg ==
  LET extra == Slice(stack, CI.func + 1 + p.numparams, base)
      b == i.b - 1
      vs == IF b = LUA_MULTRET THEN extra
            ELSE [n \in 1 .. b |-> IF n <= Len(extra) THEN extra[n] ELSE NilVal]
  IN
  /\ At("VARARG")
  /\ stack' = Place(stack, ra, vs)
  /\ top' = IF b = LUA_MULTRET THEN ra + Len(vs) ELSE top
  /\ Continue
  /\ UNCHANGED <<phase, source, world>>

-----------------------------------------------------------------------------
(* f_parser: the chunk is compiled, or rejected with a syntax error.        *)
Compile ==
  /\ phase = "source"
  /\ \E f \in {Parse(prog)} : main' = f /\ phase' = IF f.err = {} THEN "compiled" ELSE "rejected"
  /\ UNCHANGED <<prog, input, stack, ci, top, world>>

(* luaD_call of the main closure with the host's arguments.                *)
Call ==
  /\ phase = "compiled"
  /\ \E args \in Inputs :
       LET s == Place([x \in Slots |-> NilVal], 1, <<<<"func", 1>>>> \o args)
           c == luaD_precall([ci |-> <<Frame(0, 1, 1, 0, 0)>>, stack |-> s, top |-> 2 + Len(args),
                              heap |-> heap, trace |-> trace], 1, LUA_MULTRET)
       IN  input' = args /\ Become(c)
  /\ phase' = "run"
  /\ UNCHANGED <<prog, main, clos, upv, globals>>

Init ==
  /\ phase = "source"
  /\ prog \in Programs
  /\ main = open_func(<<>>)
  /\ input = <<>>
  /\ stack = [x \in Slots |-> NilVal]
  /\ ci = <<>>
  /\ top = 0
  /\ heap = <<>>
  /\ clos = <<[path |-> <<>>, upvals |-> <<>>]>>
  /\ upv = <<>>
  /\ globals = HostGlobals
  /\ trace = <<>>

Step ==
  \/ OpMove \/ OpLoadK \/ OpLoadBool \/ OpLoadNil \/ OpGetUpval \/ OpSetUpval
  \/ OpGetGlobal \/ OpSetGlobal \/ OpGetTable \/ OpSelf \/ OpSetTable \/ OpNewTable
  \/ OpSetList \/ OpArith \/ OpUnm \/ OpNot \/ OpLen \/ OpConcat \/ OpJmp \/ OpCompare
  \/ OpTest \/ OpTestSet \/ OpForPrep \/ OpForLoop \/ OpClose \/ OpClosure \/ OpCall
  \/ OpTailCall \/ OpReturn \/ OpTForLoop \/ OpTForLoopTest \/ OpVarArg

Ended == phase \in {"halt", "error", "rejected"}
Done == Ended /\ UNCHANGED vars

Next == Compile \/ Call \/ Step \/ Done

Spec == Init /\ [][Next]_vars

Results == Slice(stack, 1, top)
=============================================================================
