----------------------------- MODULE LuaSemantics -----------------------------
(***************************************************************************)
(* What a Lua program means, read off its syntax tree: a reference          *)
(* evaluator that knows nothing of registers, jumps or instructions, and    *)
(* the properties that compare the compiled program with it.                *)
(*                                                                         *)
(* The store st holds the variables (cells), the tables, the functions and  *)
(* what the host has seen; ok turns FALSE at the first error.  A scope is   *)
(* the sequence of visible variables with their cells, and the extra        *)
(* arguments.                                                              *)
(***************************************************************************)
EXTENDS LuaVM

CONSTANT Meant(_, _)   \* what a program means with an argument list: Meaning

First(vs) == IF vs = <<>> THEN NilVal ELSE vs[1]
V(st, vs) == [st |-> st, vs |-> vs]
Fail(st) == V([st EXCEPT !.ok = FALSE], <<NilVal>>)
Upto(vs, n) == [j \in 1 .. n |-> IF j <= Len(vs) THEN vs[j] ELSE NilVal]

(* New variables, each in a cell of its own.                               *)
Declare(st, sc, names, vs) ==
  [st |-> [st EXCEPT !.cells = @ \o Upto(vs, Len(names))],
   sc |-> [sc EXCEPT !.names = @ \o [j \in 1 .. Len(names) |->
                                       [n |-> names[j], c |-> Len(st.cells) + j]]]]

Lookup(sc, n) == SelectLastInSeq(sc.names, LAMBDA v : v.n = n)

RECURSIVE Eval(_, _, _), EvalList(_, _, _), Exec(_, _, _), ExecBlock(_, _, _)

(* Calls: the host's functions, and the program's with fresh parameters.    *)
Apply(st, f, args) ==
  LET host == HostResults(f[2], args)
      fn == st.funs[f[2]]
      extra == SubSeq(args, Len(fn.pars) + 1, Len(args))
      argtab == FoldLeftDomain(LAMBDA t, n : luaH_set(t, Num(n), extra[n]),
                               luaH_set(EmptyTable, Str("n"), Num(Len(extra))), extra)
      st1 == IF fn.va = "arg" THEN [st EXCEPT !.heap = Append(@, argtab)] ELSE st
      names == fn.pars \o (IF fn.va = "none" THEN <<>> ELSE <<"arg">>)
      vals == Upto(args, Len(fn.pars))
              \o (IF fn.va = "arg" THEN <<<<"table", Len(st1.heap)>>>> ELSE <<>>)
      d == Declare(st1, [names |-> fn.sc.names, dots |-> extra], names, vals)
      r == ExecBlock(d.st, d.sc, fn.body)
  IN  CASE ~st.ok -> V(st, <<NilVal>>)
        [] st.ok /\ f[1] = "cfun" -> V([st EXCEPT !.trace = Append(@, <<f[2], args>>)], host)
        [] st.ok /\ f[1] = "func" -> V(r.st, IF r.sig = "return" THEN r.vs ELSE <<>>)
        [] OTHER -> Fail(st)

Arithmetical(st, v) == IF v = NilVal THEN Fail(st) ELSE V(st, <<v>>)

Binary(st, op, l, r) ==
  LET less == Compare(IF op \in {"LT", "GT"} THEN "LT" ELSE "LE",
                      IF op \in {"LT", "LE"} THEN l ELSE r, IF op \in {"LT", "LE"} THEN r ELSE l)
  IN  CASE op \in Arithmetic -> Arithmetical(st, Arith(op, l, r))
        [] op = "CONCAT" -> IF IsStringable(l) /\ IsStringable(r)
                            THEN V(st, <<Str(luaV_tostring(l) \o luaV_tostring(r))>>)
                            ELSE Fail(st)
        [] op = "EQ" -> V(st, <<Bool(l = r /\ l # NaN)>>)
        [] op = "NE" -> V(st, <<Bool(~(l = r /\ l # NaN))>>)
        [] OTHER -> IF less[1] THEN Fail(st) ELSE V(st, <<Bool(less[2])>>)

Unary(st, op, v) ==
  CASE op = "NOT" -> V(st, <<Bool(l_isfalse(v))>>)
    [] op = "UNM" -> Arithmetical(st, Arith("UNM", v, v))
    [] op = "LEN" -> CASE v[1] = "table" -> V(st, <<Num(luaH_getn(st.heap[v[2]]))>>)
                       [] v[1] = "str" -> V(st, <<Num(Len(v[2]))>>)
                       [] OTHER -> Fail(st)

Indexed(st, t, key) ==
  IF t[1] = "table" THEN V(st, <<luaH_get(st.heap[t[2]], key)>>) ELSE Fail(st)

Closure(st, sc, f, pars) ==
  V([st EXCEPT !.funs = Append(@, [pars |-> pars, va |-> f.va, body |-> f.body, sc |-> sc])],
    <<<<"func", Len(st.funs) + 1>>>>)

(* Items of a constructor in order; the last list item may be several.      *)
Table(st, sc, items) ==
  LET id == Len(st.heap) + 1
      Put(s, k, v) == IF k \in {NilVal, NaN} THEN [s EXCEPT !.ok = FALSE]
                      ELSE [s EXCEPT !.heap[id] = luaH_set(@, k, v)]
      PutAll(s, n, vs) == FoldLeftDomain(LAMBDA a, j : Put(a, Num(n + j), vs[j]), s, vs)
      acc == FoldLeftDomain(
               LAMBDA a, j :
                 LET it == items[j]
                     k == Eval(a.st, sc, it.key)
                     kv == Eval(k.st, sc, it.val)
                     v == Eval(a.st, sc, it.val)
                     vs == IF j = Len(items) THEN v.vs ELSE <<First(v.vs)>>
                 IN  IF ~a.st.ok THEN a
                     ELSE IF it.rec THEN [a EXCEPT !.st = Put(kv.st, First(k.vs), First(kv.vs))]
                     ELSE [st |-> PutAll(v.st, a.n, vs), n |-> a.n + Len(vs)],
               [st |-> [st EXCEPT !.heap = Append(@, EmptyTable)], n |-> 0], items)
  IN  V(acc.st, <<<<"table", id>>>>)

Eval(st, sc, a) ==
  LET o == Eval(st, sc, a.o)
      key == Eval(o.st, sc, a.key)
      m == Indexed(o.st, First(o.vs), Str(a.n))
      margs == EvalList(m.st, sc, a.args)
      cargs == EvalList(o.st, sc, a.args)
      l == Eval(st, sc, a.a)
      r == Eval(l.st, sc, a.b)
      v == Lookup(sc, a.n)
  IN  CASE ~st.ok -> V(st, <<NilVal>>)
        [] st.ok /\ a.x = "num" -> V(st, <<Num(a.v)>>)
        [] st.ok /\ a.x = "str" -> V(st, <<Str(a.n)>>)
        [] st.ok /\ a.x = "nil" -> V(st, <<NilVal>>)
        [] st.ok /\ a.x \in {"true", "false"} -> V(st, <<Bool(a.x = "true")>>)
        [] st.ok /\ a.x = "dots" -> V(st, sc.dots)
        [] st.ok /\ a.x = "var" ->
             V(st, <<IF v = 0 THEN luaH_get(st.globals, Str(a.n)) ELSE st.cells[sc.names[v].c]>>)
        [] st.ok /\ a.x = "paren" -> V(o.st, <<First(o.vs)>>)
        [] st.ok /\ a.x = "index" -> Indexed(key.st, First(o.vs), First(key.vs))
        [] st.ok /\ a.x = "method" -> Apply(margs.st, First(m.vs), <<First(o.vs)>> \o margs.vs)
        [] st.ok /\ a.x = "call" -> Apply(cargs.st, First(o.vs), cargs.vs)
        [] st.ok /\ a.x = "function" -> Closure(st, sc, a, a.pars)
        [] st.ok /\ a.x = "table" -> Table(st, sc, a.items)
        [] st.ok /\ a.x = "un" -> IF l.st.ok THEN Unary(l.st, a.op, First(l.vs)) ELSE l
        [] st.ok /\ a.x = "bin" /\ a.op \in {"AND", "OR"} ->
             IF l_isfalse(First(l.vs)) = (a.op = "AND") THEN V(l.st, <<First(l.vs)>>)
             ELSE V(r.st, <<First(r.vs)>>)
        [] OTHER -> IF r.st.ok THEN Binary(r.st, a.op, First(l.vs), First(r.vs)) ELSE r

(* All values of the last expression, one of each other.                   *)
EvalList(st, sc, es) ==
  FoldLeftDomain(LAMBDA acc, j :
                   LET v == Eval(acc.st, sc, es[j])
                   IN  IF ~acc.st.ok THEN acc ELSE V(v.st, acc.vs \o (IF j = Len(es) THEN v.vs ELSE <<First(v.vs)>>)),
                 V(st, <<>>), es)

(* A place to assign to; its table and key are evaluated first.            *)
Target(st, sc, a) ==
  LET o == Eval(st, sc, a.o)
      key == Eval(o.st, sc, a.key)
      v == Lookup(sc, a.n)
  IN  IF a.x = "var" THEN [st |-> st, kind |-> IF v = 0 THEN "global" ELSE "cell", cell |-> v,
                           t |-> NilVal, key |-> Str(a.n)]
      ELSE [st |-> key.st, kind |-> "index", cell |-> 0, t |-> First(o.vs), key |-> First(key.vs)]

Assign(st, sc, pl, v) ==
  CASE ~st.ok -> st
    [] st.ok /\ pl.kind = "cell" -> [st EXCEPT !.cells[sc.names[pl.cell].c] = v]
    [] st.ok /\ pl.kind = "global" -> [st EXCEPT !.globals = luaH_set(@, pl.key, v)]
    [] OTHER -> IF pl.t[1] = "table" /\ pl.key \notin {NilVal, NaN}
                THEN [st EXCEPT !.heap[pl.t[2]] = luaH_set(@, pl.key, v)]
                ELSE [st EXCEPT !.ok = FALSE]

S(st, sc, sig, vs) == [st |-> st, sc |-> sc, sig |-> sig, vs |-> vs]
Go(st, sc) == S(st, sc, "next", <<>>)
(* A finished loop or block: its scope is gone, a break ends here.         *)
Close(r, sc, loop) == S(r.st, sc, IF loop /\ r.sig = "break" THEN "next" ELSE r.sig, r.vs)

AssignAll(st, sc, s) ==
  LET pls == FoldLeft(LAMBDA acc, a : LET pl == Target(acc.st, sc, a)
                                      IN  [st |-> pl.st, l |-> Append(acc.l, pl)],
                      [st |-> st, l |-> <<>>], s.targets)
      v == EvalList(pls.st, sc, s.exps)
      n == Len(s.targets)
  IN  FoldLeftDomain(LAMBDA g, j : Assign(g, sc, pls.l[n + 1 - j], Upto(v.vs, n)[n + 1 - j]),
                     v.st, pls.l)

RECURSIVE WhileLoop(_, _, _), RepeatLoop(_, _, _), NumLoop(_, _, _, _, _, _), ListLoop(_, _, _, _)
WhileLoop(st, sc, s) ==
  LET c == Eval(st, sc, s.cond)
      b == ExecBlock(c.st, sc, s.body)
  IN  IF ~c.st.ok \/ l_isfalse(First(c.vs)) THEN Go(c.st, sc)
      ELSE IF b.sig = "next" /\ b.st.ok THEN WhileLoop(b.st, sc, s) ELSE Close(b, sc, TRUE)

(* The condition sees the variables of the body.                           *)
RepeatLoop(st, sc, s) ==
  LET b == ExecBlock(st, sc, s.body)
      c == Eval(b.st, b.sc, s.cond)
  IN  IF b.sig # "next" \/ ~b.st.ok THEN Close(b, sc, TRUE)
      ELSE IF c.st.ok /\ l_isfalse(First(c.vs)) THEN RepeatLoop(c.st, sc, s) ELSE Go(c.st, sc)

NumLoop(st, sc, s, n, limit, step) ==
  LET d == Declare(st, sc, s.names, <<Num(n)>>)
      b == ExecBlock(d.st, d.sc, s.body)
  IN  IF (step > 0 /\ n > limit) \/ (step <= 0 /\ n < limit) THEN Go(st, sc)
      ELSE IF b.sig = "next" /\ b.st.ok THEN NumLoop(b.st, sc, s, n + step, limit, step)
      ELSE Close(b, sc, TRUE)

ListLoop(st, sc, s, g) ==
  LET r == Apply(st, g[1], <<g[2], g[3]>>)
      d == Declare(r.st, sc, s.names, r.vs)
      b == ExecBlock(d.st, d.sc, s.body)
  IN  IF ~r.st.ok \/ First(r.vs) = NilVal THEN Go(r.st, sc)
      ELSE IF b.sig = "next" /\ b.st.ok THEN ListLoop(b.st, sc, s, <<g[1], g[2], r.vs[1]>>)
      ELSE Close(b, sc, TRUE)

RECURSIVE IfClauses(_, _, _, _)
IfClauses(st, sc, clauses, els) ==
  LET c == Eval(st, sc, clauses[1].cond) IN
  CASE clauses = <<>> -> IF els = <<>> THEN Go(st, sc) ELSE Close(ExecBlock(st, sc, els[1]), sc, FALSE)
    [] clauses # <<>> /\ ~c.st.ok -> Go(c.st, sc)
    [] OTHER -> IF l_isfalse(First(c.vs)) THEN IfClauses(c.st, sc, Tail(clauses), els)
                ELSE Close(ExecBlock(c.st, sc, clauses[1].body), sc, FALSE)

Exec(st, sc, s) ==
  LET v == EvalList(st, sc, s.exps)
      ns == [j \in 1 .. Len(v.vs) |-> luaV_tonumber(v.vs[j])]
      d == Declare(v.st, sc, s.names, v.vs)
      self == Declare(st, sc, s.names, <<>>)
      fn == Closure(self.st, self.sc, s.f, s.f.pars)
      pl == Target(st, sc, s.targets[1])
      m == Closure(pl.st, sc, s.f, (IF s.needself THEN <<"self">> ELSE <<>>) \o s.f.pars)
  IN  CASE ~st.ok -> Go(st, sc)
        [] st.ok /\ s.s = "local" -> Go(d.st, d.sc)
        [] st.ok /\ s.s = "expr" ->
             Go(IF s.targets[1].x \in {"call", "method"} THEN Eval(st, sc, s.targets[1]).st
                ELSE AssignAll(st, sc, s), sc)
        [] st.ok /\ s.s = "do" -> Close(ExecBlock(st, sc, s.body), sc, FALSE)
        [] st.ok /\ s.s = "while" -> WhileLoop(st, sc, s)
        [] st.ok /\ s.s = "repeat" -> RepeatLoop(st, sc, s)
        [] st.ok /\ s.s = "if" -> IfClauses(st, sc, s.clauses, s.els)
        [] st.ok /\ s.s = "fornum" ->
             IF ~v.st.ok THEN Go(v.st, sc)
             ELSE IF \E j \in 1 .. Len(s.exps) : ns[j] = NilVal THEN Go(Fail(v.st).st, sc)
             ELSE NumLoop(v.st, sc, s, ns[1][2], ns[2][2], IF Len(s.exps) = 3 THEN ns[3][2] ELSE 1)
        [] st.ok /\ s.s = "forlist" -> ListLoop(v.st, sc, s, Upto(v.vs, 3))
        [] st.ok /\ s.s = "localfunction" ->
             Go([fn.st EXCEPT !.cells[Len(self.st.cells)] = fn.vs[1]], self.sc)
        [] st.ok /\ s.s = "function" -> Go(Assign(m.st, sc, pl, m.vs[1]), sc)
        [] st.ok /\ s.s = "return" -> S(v.st, sc, "return", v.vs)
        [] OTHER -> S(st, sc, "break", <<>>)

ExecBlock(st, sc, b) ==
  FoldLeft(LAMBDA r, s : IF r.sig = "next" /\ r.st.ok THEN Exec(r.st, r.sc, s) ELSE r,
           Go(st, sc), b)

(* The whole program, with its arguments as the chunk's `...`.             *)
Meaning(b, args) ==
  LET r == ExecBlock([ok |-> TRUE, cells |-> <<>>, heap |-> <<>>,
                      funs |-> <<[pars |-> <<>>, va |-> "dots", body |-> <<>>,
                                  sc |-> [names |-> <<>>, dots |-> <<>>]]>>,
                      globals |-> HostGlobals, trace |-> <<>>],
                     [names |-> <<>>, dots |-> args], b)
  IN  [ok |-> r.st.ok, results |-> IF r.sig = "return" THEN r.vs ELSE <<>>,
       heap |-> r.st.heap, globals |-> r.st.globals, trace |-> r.st.trace]

-----------------------------------------------------------------------------
(* The compiler's promise: a program that ended did what it means.  Same    *)
(* results, same errors, the same global variables, tables and calls of the *)
(* host.  Every register lcode.c allocates and reuses, every jump it leaves *)
(* pending and patches later, every constant it folds and every variable it *)
(* closes shows here if it is wrong.                                        *)
CompiledAsWritten ==
  LET m == Meant(prog, input) IN
  phase \in {"halt", "error"} =>
    /\ (phase = "halt") = m.ok
    /\ trace = m.trace
    /\ phase = "halt" => Results = m.results /\ heap = m.heap /\ globals = m.globals

(* The lua_asserts hold for the run's scripts: those of lcode.c, lparser.c  *)
(* (registers freed in order, a full instruction at every jump,             *)
(* luaG_checkcode on every function when it is closed) and luaV_execute's   *)
(* at every instruction.  L->top is the frame's unless an instruction that  *)
(* takes an open argument list follows, and no open upvalue points above    *)
(* the running frame, at a slot the next call will overwrite (luaF_close    *)
(* ran wherever a frame or block ended).                                    *)
AssertsHold ==
  /\ main.bad = {}
  /\ phase = "run" =>
       /\ CI.tfor \/ top = CI.top \/ luaG_checkopenop(i)
       /\ \A u \in DOMAIN upv : upv[u].open => upv[u].at < CI.base + p.maxstacksize
=============================================================================
