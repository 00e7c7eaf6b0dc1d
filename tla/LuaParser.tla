------------------------------ MODULE LuaParser ------------------------------
(***************************************************************************)
(* The Lua compiler above the code generator: lparser.c, with the checker   *)
(* its last assertion calls (ldebug.c).                                     *)
(*                                                                         *)
(* A program is a syntax tree: the scanner and the operator priorities have *)
(* done their work, and the grammar rules below walk the tree in the order  *)
(* in which the parser reads the text.  Expressions carry their form in x,  *)
(* statements in s.                                                         *)
(***************************************************************************)
EXTENDS LuaCode

CONSTANTS LUAI_MAXVARS,     \* limit of local variables of one function
          LUAI_MAXUPVALUES  \* limit of upvalues of one function

ASSUME VarsAssumption == LUAI_MAXVARS \in Nat /\ LUAI_MAXUPVALUES \in Nat

(* A new FuncState; prev holds the enclosing one, if any.                  *)
open_func(prev) ==
  [code |-> <<>>, lasttarget |-> -1, jpc |-> NO_JUMP, freereg |-> 0, k |-> <<>>,
   p |-> <<>>, nactvar |-> 0, actvar |-> <<>>, upvalues |-> <<>>, bl |-> <<>>,
   maxstacksize |-> 2, numparams |-> 0, is_vararg |-> {}, prev |-> prev,
   err |-> {}, bad |-> {}]

luaY_checklimit(fs, v, l, what) == IF v > l THEN SyntaxError(fs, what) ELSE fs

-----------------------------------------------------------------------------
(* Variables.                                                              *)
(* actvar holds the declared names; those up to nactvar are active.        *)
new_localvar(fs, name, n) ==
  [luaY_checklimit(fs, fs.nactvar + n + 1, LUAI_MAXVARS, "local variables")
     EXCEPT !.actvar = Append(SubSeq(@, 1, fs.nactvar + n), name)]

new_localvars(fs, names) ==
  FoldLeftDomain(LAMBDA g, i : new_localvar(g, names[i], i - 1), fs, names)

adjustlocalvars(fs, nvars) == [fs EXCEPT !.nactvar = @ + nvars]
removevars(fs, tolevel) == [fs EXCEPT !.nactvar = tolevel]

searchvar(fs, n) == SelectLastInSeq(SubSeq(fs.actvar, 1, fs.nactvar), LAMBDA v : v = n) - 1

indexupvalue(fs, n, v) ==
  LET i == SelectInSeq(fs.upvalues, LAMBDA u : u.k = v.k /\ u.info = v.info)
      g == luaY_checklimit(fs, Len(fs.upvalues) + 1, LUAI_MAXUPVALUES, "upvalues")
  IN  IF i # 0 THEN R(Asserted(fs, fs.upvalues[i].n = n, "indexupvalue"), i - 1)
      ELSE R([g EXCEPT !.upvalues = Append(@, [k |-> v.k, info |-> v.info, n |-> n])],
             Len(fs.upvalues))

(* The innermost block that declared level must close it when it ends.      *)
markupval_outermost(fs, level) ==
  LET b == SelectInSeq(fs.bl, LAMBDA bl : bl.nactvar <= level)
  IN  IF b = 0 THEN fs ELSE [fs EXCEPT !.bl[b].upval = TRUE]
markupval(fs, level) ==
  LET b == SelectLastInSeq(fs.bl, LAMBDA bl : bl.nactvar <= level)
  IN  IF b = 0 THEN fs ELSE [fs EXCEPT !.bl[b].upval = TRUE]

RECURSIVE singlevaraux(_, _, _)
singlevaraux(fs, n, base) ==
  LET v == searchvar(fs, n) IN
  IF v >= 0 THEN X(IF base THEN fs ELSE markupval(fs, v), Exp("VLOCAL", v))
  ELSE IF fs.prev = <<>> THEN X(fs, Exp("VGLOBAL", NO_REG))
  ELSE LET up == singlevaraux(fs.prev[1], n, FALSE)
           outer == [fs EXCEPT !.prev = <<up.fs>>]
           i == indexupvalue(outer, n, up.e)
       IN  IF up.e.k = "VGLOBAL" THEN X(outer, up.e) ELSE X(i.fs, Exp("VUPVAL", i.r))

singlevar(fs, n) ==
  LET v == singlevaraux(fs, n, TRUE)
      k == luaK_stringK(v.fs, n)
  IN  IF v.e.k = "VGLOBAL" THEN X(k.fs, [v.e EXCEPT !.info = k.r]) ELSE v

adjust_assign(fs, nvars, nexps, e) ==
  LET extra == nvars - nexps
      open == IF extra + 1 < 0 THEN 0 ELSE extra + 1
      g == luaK_setreturns(fs, e, open)
      h == IF e.k = "VVOID" THEN fs ELSE luaK_exp2nextreg(X(fs, e)).fs
  IN  CASE hasmultret(e.k) -> IF open > 1 THEN luaK_reserveregs(g, open - 1) ELSE g
        [] ~hasmultret(e.k) /\ extra > 0 -> luaK_nil(luaK_reserveregs(h, extra), h.freereg, extra)
        [] OTHER -> h

-----------------------------------------------------------------------------
(* Blocks.                                                                 *)
enterblock(fs, isbreakable) ==
  Asserted([fs EXCEPT !.bl = Append(@, [breaklist |-> NO_JUMP, isbreakable |-> isbreakable,
                                        nactvar |-> fs.nactvar, upval |-> FALSE])],
           fs.freereg = fs.nactvar, "enterblock")

leaveblock(fs) ==
  LET bl == Last(fs.bl)
      g == removevars([fs EXCEPT !.bl = Front(@)], bl.nactvar)
      h == IF bl.upval THEN luaK_codeABC(g, "CLOSE", bl.nactvar, 0, 0).fs ELSE g
  IN  luaK_patchtohere(Asserted([h EXCEPT !.freereg = h.nactvar],
                                ~bl.isbreakable \/ ~bl.upval, "leaveblock"),
                       bl.breaklist)

breakstat(fs) ==
  LET b == SelectLastInSeq(fs.bl, LAMBDA bl : bl.isbreakable)
      upval == \E i \in b + 1 .. Len(fs.bl) : fs.bl[i].upval
      g == IF upval THEN luaK_codeABC(fs, "CLOSE", fs.bl[b].nactvar, 0, 0).fs ELSE fs
      j == luaK_jump(g)
      c == luaK_concat(j.fs, fs.bl[b].breaklist, j.r)
  IN  IF b = 0 THEN SyntaxError(fs, "no loop to break")
      ELSE [c.fs EXCEPT !.bl[b].breaklist = c.r]

-----------------------------------------------------------------------------
(* The code checker: luaG_checkcode, a pass of symbexec over all the code   *)
(* with no register to follow.                                              *)
luaG_checkopenop(i) == i.op \in {"CALL", "TAILCALL", "RETURN", "SETLIST"} /\ i.b = 0

checkreg(pt, reg) == reg < pt.maxstacksize
checkArgMode(pt, r, mode) ==
  CASE mode = "N" -> r = 0
    [] mode = "U" -> TRUE
    [] mode = "R" -> checkreg(pt, r)
    [] mode = "K" -> IF ISK(r) THEN INDEXK(r) < Len(pt.k) ELSE checkreg(pt, r)

precheck(pt) ==
  /\ pt.maxstacksize <= MAXSTACK
  /\ pt.numparams + (IF "HASARG" \in pt.is_vararg THEN 1 ELSE 0) <= pt.maxstacksize
  /\ "NEEDSARG" \in pt.is_vararg => "HASARG" \in pt.is_vararg
  /\ Last(pt.code).op = "RETURN"

CheckFormat(pt, at, i) ==
  LET m == luaP_opmodes(i.op)
      dest == at + 1 + i.b
  IN  CASE m.m = "ABC" -> checkArgMode(pt, i.b, m.b) /\ checkArgMode(pt, i.c, m.c)
        [] m.m = "ABx" -> m.b = "K" => i.b < Len(pt.k)
        [] m.m = "AsBx" ->
             /\ 0 <= dest /\ dest < Len(pt.code)
             /\ dest > 0 => ~(getcode(pt, dest - 1).op = "SETLIST" /\ getcode(pt, dest - 1).c = 0)

CheckOperands(pt, at, i) ==
  CASE i.op = "LOADBOOL" -> i.c = 0 \/ at + 2 < Len(pt.code)
    [] i.op \in {"GETUPVAL", "SETUPVAL"} -> i.b < Len(pt.upvalues)
    [] i.op \in {"GETGLOBAL", "SETGLOBAL"} -> pt.k[i.b + 1][1] = "str"
    [] i.op = "SELF" -> checkreg(pt, i.a + 1)
    [] i.op = "CONCAT" -> i.b < i.c
    [] i.op = "TFORLOOP" -> i.c >= 1 /\ checkreg(pt, i.a + 2 + i.c)
    [] i.op \in {"FORLOOP", "FORPREP"} -> checkreg(pt, i.a + 3)
    [] i.op \in {"CALL", "TAILCALL"} ->
         /\ i.b # 0 => checkreg(pt, i.a + i.b - 1)
         /\ i.c - 1 = LUA_MULTRET => luaG_checkopenop(getcode(pt, at + 1))
         /\ i.c - 1 > 0 => checkreg(pt, i.a + i.c - 2)
    [] i.op = "RETURN" -> i.b - 1 > 0 => checkreg(pt, i.a + i.b - 2)
    [] i.op = "SETLIST" -> i.b > 0 => checkreg(pt, i.a + i.b)
    [] i.op = "CLOSURE" ->
         /\ i.b < Len(pt.p)
         /\ at + Len(pt.p[i.b + 1].upvalues) < Len(pt.code)
         /\ \A n \in 1 .. Len(pt.p[i.b + 1].upvalues) :
              getcode(pt, at + n).op \in {"GETUPVAL", "MOVE"}
    [] i.op = "VARARG" ->
         /\ "ISVARARG" \in pt.is_vararg /\ "NEEDSARG" \notin pt.is_vararg
         /\ i.b - 1 = LUA_MULTRET => luaG_checkopenop(getcode(pt, at + 1))
         /\ checkreg(pt, i.a + i.b - 2)
    [] OTHER -> TRUE

symbexec(pt) ==
  /\ precheck(pt)
  /\ \A at \in 0 .. Len(pt.code) - 1 :
       LET i == getcode(pt, at) IN
       \/ i.op = "RAW"
       \/ /\ checkreg(pt, i.a)
          /\ CheckFormat(pt, at, i)
          /\ testTMode(i.op) => at + 2 < Len(pt.code) /\ getcode(pt, at + 1).op = "JMP"
          /\ CheckOperands(pt, at, i)

luaG_checkcode(pt) == symbexec(pt)

close_func(fs) ==
  LET g == luaK_ret(removevars(fs, 0), 0, 0)
  IN  Asserted(Asserted(g, luaG_checkcode(g), "luaG_checkcode"), g.bl = <<>>, "close_func")

(* What is left of a FuncState once its function is compiled.              *)
Proto(fs) == [code |-> fs.code, k |-> fs.k, p |-> fs.p, upvalues |-> fs.upvalues,
              maxstacksize |-> fs.maxstacksize, numparams |-> fs.numparams,
              is_vararg |-> fs.is_vararg]

(* The closure of func is an instruction of the enclosing function followed *)
(* by one pseudo-instruction for each upvalue.                              *)
pushclosure(func) ==
  LET outer == func.prev[1]
      g == [outer EXCEPT !.p = Append(@, Proto(func)), !.err = @ \union func.err,
                         !.bad = @ \union func.bad]
      c == luaK_codeABx(g, "CLOSURE", 0, Len(g.p) - 1)
      h == FoldLeft(LAMBDA a, u :
                      luaK_codeABC(a, IF u.k = "VLOCAL" THEN "MOVE" ELSE "GETUPVAL",
                                   0, u.info, 0).fs,
                    c.fs, func.upvalues)
  IN  X(h, Exp("VRELOCABLE", c.r))

-----------------------------------------------------------------------------
(* Expressions.                                                            *)
RECURSIVE expr(_, _), chunk(_, _)

parlist(fs, pars, va) ==
  LET names == pars \o (IF va = "none" THEN <<>> ELSE <<"arg">>)
      g == adjustlocalvars(new_localvars(fs, names), Len(names))
  IN  luaK_reserveregs(
        [g EXCEPT !.is_vararg = IF va = "none" THEN {} ELSE {"HASARG", "NEEDSARG", "ISVARARG"},
                  !.numparams = g.nactvar - (IF va = "none" THEN 0 ELSE 1)], g.nactvar)

body(fs, f, needself) ==
  LET new == open_func(<<fs>>)
      self == IF needself THEN adjustlocalvars(new_localvar(new, "self", 0), 1) ELSE new
  IN  pushclosure(close_func(chunk(parlist(self, f.pars, f.va), f.body)))

(* explist1: every expression but the last is closed in a register.        *)
explist1(fs, es) ==
  FoldLeft(LAMBDA x, e : IF x.fs.err # {} THEN x ELSE expr(luaK_exp2nextreg(x).fs, e),
           expr(fs, es[1]), Tail(es))

funcargs(x, args) ==
  LET base == x.e.info
      g == Asserted(x.fs, x.e.k = "VNONRELOC", "funcargs")
      a == IF args = <<>> THEN X(g, Exp("VVOID", 0)) ELSE explist1(g, args)
      open == hasmultret(a.e.k)
      h == CASE open -> luaK_setmultret(a.fs, a.e)
             [] a.e.k = "VVOID" -> a.fs
             [] OTHER -> luaK_exp2nextreg(a).fs
      nparams == IF open THEN LUA_MULTRET ELSE h.freereg - (base + 1)
      c == luaK_codeABC(h, "CALL", base, nparams + 1, 2)
  IN  X([c.fs EXCEPT !.freereg = base + 1], Exp("VCALL", c.r))

codestring(fs, s) == LET k == luaK_stringK(fs, s) IN X(k.fs, Exp("VK", k.r))

(* Constructor: cc = [fs, v, nh, na, tostore]; t is the table's register.   *)
closelistfield(cc, t) ==
  LET n == luaK_exp2nextreg(X(cc.fs, cc.v)) IN
  CASE cc.v.k = "VVOID" -> cc
    [] cc.v.k # "VVOID" /\ cc.tostore = LFIELDS_PER_FLUSH ->
         [cc EXCEPT !.fs = luaK_setlist(n.fs, t, cc.na, cc.tostore),
                    !.v.k = "VVOID", !.tostore = 0]
    [] OTHER -> [cc EXCEPT !.fs = n.fs, !.v = [n.e EXCEPT !.k = "VVOID"]]

recfield(cc, t, item) ==
  LET reg == cc.fs.freereg
      key == luaK_exp2RK(luaK_exp2val(expr(cc.fs, item.key)))
      val == luaK_exp2RK(expr(key.fs, item.val))
      s == luaK_codeABC(val.fs, "SETTABLE", t, key.r, val.r).fs
  IN  [cc EXCEPT !.fs = [s EXCEPT !.freereg = reg], !.nh = @ + 1]

listfield(cc, item) ==
  LET v == expr(cc.fs, item.val)
  IN  [cc EXCEPT !.fs = v.fs, !.v = v.e, !.na = @ + 1, !.tostore = @ + 1]

lastlistfield(cc, t) ==
  IF cc.tostore = 0 THEN cc.fs
  ELSE IF hasmultret(cc.v.k)
  THEN luaK_setlist(luaK_setmultret(cc.fs, cc.v), t, cc.na, LUA_MULTRET)
  ELSE luaK_setlist(IF cc.v.k = "VVOID" THEN cc.fs ELSE luaK_exp2nextreg(X(cc.fs, cc.v)).fs,
                    t, cc.na, cc.tostore)

constructor(fs, items) ==
  LET n == luaK_codeABC(fs, "NEWTABLE", 0, 0, 0)
      t == luaK_exp2nextreg(X(n.fs, Exp("VRELOCABLE", n.r)))
      cc == FoldLeft(LAMBDA c, item :
                       IF c.fs.err # {} THEN c
                       ELSE
                       LET d == closelistfield(c, t.e.info)
                           a == [d EXCEPT !.fs =
                                   Asserted(@, c.v.k = "VVOID" \/ c.tostore > 0, "constructor")]
                       IN  IF item.rec THEN recfield(a, t.e.info, item) ELSE listfield(a, item),
                     [fs |-> t.fs, v |-> Exp("VVOID", 0), nh |-> 0, na |-> 0, tostore |-> 0],
                     items)
  IN  X(lastlistfield(cc, t.e.info), t.e)

primaryexp(fs, a) ==
  LET o == expr(fs, a.o)
      t == luaK_exp2anyreg(o)
      key == luaK_exp2val(expr(t.fs, a.key))
      name == codestring(o.fs, a.n)
  IN  CASE a.x = "var" -> singlevar(fs, a.n)
        [] a.x = "paren" -> luaK_dischargevars(o)
        [] a.x = "index" -> luaK_indexed(key.fs, t.e, key.e)
        [] a.x = "method" -> funcargs(luaK_self(X(name.fs, o.e), name.e), a.args)
        [] a.x = "call" -> funcargs(luaK_exp2nextreg(o), a.args)

simpleexp(fs, a) ==
  LET v == luaK_codeABC([fs EXCEPT !.is_vararg = @ \ {"NEEDSARG"}], "VARARG", 0, 1, 0)
  IN  CASE a.x = "num" -> X(fs, [Exp("VKNUM", 0) EXCEPT !.nval = Num(a.v)])
        [] a.x = "str" -> codestring(fs, a.n)
        [] a.x = "nil" -> X(fs, Exp("VNIL", 0))
        [] a.x = "true" -> X(fs, Exp("VTRUE", 0))
        [] a.x = "false" -> X(fs, Exp("VFALSE", 0))
        [] a.x = "dots" ->
             IF fs.is_vararg = {} THEN X(SyntaxError(fs, "cannot use '...'"), Exp("VNIL", 0))
             ELSE X(v.fs, Exp("VVARARG", v.r))
        [] a.x = "table" -> constructor(fs, a.items)
        [] a.x = "function" -> body(fs, a, FALSE)
        [] OTHER -> primaryexp(fs, a)

(* subexpr, once the priorities have shaped the tree.                      *)
subexpr(fs, a) ==
  LET v == luaK_infix(a.op, expr(fs, a.a))
      v2 == expr(v.fs, a.b)
  IN  CASE a.x = "un" -> luaK_prefix(a.op, expr(fs, a.a))
        [] a.x = "bin" -> luaK_posfix(a.op, v2.fs, v.e, v2.e)
        [] OTHER -> simpleexp(fs, a)

expr(fs, a) == subexpr(fs, a)

-----------------------------------------------------------------------------
(* Statements.                                                             *)
block(fs, b) ==
  LET g == chunk(enterblock(fs, FALSE), b)
  IN  leaveblock(Asserted(g, Last(g.bl).breaklist = NO_JUMP, "block"))

(* An assignment to a local that an earlier target indexes with: that       *)
(* target uses a copy made now.                                             *)
check_conflict_none(fs, lh, v) == [lh |-> lh, fs |-> fs]
check_conflict(fs, lh, v) ==
  LET extra == fs.freereg
      hit(e) == e.k = "VINDEXED" /\ (e.info = v.info \/ e.aux = v.info)
      safe(e) == IF e.k = "VINDEXED"
                 THEN [e EXCEPT !.info = IF @ = v.info THEN extra ELSE @,
                                !.aux = IF @ = v.info THEN extra ELSE @]
                 ELSE e
  IN  [lh |-> [i \in DOMAIN lh |-> safe(lh[i])],
       fs |-> IF \E i \in DOMAIN lh : hit(lh[i])
              THEN luaK_reserveregs(luaK_codeABC(fs, "MOVE", extra, v.info, 0).fs, 1)
              ELSE fs]

(* lh: the targets read so far; more: the ones still to read.  Targets are  *)
(* stored last to first, from the top register down.                        *)
RECURSIVE assignment(_, _, _, _)
assignment(fs, lh, more, exps) ==
  LET nv == primaryexp(fs, more[1])
      c == IF nv.e.k = "VLOCAL" THEN check_conflict(nv.fs, lh, nv.e)
           ELSE [lh |-> lh, fs |-> nv.fs]
      deep == assignment(c.fs, Append(c.lh, nv.e), Tail(more), exps)
      e == explist1(fs, exps)
      nvars == Len(lh)
      nexps == Len(exps)
      g == adjust_assign(e.fs, nvars, nexps, e.e)
      adjusted == IF nexps > nvars THEN [g EXCEPT !.freereg = @ - (nexps - nvars)] ELSE g
      one == luaK_setoneret(e)
      Default(h, l) == [lh |-> l, fs |-> luaK_storevar(h, l[nvars], Exp("VNONRELOC", h.freereg - 1))]
  IN  CASE more # <<>> -> Default(deep.fs, deep.lh)
        [] more = <<>> /\ nexps # nvars -> Default(adjusted, lh)
        [] OTHER -> [lh |-> lh, fs |-> luaK_storevar(one.fs, lh[nvars], one.e)]

exprstat(fs, s) ==
  LET v == primaryexp(fs, s.targets[1])
      ok == v.e.k \in {"VLOCAL", "VUPVAL", "VGLOBAL", "VINDEXED"}
  IN  CASE v.e.k = "VCALL" -> SETARG_C(v.fs, v.e.info, 1)
        [] ok -> assignment(v.fs, <<v.e>>, Tail(s.targets), s.exps).fs
        [] OTHER -> SyntaxError(v.fs, "syntax error")

cond(fs, a) ==
  LET v == expr(fs, a)
  IN  luaK_goiftrue(IF v.e.k = "VNIL" THEN X(v.fs, [v.e EXCEPT !.k = "VFALSE"]) ELSE v)

whilestat(fs, s) ==
  LET whileinit == pc(fs)
      c == cond(luaK_getlabel(fs), s.cond)
      b == luaK_jump(block(enterblock(c.fs, TRUE), s.body))
      back == luaK_patchlist(b.fs, b.r, whileinit)
  IN  luaK_patchtohere(leaveblock(back), c.e.f)

repeatstat(fs, s) ==
  LET repeat_init == pc(fs)
      inner == chunk(enterblock(enterblock(luaK_getlabel(fs), TRUE), FALSE), s.body)
      c == cond(inner, s.cond)
      plain == luaK_patchlist(leaveblock(c.fs), c.e.f, repeat_init)
      again == luaK_jump(leaveblock(luaK_patchtohere(breakstat(c.fs), c.e.f)))
  IN  leaveblock(IF ~Last(c.fs.bl).upval THEN plain
                 ELSE luaK_patchlist(again.fs, again.r, repeat_init))

exp1(fs, a) == luaK_exp2nextreg(expr(fs, a)).fs

forbody(fs, base, nvars, isnum, b) ==
  LET g == adjustlocalvars(fs, 3)
      prep == IF isnum THEN luaK_codeABx(g, "FORPREP", base, NO_JUMP) ELSE luaK_jump(g)
      in == luaK_reserveregs(adjustlocalvars(enterblock(prep.fs, FALSE), nvars), nvars)
      out == luaK_patchtohere(leaveblock(block(in, b)), prep.r)
      end == IF isnum THEN luaK_codeABx(out, "FORLOOP", base, NO_JUMP)
             ELSE luaK_jump(luaK_codeABC(out, "TFORLOOP", base, 0, nvars).fs)
  IN  luaK_patchlist(end.fs, end.r, prep.r + 1)

fornum(fs, s) ==
  LET base == fs.freereg
      g == new_localvars(fs, <<"(for index)", "(for limit)", "(for step)">> \o s.names)
      h == exp1(exp1(g, s.exps[1]), s.exps[2])
      one == luaK_numberK(h, Num(1))
      step == IF Len(s.exps) = 3 THEN exp1(h, s.exps[3])
              ELSE luaK_reserveregs(luaK_codeABx(one.fs, "LOADK", h.freereg, one.r).fs, 1)
  IN  forbody(step, base, 1, TRUE, s.body)

forlist(fs, s) ==
  LET base == fs.freereg
      g == new_localvars(fs, <<"(for generator)", "(for state)", "(for control)">> \o s.names)
      e == explist1(g, s.exps)
      h == luaK_checkstack(adjust_assign(e.fs, 3, Len(s.exps), e.e), 3)
  IN  forbody(h, base, Len(s.names), FALSE, s.body)

forstat(fs, s) ==
  LET g == enterblock(fs, TRUE)
  IN  leaveblock(IF s.s = "fornum" THEN fornum(g, s) ELSE forlist(g, s))

test_then_block(fs, c) ==
  LET v == cond(fs, c.cond) IN R(block(v.fs, c.body), v.e.f)

(* acc: the code so far, the false exits of the last test and the jumps out *)
(* of the finished branches.                                                *)
ElseBranch(acc) ==
  LET j == luaK_jump(acc.fs)
      c == luaK_concat(j.fs, acc.escapelist, j.r)
  IN  [acc EXCEPT !.fs = luaK_patchtohere(c.fs, acc.flist), !.escapelist = c.r]

ifstat(fs, s) ==
  LET first == test_then_block(fs, s.clauses[1])
      acc == FoldLeft(LAMBDA a, c :
                        LET e == ElseBranch(a)
                            t == test_then_block(e.fs, c)
                        IN  [e EXCEPT !.fs = t.fs, !.flist = t.r],
                      [fs |-> first.fs, flist |-> first.r, escapelist |-> NO_JUMP],
                      Tail(s.clauses))
      last == ElseBranch(acc)
      none == luaK_concat(acc.fs, acc.escapelist, acc.flist)
  IN  IF s.els # <<>> THEN luaK_patchtohere(block(last.fs, s.els[1]), last.escapelist)
      ELSE luaK_patchtohere(none.fs, none.r)

localfunc(fs, s) ==
  LET g == adjustlocalvars(luaK_reserveregs(new_localvar(fs, s.names[1], 0), 1), 1)
      b == body(g, s.f, FALSE)
  IN  luaK_storevar(b.fs, Exp("VLOCAL", fs.freereg), b.e)

localstat(fs, s) ==
  LET g == new_localvars(fs, s.names)
      e == IF s.exps = <<>> THEN X(g, Exp("VVOID", 0)) ELSE explist1(g, s.exps)
  IN  adjustlocalvars(adjust_assign(e.fs, Len(s.names), Len(s.exps), e.e), Len(s.names))

(* funcname: the variable and its fields are the one target.               *)
funcstat(fs, s) ==
  LET v == primaryexp(fs, s.targets[1])
      b == body(v.fs, s.f, s.needself)
  IN  luaK_storevar(b.fs, v.e, b.e)

retstat(fs, s) ==
  LET e == explist1(fs, s.exps)
      nret == Len(s.exps)
      m == luaK_setmultret(e.fs, e.e)
      tail == Asserted([m EXCEPT !.code[e.e.info + 1].op = "TAILCALL"],
                       getcode(m, e.e.info).a = fs.nactvar, "retstat: tail call")
      any == luaK_exp2anyreg(e)
      all == luaK_exp2nextreg(e).fs
  IN  CASE nret = 0 -> luaK_ret(fs, 0, 0)
        [] nret > 0 /\ hasmultret(e.e.k) ->
             luaK_ret(IF e.e.k = "VCALL" /\ nret = 1 THEN tail ELSE m, fs.nactvar, LUA_MULTRET)
        [] nret = 1 /\ ~hasmultret(e.e.k) -> luaK_ret(any.fs, any.e.info, 1)
        [] OTHER -> luaK_ret(Asserted(all, nret = all.freereg - fs.nactvar, "retstat"),
                             fs.nactvar, nret)

statement(fs, s) ==
  CASE s.s = "if" -> ifstat(fs, s)
    [] s.s = "while" -> whilestat(fs, s)
    [] s.s = "do" -> block(fs, s.body)
    [] s.s \in {"fornum", "forlist"} -> forstat(fs, s)
    [] s.s = "repeat" -> repeatstat(fs, s)
    [] s.s = "function" -> funcstat(fs, s)
    [] s.s = "localfunction" -> localfunc(fs, s)
    [] s.s = "local" -> localstat(fs, s)
    [] s.s = "return" -> retstat(fs, s)
    [] s.s = "break" -> breakstat(fs)
    [] s.s = "expr" -> exprstat(fs, s)

(* A syntax error ends the compilation.                                    *)
chunk(fs, b) ==
  FoldLeft(LAMBDA g, s :
             IF g.err # {} THEN g
             ELSE
             LET h == statement(g, s)
             IN  [Asserted(h, h.maxstacksize >= h.freereg /\ h.freereg >= h.nactvar, "chunk")
                    EXCEPT !.freereg = h.nactvar],
           fs, b)

luaY_parser(b) ==
  LET fs == close_func(chunk([open_func(<<>>) EXCEPT !.is_vararg = {"ISVARARG"}], b))
  IN  Asserted(fs, fs.upvalues = <<>>, "luaY_parser")
=============================================================================
