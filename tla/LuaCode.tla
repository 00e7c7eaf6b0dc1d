------------------------------- MODULE LuaCode -------------------------------
(***************************************************************************)
(* The code generator of the embedded Lua (scripting/lua/src/lcode.c) and   *)
(* the instruction modes it works with (lopcodes.c).                        *)
(*                                                                         *)
(* A function under compilation is a record fs (FuncState); every           *)
(* operation of lcode.c is an operator that takes the fs and returns the    *)
(* new one, as [fs, e] when it also changes an expression descriptor and as *)
(* [fs, r] when it returns an int.  An instruction is [op, a, b, c], with   *)
(* Bx and sBx in b.  Line information is left out; a failing lua_assert is  *)
(* recorded in fs.bad and a syntax error in fs.err.                         *)
(***************************************************************************)
EXTENDS Integers, Sequences, SequencesExt, FiniteSets

CONSTANTS MAXSTACK,          \* limit of registers of one function
          MAXINDEXRK,        \* largest constant index an RK operand can hold
          MAXARG_C,          \* largest C operand
          LFIELDS_PER_FLUSH  \* list items a constructor collects in registers

ASSUME LimitsAssumption ==
         /\ MAXSTACK \in Nat /\ MAXSTACK >= 2 /\ MAXSTACK < 256
         /\ MAXINDEXRK \in Nat /\ MAXINDEXRK < 256
         /\ MAXARG_C \in Nat \ {0}
         /\ LFIELDS_PER_FLUSH \in Nat \ {0}

NO_JUMP == -1
NO_REG == 255
BITRK == 256
LUA_MULTRET == -1

(* Register and constant operands share one range: constants have BITRK.   *)
ISK(x) == x >= BITRK
RKASK(x) == x + BITRK
INDEXK(x) == x - BITRK

(***************************************************************************)
(* luaP_opmodes: which instructions are tests (the next one is a jump),     *)
(* which set register A, how B and C are used, and the format.  RAW is the  *)
(* count word that follows a SETLIST with C = 0.                            *)
(***************************************************************************)
Mode(t, a, b, c, m) == [t |-> t, a |-> a, b |-> b, c |-> c, m |-> m]
Arithmetic == {"ADD", "SUB", "MUL", "DIV", "MOD", "POW"}
luaP_opmodes(op) ==
  CASE op = "MOVE"                  -> Mode(FALSE, TRUE, "R", "N", "ABC")
    [] op = "LOADK"                 -> Mode(FALSE, TRUE, "K", "N", "ABx")
    [] op = "LOADBOOL"              -> Mode(FALSE, TRUE, "U", "U", "ABC")
    [] op = "LOADNIL"               -> Mode(FALSE, TRUE, "R", "N", "ABC")
    [] op = "GETUPVAL"              -> Mode(FALSE, TRUE, "U", "N", "ABC")
    [] op = "GETGLOBAL"             -> Mode(FALSE, TRUE, "K", "N", "ABx")
    [] op = "GETTABLE"              -> Mode(FALSE, TRUE, "R", "K", "ABC")
    [] op = "SETGLOBAL"             -> Mode(FALSE, FALSE, "K", "N", "ABx")
    [] op = "SETUPVAL"              -> Mode(FALSE, FALSE, "U", "N", "ABC")
    [] op = "SETTABLE"              -> Mode(FALSE, FALSE, "K", "K", "ABC")
    [] op = "NEWTABLE"              -> Mode(FALSE, TRUE, "U", "U", "ABC")
    [] op = "SELF"                  -> Mode(FALSE, TRUE, "R", "K", "ABC")
    [] op \in Arithmetic            -> Mode(FALSE, TRUE, "K", "K", "ABC")
    [] op \in {"UNM", "NOT", "LEN"} -> Mode(FALSE, TRUE, "R", "N", "ABC")
    [] op = "CONCAT"                -> Mode(FALSE, TRUE, "R", "R", "ABC")
    [] op = "JMP"                   -> Mode(FALSE, FALSE, "R", "N", "AsBx")
    [] op \in {"EQ", "LT", "LE"}    -> Mode(TRUE, FALSE, "K", "K", "ABC")
    [] op \in {"TEST", "TESTSET"}   -> Mode(TRUE, TRUE, "R", "U", "ABC")
    [] op \in {"CALL", "TAILCALL"}  -> Mode(FALSE, TRUE, "U", "U", "ABC")
    [] op = "RETURN"                -> Mode(FALSE, FALSE, "U", "N", "ABC")
    [] op \in {"FORLOOP", "FORPREP"} -> Mode(FALSE, TRUE, "R", "N", "AsBx")
    [] op = "TFORLOOP"              -> Mode(TRUE, FALSE, "N", "U", "ABC")
    [] op = "SETLIST"               -> Mode(FALSE, FALSE, "U", "U", "ABC")
    [] op = "CLOSE"                 -> Mode(FALSE, FALSE, "N", "N", "ABC")
    [] op = "CLOSURE"               -> Mode(FALSE, TRUE, "U", "N", "ABx")
    [] op = "VARARG"                -> Mode(FALSE, TRUE, "U", "N", "ABC")
    [] op = "RAW"                   -> Mode(FALSE, FALSE, "U", "U", "ABC")

testTMode(op) == luaP_opmodes(op).t

-----------------------------------------------------------------------------
(* Values: <<type, payload>>.  Numbers are integers; <<"nan", 0>> is the    *)
(* result of 0/0.                                                          *)
NilVal == <<"nil", 0>>
NaN == <<"nan", 0>>
Num(n) == <<"num", n>>
Str(s) == <<"str", s>>
Bool(b) == <<"bool", IF b THEN 1 ELSE 0>>

(* C arithmetic on doubles that hold integers (luaconf.h).  Quotients and   *)
(* powers are taken of operands whose result is an integer.                *)
NumOp(op, x, y) ==
  LET a == x[2]  b == y[2] IN
  IF x = NaN \/ y = NaN THEN NaN
  ELSE CASE op = "ADD" -> Num(a + b)
         [] op = "SUB" -> Num(a - b)
         [] op = "MUL" -> Num(a * b)
         [] op = "DIV" -> IF b = 0 THEN NaN ELSE Num(a \div b)
         [] op = "MOD" -> IF b = 0 THEN NaN ELSE Num(a - (a \div b) * b)
         [] op = "POW" -> Num(a ^ b)
         [] op = "UNM" -> Num(0 - a)

(* Expression descriptors (expdesc).                                       *)
Exp(k, info) == [k |-> k, info |-> info, aux |-> 0, nval |-> NilVal,
                 t |-> NO_JUMP, f |-> NO_JUMP]
X(fs, e) == [fs |-> fs, e |-> e]
R(fs, r) == [fs |-> fs, r |-> r]
hasjumps(e) == e.t # e.f
isnumeral(e) == e.k = "VKNUM" /\ e.t = NO_JUMP /\ e.f = NO_JUMP
hasmultret(k) == k \in {"VCALL", "VVARARG"}

Asserted(fs, p, where) == IF p THEN fs ELSE [fs EXCEPT !.bad = @ \union {where}]
SyntaxError(fs, msg) == [fs EXCEPT !.err = @ \union {msg}]

pc(fs) == Len(fs.code)
getcode(fs, at) == fs.code[at + 1]
setcode(fs, at, i) == [fs EXCEPT !.code[at + 1] = i]
SETARG_A(fs, at, v) == [fs EXCEPT !.code[at + 1].a = v]
SETARG_B(fs, at, v) == [fs EXCEPT !.code[at + 1].b = v]
SETARG_C(fs, at, v) == [fs EXCEPT !.code[at + 1].c = v]
Ins(op, a, b, c) == [op |-> op, a |-> a, b |-> b, c |-> c]

-----------------------------------------------------------------------------
(* Jump lists: a list of JMPs chained through their own offsets.            *)
getjump(fs, at) ==
  LET offset == getcode(fs, at).b IN
  IF offset = NO_JUMP THEN NO_JUMP ELSE at + 1 + offset

RECURSIVE JumpList(_, _)
JumpList(fs, list) ==
  IF list = NO_JUMP THEN <<>> ELSE <<list>> \o JumpList(fs, getjump(fs, list))

fixjump(fs, at, dest) ==
  SETARG_B(Asserted(fs, dest # NO_JUMP, "fixjump"), at, dest - (at + 1))

luaK_getlabel(fs) == [fs EXCEPT !.lasttarget = pc(fs)]

luaK_concat(fs, l1, l2) ==
  CASE l2 = NO_JUMP -> R(fs, l1)
    [] l2 # NO_JUMP /\ l1 = NO_JUMP -> R(fs, l2)
    [] OTHER -> R(fixjump(fs, Last(JumpList(fs, l1)), l2), l1)

getjumpcontrol(fs, at) ==
  IF at >= 1 /\ testTMode(getcode(fs, at - 1).op) THEN at - 1 ELSE at

IsTestset(fs, node) == getcode(fs, getjumpcontrol(fs, node)).op = "TESTSET"

need_value(fs, list) ==
  \E i \in DOMAIN JumpList(fs, list) : ~IsTestset(fs, JumpList(fs, list)[i])

(* A TESTSET keeps its value in reg, or becomes a plain TEST when nobody    *)
(* wants it or it is there already.                                        *)
patchtestreg(fs, node, reg) ==
  LET at == getjumpcontrol(fs, node)
      i == getcode(fs, at)
  IN  IF ~IsTestset(fs, node) THEN fs
      ELSE IF reg # NO_REG /\ reg # i.b THEN SETARG_A(fs, at, reg)
      ELSE setcode(fs, at, Ins("TEST", i.b, 0, i.c))

removevalues(fs, list) ==
  FoldLeft(LAMBDA g, node : patchtestreg(g, node, NO_REG), fs, JumpList(fs, list))

patchlistaux(fs, list, vtarget, reg, dtarget) ==
  FoldLeft(LAMBDA g, node :
             fixjump(patchtestreg(g, node, reg), node,
                     IF IsTestset(g, node) THEN vtarget ELSE dtarget),
           fs, JumpList(fs, list))

dischargejpc(fs) ==
  [patchlistaux(fs, fs.jpc, pc(fs), NO_REG, pc(fs)) EXCEPT !.jpc = NO_JUMP]

luaK_patchtohere(fs, list) ==
  LET c == luaK_concat(luaK_getlabel(fs), fs.jpc, list)
  IN  [c.fs EXCEPT !.jpc = c.r]

luaK_patchlist(fs, list, target) ==
  IF target = pc(fs) THEN luaK_patchtohere(fs, list)
  ELSE patchlistaux(Asserted(fs, target < pc(fs), "luaK_patchlist"),
                    list, target, NO_REG, target)

-----------------------------------------------------------------------------
(* Emitting instructions.                                                  *)
luaK_code(fs, i) == [dischargejpc(fs) EXCEPT !.code = Append(@, i)]

luaK_codeABC(fs, o, a, b, c) ==
  R(luaK_code(Asserted(fs, /\ luaP_opmodes(o).m = "ABC"
                           /\ luaP_opmodes(o).b # "N" \/ b = 0
                           /\ luaP_opmodes(o).c # "N" \/ c = 0, "luaK_codeABC"),
              Ins(o, a, b, c)), pc(fs))

luaK_codeABx(fs, o, a, bx) ==
  R(luaK_code(Asserted(fs, luaP_opmodes(o).m # "ABC" /\ luaP_opmodes(o).c = "N",
                       "luaK_codeABx"),
              Ins(o, a, bx, 0)), pc(fs))

(* LOADNILs of adjacent registers join, unless a jump ends between them.    *)
luaK_nil(fs, from, n) ==
  LET p == Last(fs.code)
      free == pc(fs) > fs.lasttarget
  IN  CASE free /\ pc(fs) = 0 -> fs
        [] free /\ pc(fs) # 0 /\ p.op = "LOADNIL" /\ p.a <= from /\ from <= p.b + 1 ->
             IF from + n - 1 > p.b THEN SETARG_B(fs, pc(fs) - 1, from + n - 1) ELSE fs
        [] OTHER -> luaK_codeABC(fs, "LOADNIL", from, from + n - 1, 0).fs

luaK_jump(fs) ==
  LET j == luaK_codeABx([fs EXCEPT !.jpc = NO_JUMP], "JMP", 0, NO_JUMP)
  IN  luaK_concat(j.fs, j.r, fs.jpc)

luaK_ret(fs, first, nret) == luaK_codeABC(fs, "RETURN", first, nret + 1, 0).fs

condjump(fs, op, a, b, c) == luaK_jump(luaK_codeABC(fs, op, a, b, c).fs)

luaK_setlist(fs, base, nelems, tostore) ==
  LET c == (nelems - 1) \div LFIELDS_PER_FLUSH + 1
      b == IF tostore = LUA_MULTRET THEN 0 ELSE tostore
      g == Asserted(fs, tostore # 0, "luaK_setlist")
      s == IF c <= MAXARG_C THEN luaK_codeABC(g, "SETLIST", base, b, c).fs
           ELSE luaK_code(luaK_codeABC(g, "SETLIST", base, b, 0).fs, Ins("RAW", 0, c, 0))
  IN  [s EXCEPT !.freereg = base + 1]

-----------------------------------------------------------------------------
(* Registers and constants.                                                *)
luaK_checkstack(fs, n) ==
  LET newstack == fs.freereg + n IN
  IF newstack <= fs.maxstacksize THEN fs
  ELSE [IF newstack >= MAXSTACK
        THEN SyntaxError(fs, "function or expression too complex") ELSE fs
        EXCEPT !.maxstacksize = newstack]

luaK_reserveregs(fs, n) == [luaK_checkstack(fs, n) EXCEPT !.freereg = @ + n]

freereg(fs, reg) ==
  IF ~ISK(reg) /\ reg >= fs.nactvar
  THEN Asserted([fs EXCEPT !.freereg = @ - 1], reg = fs.freereg - 1, "freereg")
  ELSE fs

freeexp(fs, e) == IF e.k = "VNONRELOC" THEN freereg(fs, e.info) ELSE fs

addk(fs, v) ==
  LET i == SelectInSeq(fs.k, LAMBDA w : w = v) IN
  IF i # 0 THEN R(fs, i - 1) ELSE R([fs EXCEPT !.k = Append(@, v)], Len(fs.k))

luaK_stringK(fs, s) == addk(fs, Str(s))
luaK_numberK(fs, r) == addk(fs, r)
boolK(fs, b) == addk(fs, Bool(b))
nilK(fs) == addk(fs, NilVal)

-----------------------------------------------------------------------------
(* Bringing an expression to a value.                                      *)
luaK_setreturns(fs, e, nresults) ==
  CASE e.k = "VCALL" -> SETARG_C(fs, e.info, nresults + 1)
    [] e.k = "VVARARG" ->
         luaK_reserveregs(SETARG_A(SETARG_B(fs, e.info, nresults + 1), e.info, fs.freereg), 1)
    [] OTHER -> fs

luaK_setmultret(fs, e) == luaK_setreturns(fs, e, LUA_MULTRET)

luaK_setoneret(x) ==
  CASE x.e.k = "VCALL" ->
         X(x.fs, [x.e EXCEPT !.k = "VNONRELOC", !.info = getcode(x.fs, x.e.info).a])
    [] x.e.k = "VVARARG" ->
         X(SETARG_B(x.fs, x.e.info, 2), [x.e EXCEPT !.k = "VRELOCABLE"])
    [] OTHER -> x

Relocable(x, c) == X(c.fs, [x.e EXCEPT !.k = "VRELOCABLE", !.info = c.r])

luaK_dischargevars(x) ==
  LET e == x.e  fs == x.fs IN
  CASE e.k = "VLOCAL"   -> X(fs, [e EXCEPT !.k = "VNONRELOC"])
    [] e.k = "VUPVAL"   -> Relocable(x, luaK_codeABC(fs, "GETUPVAL", 0, e.info, 0))
    [] e.k = "VGLOBAL"  -> Relocable(x, luaK_codeABx(fs, "GETGLOBAL", 0, e.info))
    [] e.k = "VINDEXED" ->
         Relocable(x, luaK_codeABC(freereg(freereg(fs, e.aux), e.info),
                                   "GETTABLE", 0, e.info, e.aux))
    [] OTHER -> luaK_setoneret(x)

code_label(fs, a, b, jump) == luaK_codeABC(luaK_getlabel(fs), "LOADBOOL", a, b, jump)

discharge2reg(x, reg) ==
  LET d == luaK_dischargevars(x)
      e == d.e
      fs == d.fs
      num == luaK_numberK(fs, e.nval)
      loaded ==
        CASE e.k = "VNIL" -> luaK_nil(fs, reg, 1)
          [] e.k \in {"VFALSE", "VTRUE"} ->
               luaK_codeABC(fs, "LOADBOOL", reg, IF e.k = "VTRUE" THEN 1 ELSE 0, 0).fs
          [] e.k = "VK" -> luaK_codeABx(fs, "LOADK", reg, e.info).fs
          [] e.k = "VKNUM" -> luaK_codeABx(num.fs, "LOADK", reg, num.r).fs
          [] e.k = "VRELOCABLE" -> SETARG_A(fs, e.info, reg)
          [] e.k = "VNONRELOC" ->
               IF reg # e.info THEN luaK_codeABC(fs, "MOVE", reg, e.info, 0).fs ELSE fs
  IN  IF e.k \in {"VVOID", "VJMP"} THEN d
      ELSE X(loaded, [e EXCEPT !.info = reg, !.k = "VNONRELOC"])

discharge2anyreg(x) ==
  IF x.e.k = "VNONRELOC" THEN x
  ELSE discharge2reg(X(luaK_reserveregs(x.fs, 1), x.e), x.fs.freereg)

(* The value of e, its pending jumps included, ends up in reg: jumps that   *)
(* carry no value go to the LOADBOOLs at p_f and p_t.                      *)
exp2reg(x, reg) ==
  LET d == discharge2reg(x, reg)
      c == luaK_concat(d.fs, d.e.t, d.e.info)
      j == IF d.e.k = "VJMP" THEN X(c.fs, [d.e EXCEPT !.t = c.r]) ELSE d
      need == need_value(j.fs, j.e.t) \/ need_value(j.fs, j.e.f)
      fj == IF j.e.k = "VJMP" THEN R(j.fs, NO_JUMP) ELSE luaK_jump(j.fs)
      p_f == code_label(fj.fs, reg, 0, 1)
      p_t == code_label(p_f.fs, reg, 1, 0)
      final == luaK_getlabel(IF need THEN luaK_patchtohere(p_t.fs, fj.r) ELSE j.fs)
      f == patchlistaux(final, j.e.f, pc(final), reg, IF need THEN p_f.r ELSE NO_JUMP)
      t == patchlistaux(f, j.e.t, pc(final), reg, IF need THEN p_t.r ELSE NO_JUMP)
  IN  X(IF hasjumps(j.e) THEN t ELSE j.fs,
        [j.e EXCEPT !.t = NO_JUMP, !.f = NO_JUMP, !.info = reg, !.k = "VNONRELOC"])

luaK_exp2nextreg(x) ==
  LET d == luaK_dischargevars(x)
      g == luaK_reserveregs(freeexp(d.fs, d.e), 1)
  IN  exp2reg(X(g, d.e), g.freereg - 1)

luaK_exp2anyreg(x) ==
  LET d == luaK_dischargevars(x) IN
  IF d.e.k = "VNONRELOC" /\ ~hasjumps(d.e) THEN d
  ELSE IF d.e.k = "VNONRELOC" /\ d.e.info >= d.fs.nactvar THEN exp2reg(d, d.e.info)
  ELSE luaK_exp2nextreg(d)

luaK_exp2val(x) ==
  IF hasjumps(x.e) THEN luaK_exp2anyreg(x) ELSE luaK_dischargevars(x)

AsConstant(fs, e) ==
  CASE e.k = "VNIL" -> nilK(fs)
    [] e.k = "VKNUM" -> luaK_numberK(fs, e.nval)
    [] OTHER -> boolK(fs, e.k = "VTRUE")

luaK_exp2RK(x) ==
  LET v == luaK_exp2val(x)
      c == AsConstant(v.fs, v.e)
      a == luaK_exp2anyreg(v)
  IN  CASE v.e.k \in {"VKNUM", "VTRUE", "VFALSE", "VNIL"} /\ Len(v.fs.k) <= MAXINDEXRK ->
             [fs |-> c.fs, e |-> [v.e EXCEPT !.k = "VK", !.info = c.r], r |-> RKASK(c.r)]
        [] v.e.k = "VK" /\ v.e.info <= MAXINDEXRK ->
             [fs |-> v.fs, e |-> v.e, r |-> RKASK(v.e.info)]
        [] OTHER -> [fs |-> a.fs, e |-> a.e, r |-> a.e.info]

luaK_storevar(fs, var, ex) ==
  LET loc == exp2reg(X(freeexp(fs, ex), ex), var.info)
      any == luaK_exp2anyreg(X(fs, ex))
      rk == luaK_exp2RK(X(fs, ex))
  IN  CASE var.k = "VLOCAL" -> loc.fs
        [] var.k = "VUPVAL" ->
             freeexp(luaK_codeABC(any.fs, "SETUPVAL", any.e.info, var.info, 0).fs, any.e)
        [] var.k = "VGLOBAL" ->
             freeexp(luaK_codeABx(any.fs, "SETGLOBAL", any.e.info, var.info).fs, any.e)
        [] var.k = "VINDEXED" ->
             freeexp(luaK_codeABC(rk.fs, "SETTABLE", var.info, var.aux, rk.r).fs, rk.e)
        [] OTHER -> Asserted(fs, FALSE, "luaK_storevar")

luaK_self(x, key) ==
  LET o == luaK_exp2anyreg(x)
      g == luaK_reserveregs(freeexp(o.fs, o.e), 2)
      func == g.freereg - 2
      k == luaK_exp2RK(X(g, key))
  IN  X(freeexp(luaK_codeABC(k.fs, "SELF", func, o.e.info, k.r).fs, k.e),
        [o.e EXCEPT !.info = func, !.k = "VNONRELOC"])

luaK_indexed(fs, t, k) ==
  LET rk == luaK_exp2RK(X(fs, k))
  IN  X(rk.fs, [t EXCEPT !.aux = rk.r, !.k = "VINDEXED"])

-----------------------------------------------------------------------------
(* Conditions.                                                             *)
invertjump(fs, e) ==
  LET at == getjumpcontrol(fs, e.info)
      i == getcode(fs, at)
  IN  SETARG_A(Asserted(fs, testTMode(i.op) /\ i.op \notin {"TESTSET", "TEST"}, "invertjump"),
               at, 1 - i.a)

(* A jump that leaves when e is cond; a preceding NOT is absorbed.          *)
jumponcond(x, cond) ==
  LET i == getcode(x.fs, x.e.info)
      d == discharge2anyreg(x)
  IN  IF x.e.k = "VRELOCABLE" /\ i.op = "NOT"
      THEN LET j == condjump([x.fs EXCEPT !.code = Front(@)], "TEST", i.b, 0, 1 - cond)
           IN  [fs |-> j.fs, e |-> x.e, r |-> j.r]
      ELSE LET j == condjump(freeexp(d.fs, d.e), "TESTSET", NO_REG, d.e.info, cond)
           IN  [fs |-> j.fs, e |-> d.e, r |-> j.r]

With(x, c) == [fs |-> c.fs, e |-> x.e, r |-> c.r]

luaK_goiftrue(x) ==
  LET d == luaK_dischargevars(x)
      j == CASE d.e.k \in {"VK", "VKNUM", "VTRUE"} -> With(d, R(d.fs, NO_JUMP))
             [] d.e.k = "VFALSE" -> With(d, luaK_jump(d.fs))
             [] d.e.k = "VJMP" -> With(d, R(invertjump(d.fs, d.e), d.e.info))
             [] OTHER -> jumponcond(d, 0)
      c == luaK_concat(j.fs, j.e.f, j.r)
  IN  X(luaK_patchtohere(c.fs, j.e.t), [j.e EXCEPT !.f = c.r, !.t = NO_JUMP])

luaK_goiffalse(x) ==
  LET d == luaK_dischargevars(x)
      j == CASE d.e.k \in {"VNIL", "VFALSE"} -> With(d, R(d.fs, NO_JUMP))
             [] d.e.k = "VTRUE" -> With(d, luaK_jump(d.fs))
             [] d.e.k = "VJMP" -> With(d, R(d.fs, d.e.info))
             [] OTHER -> jumponcond(d, 1)
      c == luaK_concat(j.fs, j.e.t, j.r)
  IN  X(luaK_patchtohere(c.fs, j.e.f), [j.e EXCEPT !.t = c.r, !.f = NO_JUMP])

codenot(x) ==
  LET d == luaK_dischargevars(x)
      a == discharge2anyreg(d)
      n == CASE d.e.k \in {"VNIL", "VFALSE"} -> X(d.fs, [d.e EXCEPT !.k = "VTRUE"])
             [] d.e.k \in {"VK", "VKNUM", "VTRUE"} -> X(d.fs, [d.e EXCEPT !.k = "VFALSE"])
             [] d.e.k = "VJMP" -> X(invertjump(d.fs, d.e), d.e)
             [] OTHER -> Relocable(a, luaK_codeABC(freeexp(a.fs, a.e), "NOT", 0, a.e.info, 0))
  IN  X(removevalues(removevalues(n.fs, n.e.t), n.e.f),
        [n.e EXCEPT !.t = n.e.f, !.f = n.e.t])

-----------------------------------------------------------------------------
(* Operators.                                                              *)
Folds(op, e1, e2) ==
  /\ isnumeral(e1) /\ isnumeral(e2)
  /\ op # "LEN"
  /\ op \in {"DIV", "MOD"} => e2.nval # Num(0)
  /\ NumOp(op, e1.nval, e2.nval) # NaN

codearith(fs, op, e1, e2) ==
  LET o1 == luaK_exp2RK(X(fs, e1))
      o2 == IF op \in {"UNM", "LEN"} THEN [fs |-> o1.fs, e |-> e2, r |-> 0]
            ELSE luaK_exp2RK(X(o1.fs, e2))
  IN  IF Folds(op, e1, e2) THEN X(fs, [e1 EXCEPT !.nval = NumOp(op, e1.nval, e2.nval)])
      ELSE Relocable(o1, luaK_codeABC(freeexp(freeexp(o2.fs, o2.e), o1.e),
                                      op, 0, o1.r, o2.r))

(* > and >= swap the operands of < and <=.                                 *)
codecomp(fs, op, cond, e1, e2) ==
  LET o1 == luaK_exp2RK(X(fs, e1))
      o2 == luaK_exp2RK(X(o1.fs, e2))
      swap == cond = 0 /\ op # "EQ"
      j == condjump(freeexp(freeexp(o2.fs, o2.e), o1.e), op, IF swap THEN 1 ELSE cond,
                    IF swap THEN o2.r ELSE o1.r, IF swap THEN o1.r ELSE o2.r)
  IN  X(j.fs, [o1.e EXCEPT !.info = j.r, !.k = "VJMP"])

luaK_prefix(op, x) ==
  LET e2 == [Exp("VKNUM", 0) EXCEPT !.nval = Num(0)]
      a == IF op = "LEN" \/ x.e.k = "VK" THEN luaK_exp2anyreg(x) ELSE x
  IN  IF op = "NOT" THEN codenot(x) ELSE codearith(a.fs, op, a.e, e2)

luaK_infix(op, x) ==
  LET rk == luaK_exp2RK(x) IN
  CASE op = "AND" -> luaK_goiftrue(x)
    [] op = "OR" -> luaK_goiffalse(x)
    [] op = "CONCAT" -> luaK_exp2nextreg(x)
    [] OTHER -> IF isnumeral(x.e) THEN x ELSE X(rk.fs, rk.e)

(* a .. (b .. c) is one CONCAT of adjacent registers.                      *)
PosfixConcat(fs, e1, e2) ==
  LET v == luaK_exp2val(X(fs, e2))
      i == getcode(v.fs, v.e.info)
      n == luaK_exp2nextreg(v)
  IN  IF v.e.k = "VRELOCABLE" /\ i.op = "CONCAT"
      THEN X(SETARG_B(freeexp(Asserted(v.fs, e1.info = i.b - 1, "OPR_CONCAT"), e1),
                      v.e.info, e1.info),
             [e1 EXCEPT !.k = "VRELOCABLE", !.info = v.e.info])
      ELSE codearith(n.fs, "CONCAT", e1, n.e)

luaK_posfix(op, fs, e1, e2) ==
  LET d == luaK_dischargevars(X(fs, e2))
      and == luaK_concat(d.fs, d.e.f, e1.f)
      or == luaK_concat(d.fs, d.e.t, e1.t)
  IN  CASE op = "AND" -> X(Asserted(and.fs, e1.t = NO_JUMP, "OPR_AND"), [d.e EXCEPT !.f = and.r])
        [] op = "OR" -> X(Asserted(or.fs, e1.f = NO_JUMP, "OPR_OR"), [d.e EXCEPT !.t = or.r])
        [] op = "CONCAT" -> PosfixConcat(fs, e1, e2)
        [] op \in Arithmetic -> codearith(fs, op, e1, e2)
        [] op \in {"EQ", "LT", "LE"} -> codecomp(fs, op, 1, e1, e2)
        [] op = "NE" -> codecomp(fs, "EQ", 0, e1, e2)
        [] op = "GT" -> codecomp(fs, "LT", 0, e1, e2)
        [] op = "GE" -> codecomp(fs, "LE", 0, e1, e2)
=============================================================================
