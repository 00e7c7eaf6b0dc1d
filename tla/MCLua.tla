-------------------------------- MODULE MCLua --------------------------------
(* Programs, arguments and limits for model checking the Lua compiler.      *)
EXTENDS LuaSemantics

(* Syntax.                                                                 *)
Nl == [x |-> "nil"]
Tr == [x |-> "true"]
Fa == [x |-> "false"]
Dots == [x |-> "dots"]
N(v) == [x |-> "num", v |-> v]
Sx(s) == [x |-> "str", n |-> s]
Va(n) == [x |-> "var", n |-> n]
Ix(o, k) == [x |-> "index", o |-> o, key |-> k]
Ca(f, args) == [x |-> "call", o |-> f, args |-> args]
Me(o, n, args) == [x |-> "method", o |-> o, n |-> n, args |-> args]
Pa(e) == [x |-> "paren", o |-> e]
Un(op, a) == [x |-> "un", op |-> op, a |-> a]
Bi(op, a, b) == [x |-> "bin", op |-> op, a |-> a, b |-> b]
Fn(pars, va, b) == [x |-> "function", pars |-> pars, va |-> va, body |-> b]
Tb(items) == [x |-> "table", items |-> items]
It(v) == [rec |-> FALSE, val |-> v]
Re(k, v) == [rec |-> TRUE, key |-> k, val |-> v]

Local(names, exps) == [s |-> "local", names |-> names, exps |-> exps]
Set(targets, exps) == [s |-> "expr", targets |-> targets, exps |-> exps]
Do(e) == [s |-> "expr", targets |-> <<e>>, exps |-> <<>>]
Block(b) == [s |-> "do", body |-> b]
While(c, b) == [s |-> "while", cond |-> c, body |-> b]
Repeat(b, c) == [s |-> "repeat", body |-> b, cond |-> c]
If(c, b) == [cond |-> c, body |-> b]
Ifs(clauses, els) == [s |-> "if", clauses |-> clauses, els |-> els]
For(n, exps, b) == [s |-> "fornum", names |-> <<n>>, exps |-> exps, body |-> b]
ForIn(names, exps, b) == [s |-> "forlist", names |-> names, exps |-> exps, body |-> b]
Func(t, needself, f) == [s |-> "function", targets |-> <<t>>, needself |-> needself, f |-> f]
LocalF(n, f) == [s |-> "localfunction", names |-> <<n>>, f |-> f]
Ret(exps) == [s |-> "return", exps |-> exps]
Brk == [s |-> "break"]

Ab == Local(<<"a", "b">>, <<Dots>>)
Echo(args) == Ca(Va("echo"), args)

Two == Ca(Va("two"), <<>>)
Bump(x) == Set(<<Va(x)>>, <<Bi("ADD", Va(x), N(1))>>)
T(k) == Ix(Va("t"), k)

(* Logical expressions, where they are stored, tested and returned.         *)
Conds == {Va("a"), Va("g"), Nl, Tr, Fa, N(1), Bi("EQ", Va("a"), Va("b")), Bi("GE", Va("b"), N(2)),
          Un("NOT", Va("a")), Echo(<<Va("b")>>)}
Few == {Va("a"), Nl, Fa, Bi("NE", Va("a"), Va("b"))}
Least == {Va("a"), Fa, Tr}
Logic(A, B) == {Bi(op, l, r) : op \in {"AND", "OR"}, l \in A, r \in B}
Depth2 == Logic(Conds, Conds) \union {Un("NOT", e) : e \in Logic(Conds, Few)}
Depth3 == Logic(Few, Logic(Few, Few)) \union Logic(Logic(Few, Few), Few)

(* (e op c) op2 d, where c is a constant that decides op2, loses the value  *)
(* of a jump held over it (luaK_jump under luaK_goiftrue): left out.        *)
HeldJump(e) == e.a.b = IF e.op = "AND" THEN Fa ELSE Tr
Depth4 == {e \in Logic(Logic(Logic(Least, Least), Least), Least) : ~HeldJump(e)}

Stored(e) == <<Ab, Local(<<"c">>, <<e>>), Ret(<<Va("c"), Va("a")>>)>>
Assigned(e) == <<Ab, Set(<<Va("a")>>, <<e>>), Set(<<Va("g")>>, <<e>>), Ret(<<Va("a")>>)>>
Returned(e) == <<Ab, Ret(<<e>>)>>
Tested(e) == <<Ab, Ifs(<<If(e, <<Do(Echo(<<N(1)>>))>>)>>, <<<<Do(Echo(<<N(2)>>))>>>>)>>
Logical == {Stored(e) : e \in Depth2 \union Depth3} \union {Tested(e) : e \in Depth2 \union Depth3}
           \union {Assigned(e) : e \in Depth2} \union {Returned(e) : e \in Depth2 \union Depth4}

(* Arithmetic, comparison and concatenation, constants folded or not.       *)
Opnds == {Va("a"), Va("g"), N(2), N(0), Sx("1"), Sx("a")}
Sums == {Bi(op, l, r) : op \in {"ADD", "SUB", "MUL", "MOD"}, l \in Opnds, r \in Opnds}
Orders == {Bi(op, l, r) : op \in {"EQ", "NE", "LT", "LE", "GT", "GE"}, l \in Opnds, r \in {Va("b"), N(2), Sx("a")}}
Chains == {Bi("CONCAT", l, Bi("CONCAT", m, r)) :
             l \in {Va("a"), Sx("a")}, m \in {N(1), Un("NOT", Va("a")), Sx("b")}, r \in {Va("b"), N(2)}}
Others == {Bi("DIV", N(0), N(0)), Bi("DIV", N(4), N(2)), Bi("POW", N(2), N(3)), Bi("POW", Va("b"), N(2)),
           Un("UNM", Va("a")), Un("UNM", Bi("ADD", N(1), N(2))), Un("UNM", Sx("2")), Un("LEN", Sx("ab")),
           Un("LEN", Va("b")), Bi("ADD", Bi("MUL", Va("b"), N(2)), Bi("SUB", N(7), Va("b"))),
           Bi("LT", Bi("ADD", Va("b"), N(1)), Bi("MUL", N(2), N(3))),
           Bi("CONCAT", Bi("ADD", Va("b"), N(1)), Sx("a")), Pa(Two), Bi("ADD", Two, Two)}
Operators == {Stored(e) : e \in Sums \union Orders \union Chains \union Others}

(* Assignments of several values to several places.                        *)
Places == {Va("a"), Va("b"), Va("g"), T(Va("b")), T(N(1)), Ix(T(N(2)), Va("a"))}
Values == {Va("b"), Two, N(9)}
ExpLists == {<<e>> : e \in Values} \union {<<e, f>> : e \in Values, f \in Values}
            \union {<<e, f, Two>> : e \in Values, f \in Values}
Assignments ==
  {<<Ab, Local(<<"t">>, <<Tb(<<It(N(3)), It(Tb(<<>>))>>)>>), Set(<<v, w>>, es), Ret(<<Va("a"), Va("b")>>)>> :
     v \in Places, w \in Places, es \in ExpLists}
  \union {<<Ab, Local(<<"t">>, <<Tb(<<>>)>>), Set(<<T(Va("a")), Va("t"), Va("a")>>, es), Ret(<<Va("t"), Va("a")>>)>> :
     es \in ExpLists}

(* Constructors, with more items than one flush takes.                     *)
Items == {It(N(4)), Re(Sx("k"), Va("a")), It(Two)}
Constructors ==
  {<<Ab, Ret(<<Tb(items), Tb(<<Re(Va("b"), Dots), It(Dots)>>)>>)>> :
     items \in UNION {[1 .. n -> Items] : n \in {0, 1, 2, 3, 5}}}

(* Loops: what they do with closures over their variables, with breaks and  *)
(* with nesting.  n counts the turns.                                       *)
Capture(x) == Set(<<T(Bi("ADD", Un("LEN", Va("t")), N(1)))>>,
                  <<Fn(<<>>, "none", <<Bump(x), Ret(<<Va(x)>>)>>)>>)
BreakIf(c) == Ifs(<<If(c, <<Brk>>)>>, <<>>)
Pieces == {<<Local(<<"x">>, <<Va("n")>>), Capture("x")>>,
           <<Local(<<"y">>, <<>>), Do(Echo(<<Va("y"), Va("n")>>)), Set(<<Va("y")>>, <<N(5)>>)>>,
           <<BreakIf(Bi("EQ", Va("n"), Va("b")))>>,
           <<Block(<<Local(<<"x">>, <<N(10)>>), Capture("x"), BreakIf(Va("a"))>>)>>,
           <<For("i", <<Va("n"), N(1), N(-1)>>, <<Capture("i")>>)>>}
Bodies == {u \o v : u \in Pieces, v \in Pieces}
Loops(b) ==
  {While(Bi("LT", Va("n"), N(3)), <<Bump("n")>> \o b),
   Repeat(<<Bump("n")>> \o b \o <<Local(<<"z">>, <<Bi("GE", Va("n"), N(3))>>)>>, Va("z")),
   Repeat(<<Bump("n"), Local(<<"z">>, <<Va("n")>>), Capture("z")>> \o b, Bi("GE", Va("z"), N(3))),
   For("m", <<N(1), N(3)>>, <<Set(<<Va("n")>>, <<Va("m")>>), Capture("m")>> \o b),
   ForIn(<<"m">>, <<Va("iter"), N(3)>>, <<Set(<<Va("n")>>, <<Va("m")>>), Capture("m")>> \o b)}
Looping ==
  {<<Ab, Local(<<"t", "n">>, <<Tb(<<>>), N(0)>>), l,
     For("i", <<N(1), Un("LEN", Va("t"))>>,
         <<Do(Echo(<<Va("i"), Ca(T(Va("i")), <<>>), Ca(T(Va("i")), <<>>)>>))>>),
     Ret(<<Va("n")>>)>> : l \in UNION {Loops(b) : b \in Bodies}}

(* Functions.                                                              *)
FnBodies == {<<Ret(<<Va("p"), Va("q")>>)>>, <<Ret(<<Ca(Va("echo"), <<Va("q"), Two>>)>>)>>,
             <<Ret(<<Two, Two>>)>>, <<Ret(<<Fn(<<>>, "none", <<Bump("p"), Ret(<<Va("p")>>)>>)>>)>>,
             <<Local(<<"r">>, <<>>), Set(<<Va("r"), Va("p")>>, <<Va("p")>>), Ret(<<Va("r"), Va("p")>>)>>,
             <<Set(<<Va("a")>>, <<Va("q")>>)>>, <<Ret(<<>>)>>}
Uses == {<<Ret(<<Ca(Va("f"), <<Va("a"), Va("b"), N(3)>>)>>)>>,
         <<Local(<<"u", "v", "w">>, <<Ca(Va("f"), <<Two>>)>>), Ret(<<Va("u"), Va("v"), Va("w"), Va("a")>>)>>,
         <<Do(Ca(Va("f"), <<>>)), Ret(<<Tb(<<It(Ca(Va("f"), <<N(1)>>)), It(Ca(Va("f"), <<Two>>))>>), Va("a")>>)>>,
         <<Local(<<"c">>, <<Ca(Va("f"), <<N(1)>>)>>), Do(Ca(Va("c"), <<>>)), Ret(<<Ca(Va("c"), <<>>)>>)>>}
Vararg == {<<Ret(<<Dots>>)>>, <<Ret(<<Va("q"), Dots>>)>>, <<Local(<<"r", "s">>, <<Dots>>), Ret(<<Va("s"), Va("arg")>>)>>,
           <<Ret(<<Pa(Dots)>>)>>}
Declared(f) == {LocalF("f", f), Func(Va("f"), FALSE, f), Local(<<"f">>, <<f>>)}
Functional ==
  {<<Ab, d>> \o u : u \in Uses,
     d \in UNION {Declared(Fn(<<"p", "q">>, "none", b)) : b \in FnBodies}
           \union UNION {Declared(Fn(<<"p", "q">>, "dots", b)) : b \in Vararg}
           \union {LocalF("f", Fn(<<"p">>, "arg", <<Ret(<<Ix(Va("arg"), Sx("n")), Ix(Va("arg"), N(2)), Va("p")>>)>>))}}
  \union
  {<<Ab, Local(<<"t">>, <<Tb(<<Re(Sx("k"), N(1))>>)>>),
     Func(T(Sx("m")), TRUE, Fn(<<"d">>, "none", <<Set(<<Ix(Va("self"), Sx("k"))>>,
            <<Bi("ADD", Ix(Va("self"), Sx("k")), Va("d"))>>), Ret(<<Va("self")>>)>>)),
     Ret(<<Ix(Me(Me(Va("t"), "m", <<N(2)>>), "m", <<e>>), Sx("k")), Ca(e, <<>>)>>)>> : e \in {Va("b"), N(3)}}
  \union
  {<<Ab, LocalF("down", Fn(<<"k", "acc">>, "none",
        <<Ifs(<<If(Bi("EQ", Va("k"), N(0)), <<Ret(<<Va("acc")>>)>>),
                If(Bi("LT", Va("k"), N(0)), <<Local(<<"z">>, <<Nl>>), Ret(<<Va("z"), Va("k")>>)>>)>>, <<>>),
          Ret(<<Ca(Va("down"), <<Bi("SUB", Va("k"), N(1)), Bi("ADD", Va("acc"), Va("k"))>>)>>)>>)),
     Ret(<<Ca(Va("down"), <<k, N(0)>>)>>)>> : k \in {N(3), Un("UNM", N(1)), Va("a")}}
  \union {<<Ab, Brk>>, <<Func(Va("h"), FALSE, Fn(<<>>, "none", <<Ret(<<Dots>>)>>))>>,
          <<ForIn(<<"u", "v">>, <<Fn(<<"s", "c">>, "none",
               <<Ifs(<<If(Bi("EQ", Va("c"), Nl), <<Ret(<<N(1), N(2)>>)>>)>>, <<<<Ret(<<>>)>>>>)>>)>>,
               <<Do(Echo(<<Va("u"), Va("v")>>))>>)>>}

Progs == Logical \union Operators \union Assignments \union Constructors \union Looping \union Functional

Args == {<<Num(1), Num(2)>>, <<NilVal, Bool(FALSE)>>, <<Bool(FALSE), Num(2)>>}

(* The parser and the meaning of programs, for the constants.              *)
Parser(b) == LET f == luaY_parser(b) IN f
Reference(b, args) == LET m == Meaning(b, args) IN m
=============================================================================
