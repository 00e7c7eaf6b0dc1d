-------------------------------- MODULE LuaGC --------------------------------
(***************************************************************************)
(* The garbage collector of the Lua interpreter (lgc.c, with the parts of   *)
(* lstring.c, lfunc.c, lstate.c and lapi.c that allocate, link and write).  *)
(*                                                                         *)
(* One collection is many single steps between which the program runs: it   *)
(* marks from the roots (GCSpropagate), finishes atomically, sweeps the     *)
(* string table and the list of objects, and calls finalizers.  The program *)
(* keeps the marks right through write barriers.  g is the global_State; a  *)
(* failing lua_assert and a use of freed memory are recorded in g.bad.      *)
(*                                                                         *)
(* An object has at most two references.  A table holds one entry; weak     *)
(* tables have a type of their own instead of a __mode in a metatable.  An  *)
(* address is given to another object once it is free.                      *)
(***************************************************************************)
EXTENDS Integers, Sequences, FiniteSets, Functions

CONSTANTS Addresses,  \* addresses of the objects the program makes
          Mixes,      \* bounds: objects of each type alive at once, values on the
                      \* stack and operations of the program
          GCSWEEPMAX  \* objects one step sweeps

ASSUME GCAssumption ==
         /\ Addresses \subseteq Nat \ {0} /\ IsFiniteSet(Addresses)
         /\ \A m \in Mixes : m.ops \in Nat /\ m.stack \in Nat
         /\ GCSWEEPMAX \in Nat \ {0}

VARIABLES
  g,        \* the global_State
  stack,    \* the main thread's stack, up to top
  mix,      \* the bounds of this program
  ops,      \* operations of the program so far
  full,     \* what the running C code is in the middle of: "no", the "sweep"
            \* or "mark" stage of a full collection, or "close" (lua_close)
  frames,   \* the finalizers being called: each one's base in the stack, and
            \* what it interrupts
  closed    \* lua_close ran

gcVars == <<g, stack, mix, ops, full, frames, closed>>

Null == -1
Globals == 0     \* the table of globals, which the main thread refers to
Tables == {"table", "weakk", "weakv"}

Whites == {"white0", "white1"}
Other(w) == IF w = "white0" THEN "white1" ELSE "white0"
otherwhite(h) == Other(h.currentwhite)
Mark(h, o) == h.obj[o].mark
iswhite(h, o) == Mark(h, o) \in Whites
isblack(h, o) == Mark(h, o) = "black"
isgray(h, o) == Mark(h, o) = "gray"
isdead(h, o) == Mark(h, o) = otherwhite(h)
Paint(h, o, c) == [h EXCEPT !.obj[o].mark = c]
makewhite(h, o) == Paint(h, o, h.currentwhite)

(* The members of a list that are in S, in their order. *)
Members(list, S) ==
  LET upto[n \in 0 .. Len(list)] ==
        IF n = 0 THEN <<>>
        ELSE IF list[n] \in S THEN Append(upto[n - 1], list[n]) ELSE upto[n - 1]
  IN  upto[Len(list)]

Allocated(h, o) == o \in DOMAIN h.obj
Asserted(h, p, where) == IF p THEN h ELSE [h EXCEPT !.bad = @ \union {where}]
isstring(h, o) == h.obj[o].tt = "string"

-----------------------------------------------------------------------------
(* Marking.  MAIN, the main thread, is not an object of obj: its color and  *)
(* its place in the lists are main and the lists' own.                      *)
MAIN == -2

(* An upvalue's value: in the stack while it is open.                       *)
ValueOf(u) == IF u.at > 0 THEN stack[u.at] ELSE u.val

Link(h, o) == [Paint(h, o, "gray") EXCEPT !.gray = <<o>> \o @]

(* What is done to the object that o refers to is Into: the C functions     *)
(* call each other, no deeper than from an upvalue to a udata to its table. *)
MarkInto(h, o, Into(_, _)) ==
  IF o = Null THEN h
  ELSE IF ~Allocated(h, o) THEN Asserted(h, FALSE, "freed object marked")
  ELSE IF iswhite(h, o) THEN Into(h, o) ELSE h

Marked(h, o, Into(_, _)) ==
  CASE h.obj[o].tt = "string" -> Paint(h, o, "gray")
    [] h.obj[o].tt = "udata" -> MarkInto(Paint(h, o, "black"), h.obj[o].key, Into)
    [] h.obj[o].tt = "upval" ->
         Paint(MarkInto(Paint(h, o, "gray"), ValueOf(h.obj[o]), Into),
               o, IF h.obj[o].at > 0 THEN "gray" ELSE "black")
    [] OTHER -> Link(h, o)

Living(h, o) == Asserted(h, iswhite(h, o) /\ ~isdead(h, o), "reallymarkobject")
MarkTable(h, o) == Link(Living(h, o), o)
MarkUdata(h, o) == Marked(Living(h, o), o, MarkTable)
reallymarkobject(h, o) == Marked(Living(h, o), o, MarkUdata)
markobject(h, o) == MarkInto(h, o, reallymarkobject)

(* after[n] is the state after n rounds of a loop. *)
marktmu(h) ==
  LET list == h.tmudata
      after[n \in 0 .. Len(list)] ==
        IF n = 0 THEN h
        ELSE reallymarkobject(makewhite(after[n - 1], list[n]), list[n])
  IN  after[Len(list)]

(* A weak table goes to the weak list and stays gray.  Empty entries lose   *)
(* their key.                                                               *)
traversetable(h, o) ==
  LET r == h.obj[o]
      weak == r.tt # "table"
      listed == IF weak THEN [h EXCEPT !.weak = <<o>> \o @] ELSE h
      keyed == IF r.tt # "weakk" THEN markobject(listed, r.key) ELSE listed
      valued == IF r.tt # "weakv" THEN markobject(keyed, r.val) ELSE keyed
  IN  Paint(IF r.val = Null THEN [listed EXCEPT !.obj[o].key = Null] ELSE valued,
            o, IF weak THEN "gray" ELSE "black")

traverseclosure(h, o) ==
  markobject(markobject(Paint(h, o, "black"), Globals), h.obj[o].key)

traversestack(h) ==
  LET after[n \in 0 .. Len(stack)] ==
        IF n = 0 THEN markobject(h, Globals) ELSE markobject(after[n - 1], stack[n])
  IN  after[Len(stack)]

(* One gray object turns black; the thread stays gray, for the atomic step. *)
propagatemark(h0) ==
  LET o == Head(h0.gray)
      h == [h0 EXCEPT !.gray = Tail(@)]
      again == [h EXCEPT !.grayagain = <<MAIN>> \o @]
  IN  IF o = MAIN THEN traversestack(again)
      ELSE IF ~Allocated(h, o) THEN Asserted(h, FALSE, "freed object propagated")
      ELSE LET a == Asserted(h, isgray(h, o), "propagatemark") IN
           IF h.obj[o].tt \in Tables THEN traversetable(a, o) ELSE traverseclosure(a, o)

(* An object turns gray once. *)
propagateall(h) ==
  LET rounds == Cardinality(Addresses) + 2
      after[n \in 0 .. rounds] ==
        IF n = 0 THEN h
        ELSE LET x == after[n - 1] IN IF x.gray = <<>> THEN x ELSE propagatemark(x)
  IN  after[rounds]

(* Dead udata with a gc method move to tmudata; each only once.             *)
(* Faulty: a udata is not noted as finalized. *)
luaC_separateudata_unnoted(h, all) ==
  LET due == {u \in Range(h.udata) : (iswhite(h, u) \/ all) /\ ~h.obj[u].fin}
      moved == {u \in due : h.obj[u].gc}
  IN  [h EXCEPT !.udata = Members(@, Range(@) \ moved),
                !.tmudata = @ \o Members(h.udata, moved)]
luaC_separateudata(h, all) ==
  LET due == {u \in Range(h.udata) : (iswhite(h, u) \/ all) /\ ~h.obj[u].fin}
      moved == {u \in due : h.obj[u].gc}
  IN  [h EXCEPT !.obj = [o \in DOMAIN @ |-> IF o \in due THEN [@[o] EXCEPT !.fin = TRUE]
                                                         ELSE @[o]],
                !.udata = Members(@, Range(@) \ moved),
                !.tmudata = @ \o Members(h.udata, moved)]

(* Strings are never cleared (they are marked instead); a finalized udata   *)
(* stays as a key and goes as a value.                                      *)
iscleared(h, o, iskey) ==
  o # Null /\ ~isstring(h, o)
  /\ (iswhite(h, o) \/ (h.obj[o].tt = "udata" /\ ~iskey /\ h.obj[o].fin))
MarkString(h, o) == IF o # Null /\ isstring(h, o) THEN Paint(h, o, "gray") ELSE h

cleartable(h, o) ==
  LET r == h.obj[o]
      k == MarkString(h, r.key)
      v == MarkString(k, r.val)
      cleared(x) == [x EXCEPT !.obj[o].key = Null, !.obj[o].val = Null]
  IN  IF r.val = Null THEN h
      ELSE IF ~Allocated(h, r.val) \/ (r.key # Null /\ ~Allocated(h, r.key))
      THEN Asserted(h, FALSE, "freed object in a weak table")
      ELSE IF iscleared(h, r.key, TRUE) THEN cleared(k)
      ELSE IF iscleared(k, r.val, FALSE) THEN cleared(v)
      ELSE v

cleartables(h) ==
  LET list == h.weak
      after[n \in 0 .. Len(list)] ==
        IF n = 0 THEN h ELSE cleartable(after[n - 1], list[n])
  IN  after[Len(list)]

-----------------------------------------------------------------------------
(* Sweeping.  The list of all objects is rootgc, the main thread, udata;    *)
(* sweepgc counts the ones still to sweep.                                  *)
(* missed notes a udata freed before its gc method was called.             *)
Freed(h, dead) ==
  [h EXCEPT !.obj = [o \in DOMAIN @ \ dead |-> @[o]],
            !.missed = @ \/ \E o \in dead : h.obj[o].gc /\ h.obj[o].calls = 0]
sweepwholelist(h, list) ==
  LET white == [h EXCEPT !.obj = [o \in DOMAIN @ |-> IF o \in list
                                  THEN [@[o] EXCEPT !.mark = h.currentwhite] ELSE @[o]]]
  IN  Freed(white, {o \in list : isdead(h, o)})

AllObjects(h) == h.rootgc \o <<MAIN>> \o h.udata
Relinked(h) ==
  [h EXCEPT !.rootgc = Members(@, DOMAIN h.obj), !.udata = Members(@, DOMAIN h.obj),
            !.openupval = Members(@, DOMAIN h.obj)]

(* The thread's open upvalues are swept with it; dead ones leave its list.  *)
sweeplist(h, count) ==
  LET n == IF count < h.sweepgc THEN count ELSE h.sweepgc
      all == AllObjects(h)
      from == Len(all) - h.sweepgc
      part == {all[k] : k \in (from + 1 .. from + n) \intersect DOMAIN all}
      thread == MAIN \in part
      swept == sweepwholelist(h, IF thread THEN (part \ {MAIN}) \union Range(h.openupval)
                                 ELSE part)
  IN  Relinked([swept EXCEPT !.sweepgc = @ - n,
                             !.main = IF thread THEN h.currentwhite ELSE @])

StringsIn(h, b) == {o \in DOMAIN h.obj : isstring(h, o) /\ h.obj[o].at % h.strsize = b}
SweepBucket(h, b) == sweepwholelist(h, StringsIn(h, b))
nuse(h) == Cardinality({o \in DOMAIN h.obj : isstring(h, o)})

(* The table of strings cannot be resized while it is swept.                *)
luaS_resize(h, newsize) ==
  IF h.gcstate = "sweepstring" THEN h ELSE [h EXCEPT !.strsize = newsize]

MINSTRTABSIZE == 1
checkSizes(h) ==
  IF nuse(h) < h.strsize \div 4 /\ h.strsize > MINSTRTABSIZE * 2
  THEN luaS_resize(h, h.strsize \div 2) ELSE h

-----------------------------------------------------------------------------
(* The phases.                                                             *)
markroot(h) ==
  LET reset == [h EXCEPT !.gray = IF h.main \in Whites THEN <<MAIN>> ELSE <<>>,
                         !.grayagain = <<>>, !.weak = <<>>, !.main = "gray"]
  IN  [markobject(reset, Globals) EXCEPT !.gcstate = "propagate"]

remarkupvals(h) ==
  LET list == h.openupval
      after[n \in 0 .. Len(list)] ==
        IF n = 0 THEN h
        ELSE LET x == after[n - 1] IN
             IF isgray(x, list[n]) THEN markobject(x, ValueOf(x.obj[list[n]])) ELSE x
  IN  after[Len(list)]

GrayWeak(h) ==
  [Asserted(h, h.main \notin Whites, "atomic") EXCEPT !.gray = h.weak, !.weak = <<>>]
GrayAgain(h) == [h EXCEPT !.gray = h.grayagain, !.grayagain = <<>>]
Flipped(h) ==
  [h EXCEPT !.currentwhite = otherwhite(h), !.sweepstrgc = 0,
            !.sweepgc = Len(AllObjects(h)), !.gcstate = "sweepstring"]
atomic(h) ==
  LET upvals == propagateall(remarkupvals(h))
      weak == propagateall(GrayWeak(upvals))
      again == propagateall(GrayAgain(weak))
      preserved == propagateall(marktmu(luaC_separateudata(again, FALSE)))
  IN  Flipped(cleartables(preserved))

(* The udata whose gc method is called next returns to the list, white.     *)
Returned(h) ==
  LET u == Head(h.tmudata)
  IN  [h EXCEPT !.tmudata = Tail(@), !.udata = <<u>> \o @,
                !.obj[u].mark = h.currentwhite, !.obj[u].calls = @ + 1]

barrierback(h, t) ==
  LET a == Asserted(h, ~isdead(h, t) /\ h.gcstate \notin {"finalize", "pause"},
                    "luaC_barrierback")
  IN  [Paint(a, t, "gray") EXCEPT !.grayagain = <<t>> \o @]
luaC_barriert(h, t, v) ==
  IF v # Null /\ iswhite(h, v) /\ isblack(h, t) THEN barrierback(h, t) ELSE h

(* Its second assertion, that the collector is marking or sweeping, has a   *)
(* name of its own.                                                         *)
luaC_barrierf(h, o, v) ==
  LET live == Asserted(h, ~isdead(h, v) /\ ~isdead(h, o), "luaC_barrierf")
      a == Asserted(live, h.gcstate \notin {"finalize", "pause"}, "luaC_barrierf phase")
  IN  IF h.gcstate = "propagate" THEN reallymarkobject(a, v) ELSE makewhite(a, o)
luaC_barrier(h, o, v) ==
  IF v # Null /\ iswhite(h, v) /\ isblack(h, o) THEN luaC_barrierf(h, o, v) ELSE h

SetVal(h, t, v) == luaC_barriert([h EXCEPT !.obj[t].val = v], t, v)

(* Faulty: the sweep of the string table ends one list early. *)
SweepStringShort(h) ==
  LET s == SweepBucket(h, h.sweepstrgc) IN
  [s EXCEPT !.sweepstrgc = @ + 1,
            !.gcstate = IF h.sweepstrgc + 2 >= h.strsize THEN "sweep" ELSE @]
SweepString(h) ==
  LET s == SweepBucket(h, h.sweepstrgc) IN
  [s EXCEPT !.sweepstrgc = @ + 1,
            !.gcstate = IF h.sweepstrgc + 1 >= h.strsize THEN "sweep" ELSE @]
Sweep(h) ==
  LET s == sweeplist(h, GCSWEEPMAX) IN
  IF s.sweepgc = 0 THEN checkSizes([s EXCEPT !.gcstate = "finalize"]) ELSE s

(* singlestep, but for the call of a finalizer.                             *)
singlestep(h) ==
  CASE h.gcstate = "pause" -> markroot(h)
    [] h.gcstate = "propagate" -> IF h.gray # <<>> THEN propagatemark(h) ELSE atomic(h)
    [] h.gcstate = "sweepstring" -> SweepString(h)
    [] h.gcstate = "sweep" -> Sweep(h)
    [] h.gcstate = "finalize" -> [h EXCEPT !.gcstate = "pause"]

-----------------------------------------------------------------------------
(* The program's side: allocation and linking.                             *)
sweeping(h) == h.gcstate \in {"sweepstring", "sweep"}
Alive(h, tt) == {o \in DOMAIN h.obj \ {Globals} : h.obj[o].tt = tt}
CanMake(h, tt) ==
  /\ tt \in DOMAIN mix /\ Cardinality(Alive(h, tt)) < mix[tt]
  /\ Addresses \ DOMAIN h.obj # {}
NewAddress(h) ==
  CHOOSE a \in Addresses \ DOMAIN h.obj :
    \A b \in Addresses \ DOMAIN h.obj : a <= b
Object(h, tt) == [tt |-> tt, mark |-> h.currentwhite, fin |-> FALSE, gc |-> FALSE,
                  key |-> Null, val |-> Null, at |-> 0, calls |-> 0, late |-> FALSE]
Placed(h, o, r) ==
  [h EXCEPT !.obj = [x \in DOMAIN @ \union {o} |-> IF x = o THEN r ELSE @[x]]]

(* At the head of the list: swept only if the sweep has not begun.          *)
luaC_link(h, o) ==
  [h EXCEPT !.rootgc = <<o>> \o @,
            !.sweepgc = IF sweeping(h) /\ @ = Len(AllObjects(h)) THEN @ + 1 ELSE @]

luaH_new(h, tt) == luaC_link(Placed(h, NewAddress(h), Object(h, tt)), NewAddress(h))

(* lua_close has begun; a finalizer it called may be running.              *)
Closing == full = "close" \/ \E k \in DOMAIN frames : frames[k].full = "close"

(* Udata are linked after the main thread; late notes the ones made so late *)
(* that lua_close has already gathered those to finalize.                   *)
luaS_newudata(h, gc) ==
  LET o == NewAddress(h)
  IN  [Placed(h, o, [Object(h, "udata") EXCEPT !.gc = gc, !.key = Globals, !.late = Closing])
         EXCEPT !.udata = <<o>> \o @,
                !.sweepgc = IF sweeping(h) /\ @ >= Len(h.udata) THEN @ + 1 ELSE @]

(* A string that is in the table is used again, dead or not.               *)
newlstr(h, s) ==
  LET made == Placed(h, NewAddress(h), [Object(h, "string") EXCEPT !.at = s])
  IN  IF nuse(made) > made.strsize THEN luaS_resize(made, made.strsize * 2) ELSE made
(* Faulty: a dead string or upvalue is handed out as it is. *)
ResurrectedNot(h, o) == h
Resurrected(h, o) == IF isdead(h, o) THEN Paint(h, o, h.currentwhite) ELSE h

luaF_findupval(h, level) ==
  LET found == {u \in Range(h.openupval) : h.obj[u].at = level}
      u == CHOOSE x \in found : TRUE
      new == NewAddress(h)
      above == Cardinality({k \in DOMAIN h.openupval : h.obj[h.openupval[k]].at > level})
  IN  IF found # {} THEN [h |-> Resurrected(h, u), u |-> u]
      ELSE [h |-> [Placed(h, new, [Object(h, "upval") EXCEPT !.at = level])
                     EXCEPT !.openupval = SubSeq(@, 1, above) \o <<new>>
                                            \o SubSeq(@, above + 1, Len(@))],
            u |-> new]

(* Faulty: a closed upvalue turns black without a barrier. *)
luaC_linkupval_unbarred(h, u) ==
  LET linked == luaC_link(h, u) IN
  IF ~isgray(h, u) THEN linked
  ELSE IF h.gcstate = "propagate" THEN Paint(linked, u, "black") ELSE makewhite(linked, u)
luaC_linkupval(h, u) ==
  LET linked == luaC_link(h, u)
      v == h.obj[u].val
  IN  IF ~isgray(h, u) THEN linked
      ELSE IF h.gcstate = "propagate" THEN luaC_barrier(Paint(linked, u, "black"), u, v)
      ELSE makewhite(Asserted(linked, h.gcstate \notin {"finalize", "pause"},
                              "luaC_linkupval"), u)

CloseOne(h0, u) ==
  LET h == Asserted([h0 EXCEPT !.openupval = Tail(@)], ~isblack(h0, u), "luaF_close")
  IN  IF isdead(h, u) THEN Freed(h, {u})
      ELSE luaC_linkupval([h EXCEPT !.obj[u].val = ValueOf(h.obj[u]), !.obj[u].at = 0], u)
CloseTop(h, level) ==
  IF h.openupval # <<>> /\ h.obj[Head(h.openupval)].at >= level
  THEN CloseOne(h, Head(h.openupval)) ELSE h
luaF_close(h, level) ==
  LET after[n \in 0 .. Len(h.openupval)] ==
        IF n = 0 THEN h ELSE CloseTop(after[n - 1], level)
  IN  after[Len(h.openupval)]

-----------------------------------------------------------------------------
(* The program's operations, each on values the program can name.  A        *)
(* finalizer is a part of the program: it runs the same operations, on the  *)
(* stack above its base.                                                    *)
Base == IF frames = <<>> THEN 0 ELSE frames[Len(frames)].base
Locals == {stack[k] : k \in Base + 1 .. Len(stack)}
Operation ==
  /\ ~closed /\ full = "no" /\ ops < mix.ops
  /\ ops' = ops + 1 /\ UNCHANGED <<mix, frames, closed>>
Operate == Operation /\ UNCHANGED full
Become(h) == g' = h
Push(v) == Len(stack) < mix.stack + Len(frames) /\ stack' = Append(stack, v)
Named == IF closed THEN {} ELSE (Locals \ {Null}) \union {Globals}
NamedOf(tts) == {o \in Named : g.obj[o].tt \in tts}

NewTable ==
  \E tt \in Tables :
    /\ Operate
    /\ CanMake(g, tt)
    /\ Push(NewAddress(g))
    /\ Become(luaH_new(g, tt))

NewUdata ==
  \E gc \in BOOLEAN :
    /\ Operate
    /\ CanMake(g, "udata")
    /\ Push(NewAddress(g))
    /\ Become(luaS_newudata(g, gc))

(* A string is its hash value.                                             *)
NewString ==
  \E s \in IF "string" \in DOMAIN mix THEN 0 .. mix.string - 1 ELSE {} :
    LET have == {o \in Alive(g, "string") : g.obj[o].at = s} IN
    /\ Operate
    /\ IF have # {}
       THEN \E o \in have : Push(o) /\ Become(Resurrected(g, o))
       ELSE CanMake(g, "string") /\ Push(NewAddress(g)) /\ Become(newlstr(g, s))

(* OP_CLOSURE over one local variable.                                     *)
NewClosure ==
  \E level \in Base + 1 .. Len(stack) :
    LET c == NewAddress(g)
        made == luaC_link(Placed(g, c, Object(g, "closure")), c)
        f == luaF_findupval(made, level)
    IN
    /\ Operate
    /\ CanMake(g, "closure")
    /\ (\E u \in Range(g.openupval) : g.obj[u].at = level) \/ CanMake(made, "upval")
    /\ Push(c)
    /\ Become([f.h EXCEPT !.obj[c].key = f.u])

(* What an object the program names refers to: a field, an upvalue (of the  *)
(* function called), an environment.                                       *)
Fetch ==
  \E o \in Named :
    LET r == g.obj[o] IN
    /\ Operate
    /\ \E v \in CASE r.tt \in Tables -> IF r.val = Null THEN {} ELSE {r.key, r.val}
                  [] r.tt = "closure" -> {ValueOf(g.obj[r.key])}
                  [] r.tt = "udata" -> {r.key}
                  [] OTHER -> {} : v # Null /\ Push(v)
    /\ UNCHANGED g

(* OP_SETTABLE, with luaC_barriert on the key newkey adds and the value.   *)
SetTable ==
  \E t \in NamedOf(Tables), v \in Locals \union {Null} :
    \E k \in IF g.obj[t].tt = "weakk" THEN Locals \ {Null} ELSE {Null} :
      /\ Operate
      /\ Become(SetVal(luaC_barriert([g EXCEPT !.obj[t].key = k], t, k), t, v))
      /\ UNCHANGED stack

SetUpval ==
  \E c \in NamedOf({"closure"}), v \in Locals :
    LET u == g.obj[c].key IN
    /\ Operate
    /\ IF g.obj[u].at > 0 THEN stack' = [stack EXCEPT ![g.obj[u].at] = v] /\ UNCHANGED g
       ELSE Become(luaC_barrier([g EXCEPT !.obj[u].val = v], u, v)) /\ UNCHANGED stack

SetEnv ==
  \E u \in NamedOf({"udata"}), t \in NamedOf(Tables) :
    /\ Operate
    /\ Become(luaC_barrier([g EXCEPT !.obj[u].key = t], u, t))
    /\ UNCHANGED stack

(* A block or function ends.                                               *)
Leave ==
  /\ Operate
  /\ Len(stack) > Base
  /\ Become(luaF_close(g, Len(stack)))
  /\ stack' = SubSeq(stack, 1, Len(stack) - 1)

(* luaC_fullgc: marks so far are swept away, any pending sweep is finished, *)
(* then a whole collection runs before the program goes on.                 *)
FullGC ==
  /\ Operation /\ ~Closing
  /\ Become(IF g.gcstate \in {"pause", "propagate"}
            THEN [g EXCEPT !.sweepstrgc = 0, !.sweepgc = Len(AllObjects(g)),
                           !.gray = <<>>, !.grayagain = <<>>, !.weak = <<>>,
                           !.gcstate = "sweepstring"]
            ELSE g)
  /\ full' = "sweep"
  /\ UNCHANGED stack

FullMark ==
  /\ full = "sweep" /\ g.gcstate = "finalize"
  /\ Become(markroot(g))
  /\ full' = "mark"
  /\ UNCHANGED <<stack, mix, ops, frames, closed>>

(* A single step: of a full collection, or because luaC_checkGC found the   *)
(* threshold passed, whenever that is.  GCTM raises the threshold, and no   *)
(* finalizer of lua_close gets that far.                                    *)
CollectorStep ==
  /\ ~closed /\ ~Closing
  /\ ~(g.gcstate = "finalize" /\ (full = "sweep" \/ g.tmudata # <<>>))
  /\ Become(singlestep(g))
  /\ full' = IF full = "mark" /\ g'.gcstate = "pause" THEN "no" ELSE full
  /\ UNCHANGED <<stack, mix, ops, frames, closed>>

(* One finalizer is called with its udata, by a single step or by           *)
(* lua_close, and runs until FinalizerReturns.                              *)
GCTM ==
  /\ ~closed /\ g.tmudata # <<>>
  /\ full = "close" \/ (~Closing /\ full # "sweep" /\ g.gcstate = "finalize")
  /\ Become(Returned(g))
  /\ stack' = Append(stack, Head(g.tmudata))
  /\ frames' = Append(frames, [base |-> Len(stack), full |-> full])
  /\ full' = "no"
  /\ UNCHANGED <<mix, ops, closed>>

(* A full collection that finds a finalizer has left the collector paused   *)
(* is over.                                                                 *)
FinalizerReturns ==
  /\ full = "no" /\ frames # <<>>
  /\ LET caller == frames[Len(frames)].full IN
     full' = IF caller = "mark" /\ g.gcstate = "pause" THEN "no" ELSE caller
  /\ Become(luaF_close(g, Base + 1))
  /\ stack' = SubSeq(stack, 1, Base)
  /\ frames' = SubSeq(frames, 1, Len(frames) - 1)
  /\ UNCHANGED <<mix, ops, closed>>

(* lua_close gathers every udata with a gc method that was not called,      *)
(* calls those methods, and frees everything.                               *)
CloseBegins ==
  /\ ~closed /\ full = "no" /\ frames = <<>>
  /\ Become(luaC_separateudata(luaF_close(g, 1), TRUE))
  /\ stack' = <<>>
  /\ full' = "close"
  /\ UNCHANGED <<mix, ops, frames, closed>>

(* Udata made meanwhile are freed as they are.                              *)
luaC_freeall(h) ==
  LET all == Range(h.rootgc) \union Range(h.udata) \union Alive(h, "string") IN
  [Relinked(Freed(h, all)) EXCEPT
     !.missed = h.missed \/ \E o \in all : h.obj[o].gc /\ h.obj[o].calls = 0
                                              /\ ~h.obj[o].late]
CloseEnds ==
  /\ ~closed /\ full = "close" /\ g.tmudata = <<>>
  /\ Become([luaC_freeall(luaF_close(g, 1)) EXCEPT !.gray = <<>>, !.grayagain = <<>>,
                                                   !.weak = <<>>])
  /\ closed' = TRUE
  /\ UNCHANGED <<stack, mix, ops, full, frames>>

GCInit ==
  /\ g = [obj |-> [o \in {Globals} |->
                     [tt |-> "table", mark |-> "white0", fin |-> FALSE, gc |-> FALSE,
                      key |-> Null, val |-> Null, at |-> 0, calls |-> 0, late |-> FALSE]],
          rootgc |-> <<Globals>>, udata |-> <<>>, tmudata |-> <<>>, main |-> "white0",
          openupval |-> <<>>, gray |-> <<>>, grayagain |-> <<>>, weak |-> <<>>,
          gcstate |-> "pause", currentwhite |-> "white0", sweepgc |-> 0, sweepstrgc |-> 0,
          strsize |-> MINSTRTABSIZE, missed |-> FALSE, bad |-> {}]
  /\ stack = <<>>
  /\ mix \in Mixes
  /\ ops = 0
  /\ full = "no"
  /\ frames = <<>>
  /\ closed = FALSE

GCNext ==
  \/ NewTable \/ NewUdata \/ NewString \/ NewClosure \/ Fetch \/ SetTable
  \/ SetUpval \/ SetEnv \/ Leave \/ FullGC \/ FullMark \/ CollectorStep
  \/ GCTM \/ FinalizerReturns \/ CloseBegins \/ CloseEnds

GCSpec == GCInit /\ [][GCNext]_gcVars
(* An interpreter that keeps allocating keeps stepping its collector, and   *)
(* lua_close, once begun, goes on.  This is weak fairness of the steps that *)
(* leave ops as it is, the interpreter's own, one of which is enabled until *)
(* everything is freed.                                                     *)
GCFairSpec == GCSpec /\ (<>[]closed \/ []<><<ops' = ops>>_gcVars)

-----------------------------------------------------------------------------
(* What the program can still reach.                                       *)
StrongRefs(h, o) ==
  LET r == h.obj[o] IN
  (CASE r.tt = "table" -> {r.key, r.val}
     [] r.tt = "weakk" -> {r.val}
     [] r.tt = "weakv" -> {r.key}
     [] r.tt = "closure" -> {r.key, Globals}
     [] r.tt = "upval" -> {ValueOf(r)}
     [] r.tt = "udata" -> {r.key}
     [] OTHER -> {}) \ (IF r.tt \in Tables /\ r.val = Null THEN {r.key, Null} ELSE {Null})

ReachableFrom(h, S) ==
  LET near[n \in 0 .. Cardinality(DOMAIN h.obj)] ==
        IF n = 0 THEN S
        ELSE LET some == near[n - 1] IN
             some \union UNION {StrongRefs(h, o) : o \in some \intersect DOMAIN h.obj}
  IN  near[Cardinality(DOMAIN h.obj)]
Reachable ==
  IF closed THEN {} ELSE ReachableFrom(g, (Range(stack) \ {Null}) \union {Globals})
Preserved == ReachableFrom(g, Range(g.tmudata))

(* Nothing in use is ever freed: whatever the program can reach, whatever a *)
(* finalizer will be given, every entry of a weak table it can read and all *)
(* the collector's own lists hold is allocated; the collector never touches *)
(* freed memory, and of its lua_asserts at most the one of BarrierPhase     *)
(* fails.                                                                   *)
MemorySafe ==
  /\ g.bad \subseteq {"luaC_barrierf phase"}
  /\ LET named == Reachable IN
     /\ named \union Preserved \subseteq DOMAIN g.obj
     /\ \A o \in named :
          LET r == g.obj[o] IN
          r.tt \in Tables /\ r.val # Null =>
            {r.key, r.val} \ {Null} \subseteq DOMAIN g.obj
  /\ Range(g.gray \o g.grayagain \o g.weak \o g.openupval \o g.rootgc \o g.udata)
       \subseteq DOMAIN g.obj \union {MAIN}
  /\ closed => DOMAIN g.obj = {}

(* A forward barrier meets its object black only while the collector marks  *)
(* or sweeps: the assertion at the head of luaC_barrierf.                   *)
BarrierPhase == "luaC_barrierf phase" \notin g.bad

(* While the collector of a running program marks (lua_close gives up the   *)
(* marks), no black object refers to a white one, but for udata that wait   *)
(* for their finalizer from an earlier cycle; an object is in at most one   *)
(* of the lists that share its gclist field.                                *)
TriColour ==
  LET lists == g.gray \o g.grayagain \o g.weak IN
  /\ g.gcstate = "propagate" /\ ~Closing =>
       \A o \in DOMAIN g.obj \ Range(g.tmudata) :
         isblack(g, o) => \A r \in StrongRefs(g, o) : ~iswhite(g, r)
  /\ IsInjective(lists)

(* Whatever finalizers do, a gc method is called at most once, and no udata *)
(* that has one is freed before the call: not by the collector, and by      *)
(* lua_close only one that a finalizer made while the state was closing.    *)
FinalizedOnce ==
  /\ ~g.missed
  /\ \A o \in DOMAIN g.obj : g.obj[o].calls <= 1

(* Strings in a weak table stay as long as the table.                       *)
Retained ==
  LET named == Reachable
      tables == {t \in named : g.obj[t].tt \in Tables}
  IN  named \union
      {s \in UNION {{g.obj[t].key, g.obj[t].val} : t \in tables} :
         s # Null /\ isstring(g, s)}

(* What the program can no longer reach is freed in the end, unless a       *)
(* finalizer or the program, making the same string, brings it back: again  *)
(* and again there is no garbage left.                                      *)
Collected == []<>(DOMAIN g.obj \subseteq Retained)
=============================================================================
