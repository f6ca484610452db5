------------------------------ MODULE MCSymExec ------------------------------
(***************************************************************************)
(* Programs for TLC: straight lines, diamonds, triangles, a loop, a switch *)
(* with a shared target, calls on some of the paths.                       *)
(***************************************************************************)
EXTENDS SymExec

I(op, d, args)  == [op |-> op, d |-> d, args |-> args, to |-> << >>, cases |-> << >>]
Br(t)           == [I("br", "b", << >>) EXCEPT !.to = <<t>>]
CondBr(c, t, f) == [I("condbr", "cb", <<c>>) EXCEPT !.to = <<t, f>>]
Sw(v, cs, to)   == [I("switch", "sw", <<v>>) EXCEPT !.to = to, !.cases = cs]
PhiI(d, vs, bs) == [I("phi", d, vs) EXCEPT !.to = bs]
Ret(v)          == I("ret", "r", <<v>>)
\* n: how many variables may be made on the way.
P(blocks, n) ==
  LET ins == {blocks[b][k] : <<b, k>> \in {p \in (DOMAIN blocks) \X (1..4) : p[2] \in DOMAIN blocks[p[1]]}}
      calls == \E i \in ins : i.op = "call"
  IN  [blocks |-> blocks, nvars |-> n + (IF calls THEN 6 ELSE 4), calls |-> calls,
       undef |-> \E i \in ins : \E k \in DOMAIN i.args : i.args[k] = "undef"]

Vals == {"x", "undef", "c"}
Line == {P(<<<<I("and", "y", <<a, b>>), I(op, "z", <<"y">>), I("and", "w", <<"y", "z">>), Ret(r)>>>>, 7) :
           a \in {"x", "undef"}, b \in {"x", "c"}, op \in {"not", "freeze", "range"}, r \in {"w"}}
Uses == {P(<<<<I("not", "y", <<"x">>), I(u, "z", <<a>>), I("and", "w", <<"y", "x">>), I(rt, "r", <<b>>)>>>>, 5) :
           u \in {"assume", "welldefined", "rangewd"}, a \in {"x", "y"}, rt \in {"ret", "retnoundef"}, b \in {"w", "y"}}
Frozen == {P(<<<<I("freeze", "y", <<"x">>), I("and", "w", <<a, b>>), I(u, "z", <<"w">>), Ret(r)>>>>, 6) :
             a \in {"y", "x"}, b \in {"x", "c"}, u \in {"assume", "welldefined"}, r \in {"w", "x"}}
Diamond(c, l, r, a, n) ==
  P(<<<<I("not", "y", <<"x">>), CondBr(c, 2, 3)>>, <<l, Br(4)>>, <<r, Br(4)>>,
      <<PhiI("p", <<a, "x">>, <<2, 3>>), I("and", "q", <<"p", "y">>), Ret("q")>>>>, n)
Diamonds ==
  {Diamond(c, l, r, a, 6) : c \in {"c", "y"}, a \in {"y", "c"},
     l \in {I("store", "s", <<"1">>), I("assume", "a", <<"y">>)},
     r \in {I("load", "l", << >>), I("assume", "a", <<"x">>)}}
  \cup {Diamond(c, I("store", "s", <<"1">>), I("freeze", "t", <<"y">>), a, 7) : c \in {"c", "x"}, a \in {"y", "c"}}
  \cup {Diamond(c, I("call", "k", <<"f">>), r, "c", 5) : c \in {"c", "x"},
          r \in {I("load", "l", << >>), I("assume", "a", <<"c">>)}}
  \cup {Diamond(c, I("store", "s", <<"1">>), r, "undef", 7) : c \in {"c", "y"},
          r \in {I("assume", "a", <<"x">>), I("freeze", "t", <<"y">>)}}
Triangle == {P(<<<<CondBr("c", 2, 3)>>, <<I("call", "k", <<"f">>), m, CondBr(c, 3, 4)>>,
                 <<I("call", "k2", <<"f">>), I("load", "l", << >>), Ret(v)>>, <<Ret("1")>>>>, 4) :
               c \in {"x", "c"}, m \in {I("store", "s", <<"0">>), I("range", "t", <<"x">>)}, v \in {"l", "x"}}
Loop == {P(<<<<Br(2)>>, <<PhiI("p", <<"0", "x">>, <<1, 3>>), CondBr(c, 3, 4)>>, <<b, Br(2)>>, <<Ret("p")>>>>, 5) :
           c \in {"c", "x", "p"}, b \in {I("store", "s", <<"1">>), I("assume", "a", <<"x">>), I("call", "k", <<"f">>)}}
Switches == {P(<<<<Sw(v, cs, to)>>, <<I("store", "s", <<"1">>), Br(3)>>,
                 <<PhiI("p", <<"0", "1">>, <<1, 2>>), I("load", "l", << >>), Ret("p")>>>>, 4) :
               v \in {"x", "undef", "c"}, cs \in {<<1>>, <<0>>, <<0, 1>>}, to \in {<<2, 3>>, <<3, 2>>, <<2, 2, 3>>}}
MCPrograms == Line \cup Uses \cup Frozen \cup Diamonds \cup Triangle \cup Loop
                \cup {p \in Switches : Len(p.blocks[1][1].cases) + 1 = Len(p.blocks[1][1].to)}
=============================================================================
