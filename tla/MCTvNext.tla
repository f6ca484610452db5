------------------------------- MODULE MCTvNext -------------------------------
(***************************************************************************)
(* Pairs of functions of up to three positions on two 3-bit arguments.     *)
(* MCMenu holds rewrites whose regions are self-contained or not, wrong    *)
(* rewrites, flags that need an assumption, and wrapping bounds.           *)
(***************************************************************************)
EXTENDS TvNext

W == 3
V(n)  == [k |-> "v", n |-> n, w |-> W]
K(c)  == [k |-> "c", v |-> c, w |-> W]
I(name, op, fl, x, y) == [name |-> name, op |-> op, fl |-> fl, w |-> W, a |-> <<x, y>>]
I1(name, op, x) == [name |-> name, op |-> op, fl |-> {}, w |-> W, a |-> <<x>>]
Same(i) == <<i, i>>
a == V("a")  b == V("b")  x == V("x")  y == V("y")

MCArgs == {a, b}
MCMenu ==
  <<{Same(I("x", "And", {}, a, K(1))), Same(I("x", "Or", {}, a, K(1))),
     <<I("x", "Add", {}, a, b), I("x", "Add", {}, b, a)>>,
     <<I("x", "Sub", {}, a, b), I("x", "Xor", {}, a, b)>>},
    {<<I("y", "Add", {}, x, K(1)), I("y", "Add", {"nuw"}, x, K(1))>>,
     Same(I("y", "Add", {"nuw"}, x, K(1))),
     <<I("y", "Mul", {}, x, K(2)), I("y", "Shl", {}, x, K(1))>>,
     <<I1("y", "Freeze", x), I("y", "Or", {}, x, K(0))>>,
     Same(I("y", "AShr", {}, K(2), x))},
    {<<I("z", "UDiv", {}, b, y), I("z", "UDiv", {"exact"}, b, y)>>,
     <<I("z", "Add", {}, y, y), I("z", "Shl", {}, y, K(1))>>,
     <<I("z", "Add", {}, x, y), I("z", "Add", {"nuw", "nsw"}, y, x)>>,
     <<I("z", "Sub", {}, y, x), I("z", "Sub", {"nuw"}, y, x)>>,
     <<I("z", "Or", {}, x, y), I("z", "Or", {"disjoint"}, x, y)>>,
     <<I("z", "Add", {}, K(1), K(1)), I("z", "Or", {}, K(1), K(1))>>}>>
MCTails ==
  {<<<<I("s", "Shl", {}, x, K(1)), I("t", "Sub", {}, V("s"), x)>>, <<I("t", "And", {}, x, K(7))>>>>,
   <<<<I("s", "Shl", {}, x, K(1)), I("t", "LShr", {}, V("s"), K(1))>>, <<I("t", "And", {}, x, K(3))>>>>,
   <<<<>>, <<I("t", "And", {}, x, K(3))>>>>}
MCRets == {<<V(n), V(n)>> : n \in {"y", "z", "t"}} \cup {<<x, y>>}
=============================================================================
