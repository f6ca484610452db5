------------------------------ MODULE MCMemory ------------------------------
(***************************************************************************)
(* Programs of up to seven instructions over a null block, a constant      *)
(* global of one byte, a global of three bytes, a block of unknown size,   *)
(* the block of calls and two locals.  Register 1 is the input, 2 and 3    *)
(* are the globals, the others follow in the order of their instructions.  *)
(***************************************************************************)
EXTENDS Memory

Op(k, a) == [k |-> k, a |-> a]

NP(v) == [v |-> v, np |-> TRUE]
Poison == [v |-> 0, np |-> FALSE]

Fork1 == << Op("fork", {}) >>
Else1 == << Op("else", {}) >>
Join1 == << Op("join", {}) >>

RW    == {"ra", "wa", "ro", "wo"}
RO    == {"ra", "ro"}
ARGRO == {"ra"}

(* A local escapes through a select, a branch or a call, and is written    *)
(* through what a load, a callee or an integer gives back.                 *)
StoredAndLoaded ==
  << Op("alloc", {<<2, "stack">>}), Op("select", {<<4, 3>>, <<4, 1>>}),
     Op("storep", {3, 1} \X {4, 5}), Op("store", {<<4, NP(6), 4>>}), Op("loadp", {3, 1}),
     Op("store", {<<6, NP(9), 4>>, <<6, NP(1), 2>>}), Op("load", {<<4, 4>>, <<3, 2>>, <<1, 2>>}) >>

BranchStores ==
  << Op("alloc", {<<2, "stack">>}) >> \o Fork1 \o << Op("storep", {<<3, 4>>, <<1, 4>>}) >>
  \o Else1 \o << Op("store", {<<3, NP(0), 4>>, <<4, NP(3), 2>>, <<1, NP(1), 2>>}) >> \o Join1
  \o << Op("loadp", {3, 1}), Op("store", {<<5, NP(9), 2>>}), Op("load", {<<4, 2>>, <<3, 2>>, <<1, 4>>}) >>

BranchTypes ==
  << Op("alloc", {<<2, "stack">>, <<3, "stack">>}) >> \o Fork1 \o << Op("storep", {<<4, 3>>, <<4, 1>>}) >>
  \o Else1 \o << Op("store", {<<4, NP(0), 4>>, <<4, NP(5), 4>>}) >> \o Join1
  \o << Op("loadp", {4}), Op("load", {<<4, 4>>, <<5, 2>>}) >>

Selects ==
  << Op("alloc", {<<1, "stack">>}), Op("alloc", {<<1, "stack">>}), Op("store", {4, 5} \X {NP(2)} \X {2}),
     Op("select", {<<4, 5>>}), Op("select", {<<6, 2>>, <<6, 3>>, <<6, 1>>}), Op("load", {<<7, 2>>}) >>

PassedAround ==
  << Op("alloc", {<<2, "stack">>}), Op("alloc", {<<2, "stack">>}), Op("storep", {<<4, 5>>}),
     Op("call", {<<4, RW>>, <<5, RW>>, <<4, RO>>}), Op("loadp", {4}),
     Op("store", {6, 7} \X {NP(9)} \X {4}), Op("load", {<<4, 4>>, <<5, 4>>, <<3, 4>>}) >>

Addresses ==
  << Op("alloc", {<<2, "stack">>}), Op("select", {<<4, 3>>}), Op("p2i", {4, 5}),
     Op("i2p", {<< <<TRUE, 0>>, 0 >>, << <<TRUE, 0>>, 1 >>, << <<FALSE, 2>>, 1 >>, << <<FALSE, 1>>, 0 >>,
                << <<FALSE, 3>>, 0 >>}),
     Op("store", {<<6, NP(9), 4>>, <<6, NP(1), 2>>}), Op("load", {<<4, 4>>, <<3, 4>>, <<1, 2>>}) >>

Heap ==
  << Op("alloc", {<<2, "malloc">>}), Op("store", {<<4, NP(6), 4>>}),
     Op("realloc", {<<4, 2>>, <<4, 0>>, <<1, 1>>}), Op("load", {<<5, 2>>, <<5, 4>>}),
     Op("free", {4, 5, 1}), Op("store", {1, 4, 5} \X {NP(1)} \X {2}) >>

Lifetimes ==
  << Op("alloc", {<<2, "stack">>, <<2, "dead">>}), Op("alloc", {<<1, "stack">>}), Op("select", {<<4, 5>>}),
     Op("end", {4, 6}), Op("start", {5, 6}), Op("store", {<<6, NP(1), 2>>}), Op("load", {<<4, 2>>, <<5, 2>>}) >>

Copies ==
  << Op("gep", {<<3, 1, TRUE>>, <<3, 2, FALSE>>}), Op("storep", {<<3, 1>>, <<4, 3>>, <<1, 3>>}),
     Op("memcpy", {<<1, 3, 2, FALSE>>, <<1, 3, 1, FALSE>>, <<3, 4, 2, TRUE>>, <<4, 3, 2, FALSE>>,
                   <<3, 1, 1, FALSE>>, <<1, 4, 0, FALSE>>}),
     Op("memset", {<<1, NP(0), 1>>, <<3, NP(0), 2>>, <<3, Poison, 3>>, <<1, NP(1), 2>>}),
     Op("loadp", {1, 3}), Op("load", {<<1, 2>>, <<5, 4>>}) >>

Arithmetic ==
  << Op("gep", {<<3, 2, TRUE>>, <<3, 4, TRUE>>, <<1, 1, FALSE>>}), Op("mask", {<<4, 14>>}),
     Op("select", {<<4, 2>>, <<4, 5>>}), Op("gep", {<<6, 1, TRUE>>, <<6, -1, FALSE>>}),
     Op("store", {<<7, NP(1), 2>>}), Op("load", {<<5, 2>>, <<3, 4>>}) >>

(* Stores of either side to the global and to the block of unknown size.   *)
Values == {NP(1), NP(6), Poison}
StoresA == << Op("store", {1} \X {NP(1), NP(2), Poison} \X {2}), Op("store", {<<3, v, 4>> : v \in Values}) >>
StoresB == << Op("gep", {<<1, 1, FALSE>>}), Op("store", {<<4, v, 2>> : v \in {NP(1), NP(2), Poison}}),
              Op("store", {<<3, NP(6), 4>>, <<3, NP(1), 2>>}), Op("store", {<<1, NP(1), 2>>}) >>
StoresC == << Op("store", {<<3, NP(22), 6>>, <<3, NP(6), 4>>}), Op("storep", {<<3, 1>>, <<3, 3>>}),
              Op("store", {<<3, NP(1), 2>>, <<1, NP(1), 2>>}) >>
Sets    == << Op("memset", {<<3, NP(1), 3>>, <<3, NP(0), 2>>, <<1, NP(1), 1>>, <<1, Poison, 2>>}) >>
PtrCopies == << Op("gep", {<<3, 1, TRUE>>}), Op("storep", {<<3, 1>>, <<4, 1>>}),
                Op("memcpy", {<<3, 4, 1, FALSE>>, <<4, 3, 1, FALSE>>, <<1, 3, 2, FALSE>>}) >>
Bits    == << Op("store", {<<3, NP(1), 1>>, <<1, NP(1), 1>>, <<3, NP(1), 2>>}),
              Op("store", {<<3, NP(0), 1>>, <<3, NP(3), 2>>, <<1, NP(1), 2>>}), Op("load", {<<3, 1>>, <<3, 2>>}) >>

(* Calls of either side between stores. *)
Call(rs, c) == << Op("call", rs \X {c}) >>
Put(rs, vs) == << Op("store", rs \X vs \X {2}) >>
OneCall(c)  == Put({1, 3}, {NP(1)}) \o Call({1, 3}, c)
TwoCalls(c) == Put({3}, {NP(1)}) \o Call({1, 3}, c) \o Put({3}, {NP(1), NP(2)}) \o Call({3}, c)
CallFirst(c) == Call({3}, c) \o Put({1, 3}, {NP(1), NP(2)})
CallInBranch(c) == Fork1 \o Call({3}, c) \o Else1 \o Join1 \o Call({3}, c)
ReadWrite   == Call({3}, RO) \o Call({3}, RW) \o Put({3}, {NP(1)}) \o Call({3}, RO)
LocalArg(c) == << Op("alloc", {<<2, "stack">>, <<3, "stack">>}), Op("store", {<<4, NP(6), 4>>}) >> \o Call({4}, c)

Alone(p)    == [src |-> p, tgt |-> <<>>, sub |-> FALSE]
Pairs(S)    == { [src |-> p, tgt |-> q, sub |-> FALSE] : p \in S, q \in S }

MCPrograms ==
  { Alone(p) : p \in {StoredAndLoaded, BranchStores, BranchTypes, Selects, PassedAround, Addresses, Heap,
                       Lifetimes, Copies, Arithmetic} }
  \cup Pairs({StoresA, StoresB, StoresC, Sets, PtrCopies})
  \cup Pairs({OneCall(RW), TwoCalls(RW), CallFirst(RW), CallInBranch(RW), LocalArg(RW)})
  \cup Pairs({ReadWrite})
  \cup Pairs({OneCall(RO), TwoCalls(RO), CallFirst(RO)})
  \cup Pairs({OneCall(ARGRO), CallFirst(ARGRO)})
  \cup {[src |-> Bits, tgt |-> Bits, sub |-> TRUE]}

Ints(a, b, c) == [o \in 0 .. MaxSize - 1 |-> IntByte(IF o = 0 THEN a ELSE IF o = 1 THEN b ELSE c, 3, 0, 0)]
Ptrs(org, p) == [o \in 0 .. MaxSize - 1 |->
                   IF o < ptr_bytes THEN PtrByte(p, TRUE, o, {Leaf(org, 0, p)}) ELSE IntByte(1, 3, 0, 0)]

Base == [blk \in AllBlocks |->
           CASE blk = <<FALSE, 0>> -> 0 [] blk = <<FALSE, 1>> -> 1 [] blk = <<FALSE, 2>> -> 2
             [] blk = <<FALSE, 3>> -> 5 [] blk = <<FALSE, 4>> -> 7 [] blk = <<TRUE, 0>> -> 8
             [] OTHER -> 11]

Block(b, x0, x1, x2, x3, x4) ==
  [i \in b |-> CASE i = 0 -> x0 [] i = 1 -> x1 [] i = 2 -> x2 [] i = 3 -> x3 [] OTHER -> x4]

Assign(sz, kind, live, in, v2, v3) ==
  [base |-> Base, size |-> Block(Nonlocal, 0, 1, 3, sz, 0),
   kind |-> Block(Nonlocal, "global", "global", "global", kind, "none"),
   live |-> Block(Nonlocal, FALSE, TRUE, TRUE, live, TRUE),
   val  |-> Block(Nonlocal, Ints(0, 0, 0), Ints(1, 0, 0), v2, v3, Mark(0)),
   input |-> in, sub |-> FALSE]

In(b, off) == Logical(FALSE, b, off, {})

(* The input points to the block of unknown size, to the middle of the     *)
(* global, is null or may not be written through.                          *)
MCAssignments ==
  { Assign(2, "malloc", TRUE, In(3, 0), Ints(1, 2, 3), Ints(2, 0, 0)),
    Assign(1, "none", TRUE, In(3, 0), Ptrs("init", In(3, 0)), Ints(2, 0, 0)),
    Assign(1, "none", TRUE, In(2, 1), Ptrs("init", In(3, 0)), Ints(2, 0, 0)),
    Assign(2, "malloc", FALSE, In(3, 0), Ints(1, 2, 3), Ints(2, 0, 0)),
    Assign(2, "none", TRUE, In(0, 0), Ints(0, 0, 0), Ptrs("init", In(2, 0))),
    Assign(2, "malloc", TRUE, In(3, 0), Ptrs("init", In(2, 1)), Ptrs("init", In(2, 0))),
    Assign(2, "none", TRUE, Logical(FALSE, 3, 0, {"nowrite"}), Ints(1, 2, 3), Ptrs("init", In(2, 1))),
    Assign(2, "none", TRUE, Logical(FALSE, 3, 0, {"noread"}), Ints(1, 2, 3), Ptrs("init", In(2, 1))) }

Out(writes, wargs, frees, v, ret) ==
  [writes |-> writes, wargs |-> wargs, frees |-> frees, val |-> [b \in Nonlocal |-> v], ret |-> ret]

MCOutputs ==
  { Out({2}, FALSE, {3}, Ints(3, 3, 3), In(2, 0)),
    Out({}, TRUE, {}, Ptrs("callmem", In(3, 0)), In(3, 0)),
    Out({3}, FALSE, {}, Ints(0, 1, 0), Logical(TRUE, 0, 0, {})) }
=============================================================================
