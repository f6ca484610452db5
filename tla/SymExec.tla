------------------------------- MODULE SymExec -------------------------------
(***************************************************************************)
(* Symbolic execution of one function (src/util/symexec.cpp,               *)
(* src/ir/state.cpp, the control flow and poison related instructions of   *)
(* src/ir/instr.cpp and the containers of src/smt/exprs.h).                *)
(*                                                                         *)
(* Values are one bit wide.  An expression is the set of assignments of    *)
(* the SMT variables that make it true; an assignment is a number whose    *)
(* bits are the variables.  The first variables belong to the inputs: the  *)
(* defined bit c, the bit x with np_x and isundef_x, what the callee       *)
(* writes and whether it never returns.  The others are made on the way:   *)
(* undef, nondet and quantified variables.                                 *)
(***************************************************************************)
EXTENDS Naturals, Integers, Sequences, FiniteSetsExt, Functions

CONSTANT Programs   \* [blocks, nvars, calls, undef]: blocks in topological order; blocks[b]
                    \* is a sequence of [op, d, args, to]

VARIABLES prog, bb, pos, seen, pred, st, ret
vars == <<prog, bb, pos, seen, pred, st, ret>>

(***************************************************************************)
(* Expressions.                                                            *)
(***************************************************************************)
C == 0   NpX == 1   X == 2   IsUndefX == 3   Written == 4   NoReturn == 5
\* A program without a call has no use for the callee's variables.
FirstFresh == IF prog.calls THEN 6 ELSE 4

Asg       == 0..(2^prog.nvars - 1)
Bit(a, v) == (a \div 2^v) % 2
Var(v)    == {a \in Asg : Bit(a, v) = 1}
Not(e)    == Asg \ e
Ite(c, t, e)  == (c \cap t) \cup (e \ c)
Implied(p, q) == Not(p) \cup q
IsConst(e) == e \in {{}, Asg}
Set(a, v, b) == a + (b - Bit(a, v)) * 2^v
variables(e) == {v \in 0..(prog.nvars - 1) : \E a \in Asg : (a \in e) # (Set(a, v, 1 - Bit(a, v)) \in e)}
\* Every variable in the domain of r by the one r names.
Subst(e, r) == IF DOMAIN r = {} THEN e
               ELSE {a \in Asg : a + MapThenSumSet(LAMBDA v : (Bit(a, r[v]) - Bit(a, v)) * 2^v, DOMAIN r) \in e}
\* The test isundef_x = 0 by true.
NotUndefX(e) == {a \in Asg : Set(a, IsUndefX, 0) \in e}
Conj(S) == {a \in Asg : \A e \in S : a \in e}
Sv(v, np) == [v |-> v, np |-> np]

\* A DisjointExpr is a set of pairs of a value and its domain.
Pick(D)   == {a \in Asg : \E p \in D : a \in p[2] /\ a \in p[1]}
add(D, v, d) == IF d = {} THEN D ELSE (IF d = Asg THEN {} ELSE D) \cup {<<v, d>>}
PickSv(D) == Sv(Pick({<<p[1].v, p[2]>> : p \in D}), Pick({<<p[1].np, p[2]>> : p \in D}))
\* The terms all disjuncts share, and the rest under their domains.
factor(D) ==
  LET common == {e \in UNION {p[1] : p \in D} : \A p \in D : e \in p[1]}
      rest   == {a \in Asg : \A p \in D : a \in p[2] => a \in Conj(p[1] \ common)}
  IN  IF Cardinality(D) = 1 THEN (CHOOSE p \in D : TRUE)[1]
      ELSE common \cup ({rest} \ {Asg})

(***************************************************************************)
(* State.  A record st threads through the operators: domain (path, UB,    *)
(* duv), memory, the undef variables of the value at hand (uv), the value  *)
(* analysis (np, nu, unused, calls), the values and the next variable.     *)
(***************************************************************************)
Fresh(s, n)  == [s EXCEPT !.fresh = @ + n]
addUndefVar(s, U) == [s EXCEPT !.uv = @ \cup U]
addQuantVar(s, U) == [s EXCEPT !.quant = @ \cup U]
\* A quantified variable that is not named undef.
addFixedVar(s, U) == [addQuantVar(s, U) EXCEPT !.fixed = @ \cup U]
addUB(s, e) == [s EXCEPT !.UB = @ \cup ({e} \ {Asg}), !.duv = IF IsConst(e) THEN @ ELSE @ \cup s.uv]
Domain(s)   == s.path \cap Conj(s.UB)
Viable(s)   == s.path # {} /\ {} \notin s.UB
Renaming(U, first) == [u \in U |-> first + Cardinality({w \in U : w < u})]

\* Mutant: every use of a value sees the same undef variables.
evalShared(s, n) ==
  LET val == s.vals[n]
  IN  <<Sv(IF n \in DOMAIN s.nu THEN s.nu[n] ELSE val.sv.v, IF n \in s.np THEN Asg ELSE val.sv.np),
        addUndefVar([s EXCEPT !.unused = @ \ {n}], val.uv)>>
\* Each use of a value gets its own undef variables, the first one excepted.
eval(s, n) ==
  LET val == s.vals[n]
      simplify(sv) == Sv(IF n \in DOMAIN s.nu THEN s.nu[n] ELSE sv.v, IF n \in s.np THEN Asg ELSE sv.np)
      r   == Renaming(val.uv, s.fresh)
      new == Sv(Subst(val.sv.v, r), Subst(val.sv.np, r))
  IN
  CASE n \in DOMAIN s.nu -> <<simplify(val.sv), addQuantVar(s, val.uv)>>
    [] n \notin DOMAIN s.nu /\ (val.uv = {} \/ n \in s.unused) ->
         <<simplify(val.sv), addUndefVar([s EXCEPT !.unused = @ \ {n}], val.uv)>>
    [] n \notin DOMAIN s.nu /\ val.uv # {} /\ n \notin s.unused /\ new = val.sv ->
         <<simplify(val.sv), [s EXCEPT !.vals[n].uv = {}]>>
    [] OTHER -> <<simplify(new), addUndefVar(Fresh(s, Cardinality(val.uv)), {r[u] : u \in val.uv})>>

\* Solver: can e differ from e2 for all values of the variables not named undef?
InfersNonUndef(conds, e, e2, qvars) ==
  LET forall(v, D) == {a \in Asg : Set(a, v, 0) \in D /\ Set(a, v, 1) \in D}
  IN  FoldSet(forall, (e \cup e2) \ (e \cap e2), qvars) \cap conds \cap Var(IsUndefX) # {}
Extend(f, n, e) == IF n \in DOMAIN f THEN f ELSE [m \in DOMAIN f \cup {n} |-> IF m = n THEN e ELSE f[m]]
\* e with undef excluded, and the UB that excludes it.
strip_undef_and_add_ub(s, e) ==
  LET vs    == variables(e)
      uvs   == vs \cap s.uv
      test  == Not(Var(IsUndefX))
      known == IsUndefX \in vs /\ test \in s.UB
      e1    == IF known THEN NotUndefX(e) ELSE e
      q     == Renaming(uvs, s.fresh)    \* the solver query needs them too
      infers == InfersNonUndef(IF known THEN test ELSE Asg, e, Subst(e1, q), vs \ ({IsUndefX} \cup (s.made \ s.fixed)))
      sat   == IsUndefX \in vs /\ ~known /\ infers
      s2    == IF sat THEN LET t == addUB(s, test)
                           IN  [t EXCEPT !.nu = Extend(@, "x", NotUndefX(s.vals["x"].sv.v))] ELSE s
      e2    == IF sat THEN NotUndefX(e) ELSE e1
      decided == IsUndefX \notin vs \/ known \/ sat
  IN
  CASE s.uv = {} \/ IsConst(e) \/ uvs = {} -> <<e, s>>
    [] \E u \in s.uv : e = Var(u) -> <<{}, addUB(s, {})>>
    [] OTHER ->
         IF decided /\ variables(e2) \cap s.uv = {} THEN <<e2, s2>>
         ELSE LET s3 == addFixedVar(Fresh(s2, Cardinality(uvs)), {q[u] : u \in uvs})
                  same == Subst(e2, q)
              IN  <<e2, addUB(s3, {a \in Asg : (a \in e) <=> (a \in same)})>>

\* Mutant: the operands of any instruction are marked.
OperandsAny(s, n) == s.vals[n].ops
\* What would have turned the instruction's value into poison.
Operands(s, n) == IF s.vals[n].prop THEN s.vals[n].ops ELSE {}
RECURSIVE MarkNonPoison(_, _, _)
MarkNonPoison(s, done, todo) ==
  IF todo = {} THEN done
  ELSE LET v == CHOOSE v \in todo : TRUE
       IN  IF v \in done THEN MarkNonPoison(s, done, todo \ {v})
           ELSE MarkNonPoison(s, done \cup {v}, (todo \ {v}) \cup Operands(s, v))
NotPoison(s, n, already, np) ==
  IF already THEN s ELSE addUB([s EXCEPT !.np = MarkNonPoison(s, @, Operands(s, n))], np)
RecordNonUndef(n, p) ==
  <<p[1], [p[2] EXCEPT !.nu = [m \in DOMAIN @ \cup {n} |-> IF m = n THEN p[1] ELSE @[m]]]>>
NonUndef(s, n, v) ==
  IF n \in DOMAIN s.nu THEN <<s.nu[n], s>> ELSE RecordNonUndef(n, strip_undef_and_add_ub(s, v))
WellDefined(n, already, np, p) == <<Sv(p[1], Asg), NotPoison(p[2], n, already, np)>>
AddPoisonUB(n, undef_too, sv, already, s) ==
  IF already /\ ~undef_too THEN <<sv, s>>
  ELSE WellDefined(n, already, sv.np, IF undef_too THEN NonUndef(s, n, sv.v) ELSE <<sv.v, s>>)
UseWellDefined(n, undef_too, ev) ==
  AddPoisonUB(n, undef_too, ev[1], n \in ev[2].np, [ev[2] EXCEPT !.np = @ \cup {n}])
getAndAddPoisonUB(s, n, undef_too) == UseWellDefined(n, undef_too, eval(s, n))
getMaybeUB(s, n, is_UB) == IF is_UB THEN getAndAddPoisonUB(s, n, TRUE) ELSE eval(s, n)
\* Mutant: the undef variables are forgotten.
resetUndefVarsDrop(s) == [s EXCEPT !.uv = {}]
resetUndefVars(s) == [s EXCEPT !.quant = @ \cup s.uv, !.uv = {}]
freeze(s, sv) ==
  IF sv.np = Asg THEN <<sv, s>>
  ELSE <<Sv(Ite(sv.np, sv.v, Var(s.fresh)), Asg), addFixedVar(Fresh(s, 1), {s.fresh})>>

\* FnCallRanges: for each callee the possible numbers of calls so far.
inc(calls, f) ==
  [g \in DOMAIN calls \cup {f} |-> IF g # f THEN calls[g]
                                   ELSE IF f \in DOMAIN calls THEN {n + 1 : n \in calls[f]} ELSE {1}]
\* Mutant: a callee of one predecessor only keeps its counts.
meetCallsKeep(c, d) ==
  [f \in DOMAIN c \cup DOMAIN d |->
     (IF f \in DOMAIN c THEN c[f] ELSE {}) \cup (IF f \in DOMAIN d THEN d[f] ELSE {})]
meetCalls(c, d) ==
  [f \in DOMAIN c \cup DOMAIN d |->
     (IF f \in DOMAIN c THEN c[f] ELSE {0}) \cup (IF f \in DOMAIN d THEN d[f] ELSE {0})]
\* set_intersection runs over unordered containers: it may miss elements
\* (lossy), and never has one that is not common.
meet_with(a, b, lossy) ==
  [np |-> a.np \cap b.np,
   nu |-> [n \in {m \in DOMAIN a.nu \cap DOMAIN b.nu : ~lossy /\ a.nu[m] = b.nu[m]} |-> a.nu[n]],
   unused |-> IF lossy THEN {} ELSE a.unused \cap b.unused, calls |-> meetCalls(a.calls, b.calls)]
Analysis(s) == [np |-> s.np, nu |-> s.nu, unused |-> s.unused, calls |-> s.calls]

(***************************************************************************)
(* Control flow.  pred: what is known at the end of each edge.             *)
(***************************************************************************)
Sink == 0
NoEdges == [d \in 0..Len(prog.blocks) |-> << >>]
addJump(s, P, cond0, dst0, always) ==
  LET cond == cond0 \cap s.path
      dst  == IF dst0 \in seen THEN Sink ELSE dst0
      old  == IF bb \in DOMAIN P[dst] THEN P[dst][bb]
              ELSE [path |-> {}, UB |-> {}, mem |-> {}, cnt |-> {}, duv |-> {}]
      data == [path |-> old.path \cup cond, UB |-> old.UB \cup {<<s.UB, cond>>},
               mem |-> old.mem \cup {<<s.mem, cond>>}, cnt |-> old.cnt \cup {<<s.cnt, cond>>},
               duv |-> old.duv \cup s.uv \cup s.duv, an |-> Analysis(s)]
  IN  IF cond = {} \/ ~Viable(s) THEN <<s, P>>
      ELSE <<[s EXCEPT !.path = IF always \/ cond0 = Asg THEN {} ELSE @],
             [P EXCEPT ![dst] = [b \in DOMAIN @ \cup {bb} |-> IF b = bb THEN data ELSE @[b]]]>>
addCondJump(s, P, c, t, f) ==
  LET j == addJump(s, P, c, t, FALSE) IN addJump(j[1], j[2], Not(c), f, TRUE)
\* Merge the edges into a block.
startBB(s, E, lossy) ==
  LET edges == {E[b] : b \in DOMAIN E}
      D(f(_)) == {p \in UNION {{<<q[1], q[2] \cap e.path>> : q \in f(e)} : e \in edges} : p[2] # {}}
      first == (CHOOSE e \in edges : TRUE).an
      an    == FoldSet(LAMBDA e, a : meet_with(a, e.an, lossy), first, edges)
      ub    == D(LAMBDA e : e.UB)
  IN  [s EXCEPT !.path = UNION {e.path : e \in edges},
                !.UB = factor({<<u, UNION {p[2] : p \in {q \in ub : q[1] = u}}>> : u \in {p[1] : p \in ub}}),
                !.mem = Pick(D(LAMBDA e : e.mem)),
                !.cnt = [k \in 1..2 |-> Pick({<<p[1][k], p[2]>> : p \in D(LAMBDA e : e.cnt)})],
                !.duv = @ \cup UNION {e.duv : e \in edges},
                !.np = an.np, !.nu = an.nu, !.unused = an.unused, !.calls = an.calls]
addReturn(s, r, sv) ==
  <<[s EXCEPT !.path = {}, !.uv = {}],
    [r EXCEPT !.val = add(@, sv, s.path), !.mem = add(@, s.mem, s.path),
              !.dom = @ \cup Domain(s), !.fdom = @ \cup Domain(s), !.uv = @ \cup s.uv \cup s.duv]>>
addNoReturn(s, r, cond) ==
  <<addUB(s, Not(cond)),
    [r EXCEPT !.mem = add(@, s.mem, s.path \cap cond), !.fdom = @ \cup (Domain(s) \cap cond),
              !.uv = @ \cup s.uv \cup s.duv]>>
sinkDomain(P) == UNION {P[Sink][b].path \cap Conj(factor(P[Sink][b].UB)) : b \in DOMAIN P[Sink]}

(***************************************************************************)
(* Instructions: <<state, edges, returns, value>>.                         *)
(***************************************************************************)
Propagates == {"not", "and", "range", "rangewd"}
Phi(s, i) ==
  LET here == {k \in DOMAIN i.args : i.to[k] \in DOMAIN pred[bb]}
      vals == {i.args[k] : k \in here}
      ev   == FoldSet(LAMBDA n, acc : LET e == eval(acc[2], n) IN <<Extend(acc[1], n, e[1]), e[2]>>, <<<< >>, s>>, vals)
      D    == {<<ev[1][i.args[k]], pred[bb][i.to[k]].path>> : k \in here}
  IN  <<PickSv(D), ev[2]>>
SwitchOn(P, i, v) ==
  LET on(k) == IF k = 1 THEN v[1].v ELSE Not(v[1].v)
      j == FoldSet(LAMBDA t, acc : addJump(acc[1], acc[2], on(i.cases[t]), i.to[t], FALSE),
                   <<v[2], P>>, DOMAIN i.cases)
      default == Conj({Not(on(i.cases[t])) : t \in DOMAIN i.cases})
  IN  addJump(j[1], j[2], default, i.to[Len(i.to)], TRUE)
Switch(s, P, i) == SwitchOn(P, i, getAndAddPoisonUB(s, i.args[1], TRUE))
AssumeOf(op, v) == IF op = "assume" THEN addUB(v[2], v[1].v) ELSE v[2]
Assume(s, i) == AssumeOf(i.op, getAndAddPoisonUB(s, i.args[1], i.op = "welldefined"))
Assumed(v, welldefined) ==
  IF welldefined THEN <<v[1], addUB(v[2], v[1].v)>> ELSE <<Sv(v[1].v, v[1].np \cap v[1].v), v[2]>>
AssumeVal(s, n, welldefined) == Assumed(getMaybeUB(s, n, welldefined), welldefined)
Value(s, i) ==
  LET a == eval(s, i.args[1])
      b == eval(a[2], i.args[2])
  IN
  CASE i.op = "not" -> <<Sv(Not(a[1].v), a[1].np), a[2]>>
    [] i.op = "and" -> <<Sv(a[1].v \cap b[1].v, a[1].np \cap b[1].np), b[2]>>
    [] i.op = "freeze" -> freeze(resetUndefVars(a[2]), a[1])
    [] i.op = "phi" -> Phi(s, i)
    [] i.op = "range" -> AssumeVal(s, i.args[1], FALSE)
    [] i.op = "rangewd" -> AssumeVal(s, i.args[1], TRUE)
    [] i.op = "load" -> <<Sv(s.mem, Asg), s>>
    [] i.op = "store" -> <<Sv({}, Asg), [s EXCEPT !.mem = IF i.args = <<"1">> THEN Asg ELSE {}]>>
    [] i.op \in {"assume", "welldefined"} -> <<Sv({}, Asg), Assume(s, i)>>
\* A call: UB unless it returns; the callee writes memory.
Call(s, r, i) ==
  LET nr == addNoReturn(s, r, Var(NoReturn))
  IN  <<[nr[1] EXCEPT !.mem = Var(Written), !.cnt = <<s.cnt[1] \cup s.path, s.cnt[2] \cup (s.cnt[1] \cap s.path)>>, !.calls = inc(@, i.args[1])], nr[2]>>
BranchOn(P, i, c) == addCondJump(c[2], P, c[1].v, i.to[1], i.to[2])
Branch(s, P, i) ==
  IF i.op = "br" THEN addJump(s, P, Asg, i.to[1], TRUE)
  ELSE BranchOn(P, i, getAndAddPoisonUB(s, i.args[1], TRUE))
ReturnOf(r, v) == addReturn(v[2], r, v[1])
Return(s, r, i) == ReturnOf(r, getMaybeUB(s, i.args[1], i.op = "retnoundef"))
\* The value of an instruction and its undef variables go to the table.
exec(s, i, sv) ==
  [s EXCEPT !.vals = [n \in DOMAIN @ \cup {i.d} |->
                        IF n # i.d THEN @[n]
                        ELSE [sv |-> sv, uv |-> s.uv, prop |-> i.op \in Propagates,
                              ops |-> {i.args[k] : k \in DOMAIN i.args}]],
            !.uv = {}, !.unused = @ \cup {i.d}]

(***************************************************************************)
(* The machine.                                                            *)
(***************************************************************************)
Const(e) == [sv |-> Sv(e, Asg), uv |-> {}, prop |-> FALSE, ops |-> {}]
\* sym_exec_init: constants, inputs and undef.
InitialState ==
  LET u == FirstFresh  w == FirstFresh + (IF prog.undef THEN 1 ELSE 0)
  IN  [path |-> Asg, UB |-> {}, duv |-> {}, mem |-> {}, cnt |-> <<{}, {}>>, uv |-> {}, quant |-> {}, fixed |-> {},
       made |-> FirstFresh..(prog.nvars - 1),
       np |-> {}, nu |-> << >>, unused |-> {"0", "1", "c", "x", "undef"}, calls |-> << >>, fresh |-> w + 1,
       vals |-> [n \in {"0", "1", "c", "x", "undef"} |->
                  CASE n = "0" -> Const({}) [] n = "1" -> Const(Asg) [] n = "c" -> Const(Var(C))
                    [] n = "x" -> [Const({}) EXCEPT !.sv = Sv(Ite(Var(IsUndefX), Var(u), Var(X)), Var(NpX)), !.uv = {u}]
                    [] n = "undef" -> [Const({}) EXCEPT !.sv = Sv(Var(w), Asg), !.uv = {w}]]]
Init ==
  /\ prog \in Programs /\ bb = 0 /\ pos = 0 /\ seen = {}
  /\ pred = NoEdges /\ st = InitialState
  /\ ret = [val |-> {}, mem |-> {}, dom |-> {}, fdom |-> {}, uv |-> {}]
\* The next block; one that is not reached is skipped.
StartBB ==
  /\ pos = 0 /\ bb < Len(prog.blocks)
  /\ bb' = bb + 1 /\ seen' = seen \cup {bb + 1}
  /\ IF bb = 0 THEN pos' = 1 /\ st' = st
     ELSE IF DOMAIN pred[bb + 1] = {} THEN pos' = 0 /\ st' = st
     ELSE \E lossy \in BOOLEAN : LET s == startBB(st, pred[bb + 1], lossy)
                                 IN  st' = s /\ pos' = IF Viable(s) THEN 1 ELSE 0
  /\ UNCHANGED <<prog, pred, ret>>
Instruction == prog.blocks[bb][pos]
Void == Sv({}, Asg)
\* sym_exec_instr: an instruction of one of the kinds, then the next one.
ExecInstr(s, sv) ==
  /\ st' = exec(s, Instruction, sv)
  /\ pos' = IF pos < Len(prog.blocks[bb]) THEN pos + 1 ELSE 0
  /\ UNCHANGED <<prog, bb, seen>>
Jumps == {"br", "condbr", "switch"}
Returns == {"ret", "retnoundef"}
ExecJump ==
  /\ pos > 0 /\ Instruction.op \in Jumps
  /\ \E j \in {IF Instruction.op = "switch" THEN Switch(st, pred, Instruction) ELSE Branch(st, pred, Instruction)} :
       ExecInstr(j[1], Void) /\ pred' = j[2]
  /\ UNCHANGED ret
ExecReturn ==
  /\ pos > 0 /\ Instruction.op \in Returns
  /\ \E j \in {Return(st, ret, Instruction)} : ExecInstr(j[1], Void) /\ ret' = j[2]
  /\ UNCHANGED pred
ExecCall ==
  /\ pos > 0 /\ Instruction.op = "call"
  /\ \E j \in {Call(st, ret, Instruction)} : ExecInstr(j[1], Void) /\ ret' = j[2]
  /\ UNCHANGED pred
ExecValue ==
  /\ pos > 0 /\ Instruction.op \notin Jumps \cup Returns \cup {"call"}
  /\ \E v \in {Value(st, Instruction)} : ExecInstr(v[2], v[1])
  /\ UNCHANGED <<pred, ret>>
\* All blocks are done.
Done == pos = 0 /\ bb = Len(prog.blocks)
Next == StartBB \/ ExecJump \/ ExecReturn \/ ExecCall \/ ExecValue
Spec == Init /\ [][Next]_vars
(***************************************************************************)
(* Reference: what the function may do on an input.  A value is the set of *)
(* bits it may be at each use, 2 for poison.                               *)
(***************************************************************************)
Inputs == 0..(2^FirstFresh - 1)
UB == {<<"UB">>}
Bits(i) == [n \in {"0", "1", "c", "x", "undef"} |->
              CASE n = "0" -> {0} [] n = "1" -> {1} [] n = "c" -> {Bit(i, C)} [] n = "undef" -> {0, 1}
                [] n = "x" -> IF Bit(i, NpX) = 0 THEN {2} ELSE IF Bit(i, IsUndefX) = 1 THEN {0, 1} ELSE {Bit(i, X)}]
RECURSIVE Run(_, _, _, _, _, _, _)
Run(i, b, k, from, env, mem, visited) ==
  LET ins == prog.blocks[b][k]
      S   == env[ins.args[1]]
      go(v, m) == Run(i, b, k + 1, from, [n \in DOMAIN env \cup {ins.d} |-> IF n = ins.d THEN v ELSE env[n]], m, visited)
      jump(d) == IF d \in visited THEN {<<"sink">>} ELSE Run(i, d, 1, b, env, mem, visited \cup {d})
      defined == S \in {{0}, {1}}
      bit == CHOOSE z \in S : TRUE
  IN
  CASE ins.op = "not" -> go({IF z = 2 THEN 2 ELSE 1 - z : z \in S}, mem)
    [] ins.op = "and" -> go({IF 2 \in {y, z} THEN 2 ELSE y * z : y \in S, z \in env[ins.args[2]]}, mem)
    [] ins.op = "range" -> go({IF z = 1 THEN 1 ELSE 2 : z \in S}, mem)
    [] ins.op = "rangewd" -> IF S = {1} THEN go(S, mem) ELSE UB
    [] ins.op = "freeze" -> UNION {go({z}, mem) : z \in (S \ {2}) \cup (IF 2 \in S THEN {0, 1} ELSE {})}
    [] ins.op = "phi" -> go(env[ins.args[CHOOSE j \in DOMAIN ins.to : ins.to[j] = from]], mem)
    [] ins.op = "load" -> go({mem}, mem)
    [] ins.op = "store" -> go({0}, bit)
    [] ins.op = "assume" -> IF S = {1} THEN go({0}, mem) ELSE UB
    [] ins.op = "welldefined" -> IF defined THEN go({0}, mem) ELSE UB
    [] ins.op = "call" -> IF Bit(i, NoReturn) = 1 THEN {<<"noret">>} ELSE go({0}, Bit(i, Written))
    [] ins.op = "br" -> jump(ins.to[1])
    [] ins.op = "condbr" -> IF ~defined THEN UB ELSE jump(ins.to[2 - bit])
    [] ins.op = "switch" ->
         IF ~defined THEN UB
         ELSE LET hit == {j \in DOMAIN ins.cases : ins.cases[j] = bit}
              IN  jump(ins.to[IF hit = {} THEN Len(ins.to) ELSE CHOOSE j \in hit : TRUE])
    [] ins.op = "ret" -> {<<"ret", z, mem>> : z \in S}
    [] ins.op = "retnoundef" -> IF defined THEN {<<"ret", bit, mem>>} ELSE UB
    [] ins.op = "unreachable" -> UB
Reference(i) == Run(i, 1, 1, 0, Bits(i), 0, {1})

\* What the encoding says under one assignment.  The memory of a call that
\* does not return is not compared: addNoReturn stores it under a condition
\* that the path of a later return includes, and add keeps the later one.
Outcome(a, sink, val, mem) ==
  LET m == IF a \in mem THEN 1 ELSE 0
  IN
  CASE a \in ret.dom -> <<"ret", IF a \notin val.np THEN 2 ELSE IF a \in val.v THEN 1 ELSE 0, m>>
    [] a \in ret.fdom \ ret.dom -> <<"noret">>
    [] a \in sink \ ret.fdom -> <<"sink">>
    [] OTHER -> <<"UB">>

(***************************************************************************)
(* Properties.                                                             *)
(***************************************************************************)
\* The encoding says exactly what the function may do: for each input the
\* same outcomes, or undefined behaviour in both.  This covers the merge of
\* paths, the fresh copies of undef at each use, and the operands taken as
\* not poison or not undef after a use that would have been UB.
EncodingExact ==
  Done => st.fresh <= prog.nvars /\
          LET sink == sinkDomain(pred)  val == PickSv(ret.val)  mem == Pick(ret.mem)
          IN  \A i \in Inputs :
                LET R == Reference(i)
                    S == {Outcome(a, sink, val, mem) : a \in {i + k * 2^FirstFresh : k \in 0..(2^(prog.nvars - FirstFresh) - 1)}}
                IN  IF <<"UB">> \in R THEN <<"UB">> \in S ELSE S = R
\* A value taken as not poison is not poison wherever execution is still
\* defined (ValueAnalysis::non_poison_vals).
NonPoisonSound == \A n \in st.np : Domain(st) \subseteq st.vals[n].sv.np
\* The number of calls made on each path is among the numbers recorded for
\* the callee (FnCallRanges, "an over-approximation").
CallCountsSound ==
  \A a \in st.path : LET n == (IF a \in st.cnt[1] THEN 1 ELSE 0) + (IF a \in st.cnt[2] THEN 1 ELSE 0)
                     IN  n \in (IF "f" \in DOMAIN st.calls THEN st.calls["f"] ELSE {0})
\* Every variable made on the way that the result depends on is one the
\* checker quantifies over (return_undef_vars, quantified_vars).
AllQuantified ==
  Done => LET val == PickSv(ret.val)
              used == variables(ret.fdom) \cup variables(ret.dom) \cup variables(val.np \cap ret.dom)
                        \cup variables(val.v \cap val.np \cap ret.dom)
          IN  used \cap st.made \subseteq ret.uv \cup st.quant
=============================================================================
