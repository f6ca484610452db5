-------------------------------- MODULE TvNext --------------------------------
(***************************************************************************)
(* alive-tv-next (src/tools/alive-tv-next.cpp and src/tv-next): two        *)
(* straight-line functions are diffed, every region that differs is lifted *)
(* into a unit, Alive2 checks the unit, and when it cannot, checks it once *)
(* more under assumptions that were checked against the parents.           *)
(*                                                                         *)
(* The pair of functions grows one position at a time from Menu, may end   *)
(* in tails of different lengths, and the behaviours of the two are the    *)
(* reference the verdict is held against.                                  *)
(***************************************************************************)
EXTENDS TvProposer

CONSTANTS Args,      \* the arguments of both functions, a set of [k, n, w]
          Menu,      \* Menu[k]: the pairs of instructions position k may hold
          Tails,     \* pairs of sequences that may follow the paired positions
          Rets,      \* the pairs of operands the two functions may return
          Unknowns   \* whether Alive2 may answer that it could not prove

VARIABLES phase, src, tgt, regions, unit,
          plain,      \* the verdict on the unit as it is
          proposal,
          done,       \* how many checks of the proposal have passed
          verdicts
vars == <<phase, src, tgt, regions, unit, plain, proposal, done, verdicts>>

(***************************************************************************)
(* What a function does.  An instruction has a set of results; UB is one.  *)
(***************************************************************************)
Poison == -2
UB     == -3
Flagged(i, x, y) ==
  \/ i.op \in {"Add", "Sub", "Mul", "Shl"} /\ ~NoWrap(i.op, i.fl, i.w, x, y)
  \/ "disjoint" \in i.fl /\ Meaning("bvand", i.w, x, y, 0) # 0
  \/ "exact" \in i.fl /\ LET k == [LShr |-> "lshr_exact", AShr |-> "ashr_exact", UDiv |-> "udiv_exact",
                                   SDiv |-> "sdiv_exact"][i.op]
                         IN  Meaning(k, i.w, x, y, 0) = 0
MeaningOf == [Add |-> "bvadd", Sub |-> "bvsub", Mul |-> "bvmul", And |-> "bvand", Or |-> "bvor",
              Xor |-> "bvxor", Shl |-> "bvshl", LShr |-> "bvlshr", AShr |-> "bvashr",
              UDiv |-> "bvudiv", URem |-> "bvurem", SDiv |-> "bvsdiv", SRem |-> "bvsrem"]
\* The result of operands that are not poison.
Computed(i, v) ==
  CASE i.op = "ZExt" -> IF "nneg" \in i.fl /\ SVal(v[1], i.a[1].w) < 0 THEN Poison ELSE v[1]
    [] i.op = "SExt" -> SVal(v[1], i.a[1].w) % 2^i.w
    [] i.op = "Trunc" -> v[1] % 2^i.w
    [] i.op = "Freeze" -> v[1]
    [] i.op = "Select" -> IF v[1] = 1 THEN v[2] ELSE v[3]
    [] OTHER -> IF (i.op \in {"Shl", "LShr", "AShr"} /\ v[2] >= i.w) \/ Flagged(i, v[1], v[2]) THEN Poison
                ELSE Meaning(MeaningOf[i.op], i.w, v[1], v[2], 0)
Division == {"UDiv", "URem", "SDiv", "SRem"}
\* div_ub of src/ir/instr.cpp: also a dividend that is poison may overflow.
DivUB(i, v) ==
  /\ i.op \in Division
  /\ \/ v[2] \in {Poison, 0}
     \/ i.op \in {"SDiv", "SRem"} /\ v[2] = 2^i.w - 1 /\ v[1] \in {Poison, 2^(i.w - 1)}
Results(i, v) ==
  IF DivUB(i, v) THEN {UB}
  ELSE IF Poison \notin {v[k] : k \in DOMAIN v} THEN {Computed(i, v)}
  ELSE CASE i.op = "Freeze" -> 0..(2^i.w - 1)
         [] i.op = "Select" -> {IF v[1] = Poison THEN Poison ELSE IF v[1] = 1 THEN v[2] ELSE v[3]}
         [] OTHER -> {Poison}

ValueIn(v, env) == IF Const(v) THEN v.v ELSE env[v.n]
Bind(env, n, x) == [m \in DOMAIN env \cup {n} |-> IF m = n THEN x ELSE env[m]]
\* One instruction from any of the environments E; one that met UB is Dead,
\* which is no environment: none has UB as a value.
Dead == [ub |-> UB]
OperandValues(i, env) == [k \in DOMAIN i.a |-> ValueIn(i.a[k], env)]
After(i, env) ==
  IF env = Dead THEN {Dead}
  ELSE {IF r = UB THEN Dead ELSE Bind(env, i.name, r) : r \in Results(i, OperandValues(i, env))}
ExecStep(i, E) == UNION {After(i, env) : env \in E}
\* The environments after each of the first positions, when only the
\* instructions named in keep are there.
Runs(body, keep, E) ==
  LET run[k \in 0..Len(body)] ==
        IF k = 0 THEN E
        ELSE IF body[k].name \in keep THEN ExecStep(body[k], run[k - 1]) ELSE run[k - 1]
  IN  run
\* All environments a body may end in.
Executions(body, keep, env) == Runs(body, keep, {env})[Len(body)]

Domain(v, poison) == 0..(2^v.w - 1) \cup (IF poison THEN {Poison} ELSE {})
\* The inputs of a function.
Inputs(args, poison) ==
  {e \in [{v.n : v \in args} -> UNION {Domain(v, poison) : v \in args}] :
     \A v \in args : e[v.n] \in Domain(v, poison)}
Outcomes(fn, env) == {IF e = Dead THEN UB ELSE ValueIn(fn.ret, e) : e \in Executions(fn.body, Names(fn.body), env)}
\* Every outcome of the target is allowed by the source.
RefinedBy(S, T) == UB \in S \/ (UB \notin T /\ (Poison \in S \/ T \subseteq S))

\* The names an assumption is about.
About(a) == IF "fact" \in DOMAIN a THEN {a.fact.name}
            ELSE {a.claim.ops[k].n : k \in {j \in DOMAIN a.claim.ops : ~Const(a.claim.ops[j])}}
\* llvm.assume: undefined unless the condition is true and not poison.
Holds(a, env) ==
  IF "fact" \in DOMAIN a THEN env[a.fact.name] # Poison /\ buildFactPredicate(a.fact, env[a.fact.name])
  ELSE LET x == ValueIn(a.claim.ops[1], env)
           y == IF Len(a.claim.ops) >= 2 THEN ValueIn(a.claim.ops[2], env) ELSE 0
       IN  x # Poison /\ y # Poison /\ buildFlagClaim(a.claim.kind, x, y, a.claim.w) = 1

(***************************************************************************)
(* What the verifier of LLVM makes sure of.  An instruction is well typed  *)
(* when values of the widths of its operands give values of its own width. *)
(***************************************************************************)
NamedOperand == [k : {"v"}, n : STRING, w : Nat \ {0}]
ConstOperand == {c \in [k : {"c"}, v : Nat, w : Nat \ {0}] : c.v \in Domain(c, FALSE)}
DefinedOperands(i) ==
  {v \in [DOMAIN i.a -> UNION {Domain(i.a[k], FALSE) : k \in DOMAIN i.a}] :
     \A k \in DOMAIN i.a : v[k] \in Domain(i.a[k], FALSE)}
WellTyped(i) ==
  /\ i.a # <<>>
  /\ i.op = "Freeze" => Len(i.a) = 1 /\ i.a[1].w = i.w
  /\ i.op = "Select" => Len(i.a) = 3 /\ i.a[2].w = i.w /\ i.a[3].w = i.w
  /\ i.op \in Division => Len(i.a) = 2
  /\ \A v \in DefinedOperands(i) : ~DivUB(i, v) => Computed(i, v) \in Domain(i, TRUE)
Instruction == {i \in [name : STRING, op : STRING, fl : SUBSET STRING, w : Nat \ {0},
                       a : Seq(NamedOperand \cup ConstOperand)] : WellTyped(i)}
ASSUME TvNextAssumption ==
  /\ Args \subseteq NamedOperand
  /\ Menu \in Seq(SUBSET (Instruction \X Instruction))
  /\ Tails \subseteq Seq(Instruction) \X Seq(Instruction)
  /\ Rets \subseteq NamedOperand \X NamedOperand

(***************************************************************************)
(* Alive2, as verify.cpp uses it: an answer about the halves of a unit.    *)
(***************************************************************************)
UnitHolds(u) == \A env \in Inputs(u.src.args, TRUE) :
                   (\A a \in u.assumes : Holds(a, env)) =>
                      RefinedBy(Outcomes(u.src, env), Outcomes(u.tgt, env))
\* The standalone check returns true and is never poison or undefined.
CheckHolds(c) == \A env \in Inputs(c.args, FALSE) :
                    \A e \in Executions(c.body, c.slice, env) : e # Dead /\ \A a \in c.claims : Holds(a, e)
runOnce(holds) == (IF holds THEN {"Correct"} ELSE {"Unsound"}) \cup (IF Unknowns THEN {"FailedToProve"} ELSE {})
Passed(v) == v \in {"Correct", "SyntacticallyEqual"}

(***************************************************************************)
(* The diff.                                                               *)
(***************************************************************************)
isLikelyCommutativity(s, t) ==
  /\ s.op = t.op /\ Len(s.a) = 2 /\ Len(t.a) = 2 /\ s.name = t.name
  /\ LET keys(i) == [k \in 1..2 |-> keyForOperand(i.a[k])]
     IN  keys(s) \in {keys(t), Reverse(keys(t))}
Region(s, t, asym) == [src |-> s, tgt |-> t, is_asymmetric |-> asym]
\* The groups of positions before k: those flushed to out, and the current
\* one from start on.
Flush(d, k) == IF d.start >= k THEN d ELSE [out |-> Append(d.out, <<d.start, k - 1>>), start |-> k]
\* Position k: identical text ends a group, and an operand swap is a group
\* of its own.
PairStep(d, k, s, t) ==
  IF s = t THEN [Flush(d, k) EXCEPT !.start = k + 1]
  ELSE IF isLikelyCommutativity(s, t) THEN Flush(Flush(d, k), k + 1)
  ELSE d
Diffs(s, t, len) ==
  LET diff[k \in 0..len] == IF k = 0 THEN [out |-> <<>>, start |-> 1]
                            ELSE PairStep(diff[k - 1], k, s.body[k], t.body[k])
  IN  diff
PairedLength(s, t) ==
  LET n == UMinOf(Len(s.body), Len(t.body))
  IN  IF Len(s.body) = Len(t.body) THEN n
      ELSE MaxOf({k \in 0..n : \A j \in 1..k : s.body[j].name = t.body[j].name})
Groups(s, t) == LET len == PairedLength(s, t) IN Flush(Diffs(s, t, len)[len], len + 1).out
computeDiffRegions(s, t) ==
  LET len == PairedLength(s, t)
      g == Groups(s, t)
      paired == [j \in DOMAIN g |-> Region(SubSeq(s.body, g[j][1], g[j][2]), SubSeq(t.body, g[j][1], g[j][2]), FALSE)]
      rest(f) == SubSeq(f.body, len + 1, Len(f.body))
  IN  IF s.ret # t.ret THEN None
      ELSE IF Len(s.body) = Len(t.body) THEN paired
      ELSE Append(paired, Region(rest(s), rest(t), TRUE))

(***************************************************************************)
(* The driver.                                                             *)
(***************************************************************************)
NoProposal == [some |-> FALSE, ok |-> TRUE]
Fn(body)   == [args |-> Args, body |-> body, ret |-> None]
Init == /\ phase = "load" /\ src = Fn(<<>>) /\ tgt = Fn(<<>>)
        /\ regions = <<>> /\ unit = NoUnit /\ plain = "none"
        /\ proposal = NoProposal /\ done = 0 /\ verdicts = <<>>

\* The inputs: SSA, so a name is new and an operand is an argument or an
\* earlier result.
ResultOf(i) == [k |-> "v", n |-> i.name, w |-> i.w]
Before(f, k) == f.args \cup {ResultOf(f.body[q]) : q \in 1..(k - 1)}
SSA(f) ==
  \A k \in DOMAIN f.body :
    /\ \A v \in Before(f, k) : v.n # f.body[k].name
    /\ \A j \in DOMAIN f.body[k].a : Const(f.body[k].a[j]) \/ f.body[k].a[j] \in Before(f, k)
Grow(s, t) ==
  LET f == [src EXCEPT !.body = @ \o s]  g == [tgt EXCEPT !.body = @ \o t]
  IN  /\ phase = "load" /\ SSA(f) /\ SSA(g)
      /\ src' = f /\ tgt' = g
AddPair == /\ Len(src.body) < Len(Menu)
           /\ \E p \in Menu[Len(src.body) + 1] : Grow(<<p[1]>>, <<p[2]>>)
           /\ UNCHANGED <<phase, regions, unit, plain, proposal, done, verdicts>>
AddTail == /\ \E p \in Tails : Grow(p[1], p[2])
           /\ phase' = "loaded"
           /\ UNCHANGED <<regions, unit, plain, proposal, done, verdicts>>
\* loadSrcTgt and the diff of the loaded functions.
Load ==
  /\ phase \in {"load", "loaded"} /\ src.body # <<>>
  /\ \E p \in Rets :
       /\ p[1].n \in Names(src.body) /\ p[2].n \in Names(tgt.body)
       /\ LET s == [src EXCEPT !.ret = p[1]]  t == [tgt EXCEPT !.ret = p[2]]
              d == computeDiffRegions(s, t)
          IN  /\ src' = s /\ tgt' = t
              /\ IF s.ret # t.ret THEN phase' = "rejected" /\ UNCHANGED regions
                                  ELSE phase' = "regions" /\ regions' = d
  /\ UNCHANGED <<unit, plain, proposal, done, verdicts>>

Conclude(v) == /\ verdicts' = Append(verdicts, v) /\ regions' = Tail(regions)
               /\ phase' = "regions" /\ unit' = NoUnit /\ plain' = "none"
               /\ proposal' = NoProposal /\ done' = 0
               /\ UNCHANGED <<src, tgt>>
BuildUnit ==
  /\ phase = "regions" /\ regions # <<>>
  /\ \E u \in {buildTvUnit(Head(regions))} :
         IF ~u.ok THEN Conclude("Error")
         ELSE phase' = "plain" /\ unit' = u /\ UNCHANGED <<src, tgt, regions, plain, proposal, done, verdicts>>
\* The unit as it is.
VerifyPlain ==
  /\ phase = "plain"
  /\ IF unit.src = unit.tgt THEN Conclude("SyntacticallyEqual")
     ELSE \E v \in runOnce(UnitHolds(unit)) :
            IF Passed(v) THEN Conclude(v)
            ELSE phase' = "propose" /\ plain' = v /\ UNCHANGED <<src, tgt, regions, unit, proposal, done, verdicts>>
\* Two parents, one after the other; a division by a wrapped bound of 0 ends
\* the program.
Propose ==
  /\ phase = "propose"
  /\ \E p \in {proposeFromRanges(unit, src, tgt)} :
         IF ~p.ok THEN phase' = "crashed" /\ UNCHANGED <<src, tgt, regions, unit, plain, proposal, done, verdicts>>
         ELSE IF ~p.some THEN Conclude(plain)
         ELSE /\ phase' = "checks" /\ proposal' = p
              /\ UNCHANGED <<src, tgt, regions, unit, plain, done, verdicts>>
\* Mutant: a check that fails is only reported.
RunCheckLax ==
  /\ phase = "checks" /\ done < Len(proposal.checks)
  /\ done' = done + 1
  /\ UNCHANGED <<phase, src, tgt, regions, unit, plain, proposal, verdicts>>
\* One assume-check; the first that fails leaves the plain verdict.
RunCheck ==
  /\ phase = "checks" /\ done < Len(proposal.checks)
  /\ \E v \in runOnce(CheckHolds(proposal.checks[done + 1])) :
       IF Passed(v)
       THEN done' = done + 1 /\ UNCHANGED <<phase, src, tgt, regions, unit, plain, proposal, verdicts>>
       ELSE Conclude(plain)
VerifyModified ==
  /\ phase = "checks" /\ done = Len(proposal.checks)
  /\ \E v \in runOnce(UnitHolds(proposal.modified)) : Conclude(IF Passed(v) THEN v ELSE plain)
composeVerdicts ==
  /\ phase = "regions" /\ regions = <<>>
  /\ phase' = IF \A k \in DOMAIN verdicts : Passed(verdicts[k]) THEN "accepted" ELSE "rejected"
  /\ UNCHANGED <<src, tgt, regions, unit, plain, proposal, done, verdicts>>

Next == \/ AddPair \/ AddTail \/ Load \/ BuildUnit \/ VerifyPlain \/ Propose
        \/ RunCheck \/ VerifyModified \/ composeVerdicts
Spec == Init /\ [][Next]_vars

(***************************************************************************)
(* Properties.                                                             *)
(***************************************************************************)
Statuses == {"Correct", "SyntacticallyEqual", "Unsound", "FailedToProve", "Error"}

\* The two functions, on inputs that are well defined (the tool seeds its
\* analysis under --disable-undef-input).
Refines == \A env \in Inputs(Args, FALSE) : RefinedBy(Outcomes(src, env), Outcomes(tgt, env))

\* A region whose values stay inside it, its exit apart, with the same names.
UsedOutside(n, insts, f) ==
  \/ f.ret.n = n
  \/ \E k \in DOMAIN f.body : /\ f.body[k].name \notin Names(insts)
                              /\ \E j \in DOMAIN f.body[k].a : f.body[k].a[j] = [k |-> "v", n |-> n, w |-> f.body[k].a[j].w]
SelfContained(insts, f) == \A k \in DOMAIN insts : k < Len(insts) => ~UsedOutside(insts[k].name, insts, f)
AllSelfContained ==
  LET ds == computeDiffRegions(src, tgt)
  IN  \A k \in DOMAIN ds : /\ SelfContained(ds[k].src, src) /\ SelfContained(ds[k].tgt, tgt)
                           /\ ds[k].src # <<>> /\ ds[k].tgt # <<>>
                           /\ Last(ds[k].src).name = Last(ds[k].tgt).name

\* composeVerdicts accepts only pairs that refine, when what a region defines
\* leaves it through its exit: units checked one by one, some of them under
\* assumptions, add up to the whole function.
AcceptedIsRefinement == phase = "accepted" /\ AllSelfContained => Refines
\* The same without the condition, as compose.h promises it.
ComposeSound == phase = "accepted" => Refines

\* When the modified unit is about to be verified (proposeFromRanges), every
\* assumption in it is true of the values its parents compute, whatever the
\* range analysis believed: a bound that wrapped or a flag it ignored is
\* caught by the assume-checks.
Assumed == proposal.modified.assumes
AssumptionsJustified ==
  phase = "checks" /\ done = Len(proposal.checks) =>
    \A a \in Assumed :
       \E f \in {src, tgt} : \A env \in Inputs(Args, FALSE) :
          \A e \in Executions(f.body, Names(f.body), env) : e # Dead => (About(a) \subseteq DOMAIN e /\ Holds(a, e))
=============================================================================
