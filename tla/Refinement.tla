------------------------------ MODULE Refinement ------------------------------
(***************************************************************************)
(* The refinement checker (src/tools/transform.cpp) with its error list    *)
(* (src/util/errors.cpp), the solver wrapper (src/smt/solver.cpp), the     *)
(* comparison of two functions (src/llvm_util/compare.cpp) and the loop    *)
(* over typings of the stand-alone tool (src/tools/alive.cpp).             *)
(*                                                                         *)
(* A program is a function from inputs and nondeterministic choices to     *)
(* behaviours, the same for each typing of the stand-alone tool.  Z3 is    *)
(* external: it answers each query with the truth, or does not answer.     *)
(***************************************************************************)
EXTENDS Naturals, Sequences, FiniteSets

CONSTANTS Inputs, Choices,
          Default,     \* the choice expr::some picks
          Cases,       \* [src, tgt, static, approx, invalid, nullDeref, cfg]: what is verified
          Unknowns     \* the ways Z3 may fail to answer

\* The symbolic types of the stand-alone tool and the values of their
\* variables: which type it is, width, address space and number of elements.
CONSTANTS TypeNames, TypeSort, BwSort, ASSort, ElementsSort,
          TypeMask,    \* the types each of them may be
          SameType,    \* pairs that the constraints ask to be equal
          TypeVars,    \* the variables of the constraints: <<name, field>>
          MaxBw, FloatSizes, PtrBits, MaxElements,
          MaxGaveUp    \* bound: unanswered queries while models are blocked

ASSUME RefinementAssumption ==
  /\ Default \in Choices
  /\ Unknowns \subseteq {"Timeout", "Error"}
ASSUME TypeAssumption ==
  /\ "Undefined" \in TypeSort /\ 0 \in BwSort /\ 0 \in ElementsSort
  /\ 0 \notin FloatSizes

\* What a program may do on an input and a choice: the precondition excludes
\* it; undefined behaviour, one that could have been guarded, or a reached
\* unreachable; the unrolling bound, before or after UB; no return; or a
\* return, of poison or not.  A value and a memory go with each of them.
Ends == {"excl", "ub", "gub", "unreach", "sink", "sinkub", "noret", "poison", "ret"}
Behaviours == [end : Ends, val : {0, 1}, mem : {0, 1}]

VARIABLES case, pc, fwd, errs, warnings, status, counts
\* The typings left, the one being verified, the variables of its assignment
\* that stay in the clause and the ones not tried yet, the types verified.
VARIABLES typing, model, kept, todo, verified, gaveUp
loop == <<typing, model, kept, todo, verified, gaveUp>>
vars == <<case, pc, fwd, errs, warnings, status, counts, loop>>

cfg == case.cfg
A == IF fwd THEN case.src ELSE case.tgt
B == IF fwd THEN case.tgt ELSE case.src

(***************************************************************************)
(* What the symbolic executor hands over: the precondition, the function   *)
(* and return domains, the sink domain and the value.                      *)
(***************************************************************************)
pre(b)     == b.end # "excl"
guard(b)   == b.end = "gub" /\ "disallow_ub" \in cfg
ub(b)      == b.end \in {"ub", "unreach", "sinkub"} \/ (b.end = "gub" /\ ~guard(b))
fndom(b)   == ~ub(b) /\ b.end # "sink"
retdom(b)  == fndom(b) /\ b.end # "noret"
sinkDomain(b, include_ub) == b.end = "sink" \/ (b.end = "sinkub" /\ ~include_ub)
non_poison(b) == b.end # "poison"
value(b)   == b.val
memory(b)  == b.mem

(***************************************************************************)
(* Errors.                                                                 *)
(***************************************************************************)
add(es, msg, unsound) == (IF unsound THEN {} ELSE es) \cup {<<msg, unsound>>}
isUnsound(es) == \E e \in es : e[2]

(***************************************************************************)
(* The queries, in the order they are asked.  Violates(q, s, t) is what a  *)
(* counterexample of query q shows for a source and a target behaviour.    *)
(***************************************************************************)
\* Mutant: the target may have UB that a guard would remove.
QueriesSrcOnly ==
  IF "disallow_ub" \in cfg
  THEN <<"ub_src", "pre", "return_src", "return_tgt", "guardable_ub_src",
         "unreachable_src", "unreachable_tgt", "ub", "retdom", "poison_src", "poison_tgt",
         "undef_src", "undef_tgt", "value", "memory">>
  ELSE <<"ub_src", "pre", "return_src", "return_tgt", "ub", "retdom", "poison", "undef", "value", "memory">>
Queries ==
  IF "disallow_ub" \in cfg
  THEN <<"ub_src", "pre", "return_src", "return_tgt", "guardable_ub_src", "guardable_ub_tgt",
         "unreachable_src", "unreachable_tgt", "ub", "retdom", "poison_src", "poison_tgt",
         "undef_src", "undef_tgt", "value", "memory">>
  ELSE <<"ub_src", "pre", "return_src", "return_tgt", "ub", "retdom", "poison", "undef", "value", "memory">>
poison_cnstr(s, t) == non_poison(s) => non_poison(t)
value_cnstr(s, t)  == non_poison(s) /\ non_poison(t) => value(s) = value(t)
\* s and t with the values of the default choice, s0 and t0.
encode_undef_refinement(s, s0, t, t0) ==
  IF "disallow_ub" \in cfg THEN non_poison(s) /\ value(s) # value(s0)
  ELSE non_poison(s) /\ value(s) = value(s0) /\ value(t) # value(t0)
Violates(q, s, s0, t, t0) ==
  LET dom == retdom(s) /\ retdom(t)
  IN
  CASE q = "guardable_ub_src" -> retdom(s) /\ guard(s)
    [] q = "guardable_ub_tgt" -> dom /\ guard(t)
    [] q = "unreachable_src" -> s.end = "unreach"
    [] q = "unreachable_tgt" -> t.end = "unreach"
    [] q = "ub" -> ~sinkDomain(t, TRUE) /\ fndom(s) /\ ~fndom(t)
    [] q = "retdom" -> fndom(s) /\ fndom(t) /\ retdom(s) # retdom(t)
    [] q = "poison_src" -> retdom(s) /\ ~non_poison(s)
    [] q = "poison_tgt" -> retdom(t) /\ ~non_poison(t)
    [] q = "poison" -> dom /\ ~poison_cnstr(s, t)
    [] q = "undef_src" -> retdom(s) /\ encode_undef_refinement(s, s0, t, t0)
    [] q = "undef_tgt" -> retdom(t) /\ encode_undef_refinement(t, t0, s, s0)
    [] q = "undef" -> dom /\ encode_undef_refinement(s, s0, t, t0)
    [] q = "value" -> dom /\ ~value_cnstr(s, t)
    [] q = "memory" -> dom /\ ~(value_cnstr(s, t) /\ memory(s) = memory(t))
\* Mutant: the choices of the source are the solver's as well.
mk_fmlExists(q) ==
  \E i \in Inputs, nt \in Choices, ns \in Choices :
     /\ pre(A[i][ns]) /\ pre(B[i][nt])
     /\ Violates(q, A[i][ns], A[i][Default], B[i][nt], B[i][Default])
\* mk_fml: some target choice that, whatever the source chooses, violates it.
mk_fml(q) ==
  \E i \in Inputs, nt \in Choices, ne \in Choices :
     /\ pre(A[i][ne]) /\ pre(B[i][nt])
     /\ \A ns \in Choices : pre(A[i][ns]) => Violates(q, A[i][ns], A[i][Default], B[i][nt], B[i][Default])
AnyRun(P(_, _)) == \E i \in Inputs, ns \in Choices, nt \in Choices : P(A[i][ns], B[i][nt])
Sat(q) ==
  CASE q = "ub_src" -> AnyRun(LAMBDA s, t : fndom(s))
    [] q = "pre"    -> AnyRun(LAMBDA s, t : pre(s) /\ pre(t))
    [] q = "return_src" -> AnyRun(LAMBDA s, t : ~sinkDomain(s, FALSE))
    [] q = "return_tgt" -> AnyRun(LAMBDA s, t : ~sinkDomain(t, FALSE) \/ sinkDomain(s, FALSE))
    [] OTHER -> mk_fml(q)
\* Solver::check: an invalid formula and a skipped query never reach Z3; one
\* that was folded to false is answered before it would be skipped.
Answers(q) ==
  IF q \in case.invalid THEN {"Invalid"}
  ELSE IF "skip_smt" \in cfg THEN {"Skip"} \cup (IF Sat(q) THEN {} ELSE {"Unsat"})
  ELSE {IF Sat(q) THEN "Sat" ELSE "Unsat"} \cup Unknowns
\* A query that is satisfiable is asked again with the source precondition.
Again(q, r) == IF r = "Sat" THEN {"Sat"} \cup Unknowns ELSE {r}

(***************************************************************************)
(* The type constraints of the stand-alone tool.  A symbolic type is a     *)
(* choice of values for its variables; the elements of a vector are of one *)
(* type.                                                                   *)
(***************************************************************************)
SymbolicType == [type : TypeSort, bw : BwSort, as : ASSort, elements : ElementsSort]
Assignments  == [TypeNames -> SymbolicType]
getTypeConstraints(n, a) ==
  /\ a.type \in TypeMask[n]
  /\ \/ a.type = "Int" /\ a.bw # 0 /\ a.bw <= MaxBw
     \/ a.type = "Float" /\ a.bw \in FloatSizes
     \/ a.type = "Ptr" /\ a.bw = PtrBits
     \/ a.type = "Vector" /\ a.elements # 0 /\ a.elements <= MaxElements
\* SymbolicType::operator==
SameSymbolicType(a, b) ==
  /\ a.type = b.type
  /\ a.type \in {"Int", "Float", "Ptr"} => a.bw = b.bw
  /\ a.type = "Ptr" => a.as = b.as
  /\ a.type = "Vector" => a.elements = b.elements
Typings == {a \in Assignments : /\ \A n \in TypeNames : getTypeConstraints(n, a[n])
                                /\ \A p \in SameType : SameSymbolicType(a[p[1]], a[p[2]])}
\* fixup: the type that a model stands for.  An address space is kept for
\* printing only.
fixup(a) == CASE a.type \in {"Int", "Float"} -> <<a.type, a.bw>>
              [] a.type = "Vector" -> <<a.type, a.elements>>
              [] OTHER -> <<a.type, 0>>
fixupTypes(a) == [n \in TypeNames |-> fixup(a[n])]

\* The assignments that agree with t on the variables of K, and what the
\* solver of the negated constraints says of them.
Cube(t, K) == {u \in Assignments : \A v \in K : u[v[1]][v[2]] = t[v[1]][v[2]]}
\* The constraints read no other variable.
ASSUME TypeVarsAssumption ==
  /\ TypeVars \subseteq TypeNames \X {"type", "bw", "as", "elements"}
  /\ \A t \in Typings : Cube(t, TypeVars) \subseteq Typings
snegAnswers(K) ==
  {IF Cube(model, K) \subseteq Typings THEN "Unsat" ELSE "Sat"}
     \cup (IF gaveUp < MaxGaveUp THEN Unknowns ELSE {})

(***************************************************************************)
(* The machine.                                                            *)
(***************************************************************************)
NoCounts == [correct |-> 0, unsound |-> 0, failed |-> 0, errors |-> 0]
Init == /\ case \in Cases
        /\ pc = IF "alive" \in cfg THEN 102 ELSE 0
        /\ fwd = TRUE /\ errs = {} /\ warnings = {} /\ status = "none"
        /\ counts = NoCounts
        /\ typing = (IF "alive" \in cfg THEN Typings ELSE {}) /\ model = <<>>
        /\ kept = {} /\ todo = {} /\ verified = {} /\ gaveUp = 0

Return(es) == errs' = es /\ pc' = 99 /\ UNCHANGED <<case, fwd, status, counts, loop>>
Continue(es) == errs' = es /\ pc' = pc + 1 /\ UNCHANGED <<case, fwd, status, counts, loop>>

\* verify(): translation, syntactic equality, type check, and what is
\* compared before any query.  Programs that do the same may read the same.
Static ==
  LET verdict == [attrs |-> TRUE, params |-> TRUE, constLost |-> TRUE,
                  signature |-> FALSE, size |-> FALSE, constGained |-> FALSE, newGlobal |-> FALSE]
      done(st) == status' = st /\ pc' = 100 /\ UNCHANGED <<case, fwd, errs, warnings, counts, loop>>
  IN
  /\ pc = 0
  /\ \/ case.static = "untranslated" /\ done("ERROR")
     \/ A = B /\ case.static = "ok" /\ cfg \cap {"always_verify", "alive"} = {} /\ done("SYNTACTIC_EQ")
     \/ case.static = "untyped" /\ done("TYPE_CHECKER_FAILED")
     \/ case.static \in DOMAIN verdict /\ Return({<<case.static, verdict[case.static]>>}) /\ UNCHANGED warnings
     \/ /\ case.static = "ok"
        /\ pc' = 1 /\ UNCHANGED <<case, fwd, errs, warnings, status, counts, loop>>

query == Queries[pc]
InQuery == pc \in DOMAIN Queries

\* The queries on the programs themselves: only "unsat" means anything.
CheckSource ==
  /\ InQuery /\ query \in {"ub_src", "pre", "return_src", "return_tgt"}
  /\ \E r \in Answers(query) :
       CASE r # "Unsat" -> Continue(errs) /\ UNCHANGED warnings
         [] r = "Unsat" /\ query = "ub_src" ->
              IF "fail_if_src_is_ub" \in cfg THEN Return(add(errs, "always UB", FALSE)) /\ UNCHANGED warnings
              ELSE warnings' = warnings \cup {"always UB"} /\ Continue(errs)
         [] r = "Unsat" /\ query = "pre" -> Return(add(errs, "precondition false", FALSE)) /\ UNCHANGED warnings
         [] OTHER -> warnings' = {} /\ Return({<<"no return", FALSE>>})

\* Mutant: a time-out is passed over.
errorQuiet(r, es) ==
  IF r = "Timeout" THEN [errs |-> es, go |-> TRUE]
  ELSE [errs |-> add(es, r, r = "Sat"), go |-> r \in {"Invalid", "Skip"}]
\* error(): what an answer other than "unsat" means, and whether to go on.
error(r, es) ==
  CASE r \in {"Invalid", "Skip"}  -> [errs |-> add(es, r, FALSE), go |-> TRUE]
    [] r \in {"Timeout", "Error"} -> [errs |-> add(es, r, FALSE), go |-> FALSE]
    [] r = "Sat" -> [errs |-> add(es, IF case.approx THEN "approximated" ELSE "counterexample", ~case.approx),
                     go |-> FALSE]
CheckRefinement ==
  /\ InQuery /\ query \notin {"ub_src", "pre", "return_src", "return_tgt"}
  /\ \E r \in Answers(query) : \E r2 \in Again(query, r) :
       LET before == IF query = "guardable_ub_src" /\ ~case.nullDeref
                     THEN add(errs, "Null is not dereferenceable", FALSE) ELSE errs
       IN
       IF r2 = "Unsat" THEN Continue(before)
       ELSE LET e == error(r2, before)
            IN  IF e.go THEN Continue(e.errs) ELSE Return(e.errs)
  /\ UNCHANGED warnings
Finish ==
  /\ pc \in {99, Len(Queries) + 1}
  /\ status' = IF errs = {} THEN "CORRECT" ELSE IF isUnsound(errs) THEN "UNSOUND" ELSE "FAILED_TO_PROVE"
  /\ pc' = 100
  /\ UNCHANGED <<case, fwd, errs, warnings, counts, loop>>

\* compareFunctions: one count, and the reverse direction when asked for.
Counter == [ERROR |-> "errors", TYPE_CHECKER_FAILED |-> "errors", SYNTACTIC_EQ |-> "correct",
            CORRECT |-> "correct", UNSOUND |-> "unsound", FAILED_TO_PROVE |-> "failed"]
CompareFunctions ==
  /\ pc = 100 /\ fwd /\ "alive" \notin cfg
  /\ counts' = [counts EXCEPT ![Counter[status]] = @ + 1]
  /\ IF status \in {"SYNTACTIC_EQ", "CORRECT"} /\ "bidirectional" \in cfg
     THEN fwd' = FALSE /\ pc' = 0 /\ errs' = {} /\ warnings' = {} /\ status' = "none"
     ELSE pc' = 101 /\ UNCHANGED <<fwd, errs, warnings, status>>
  /\ UNCHANGED <<case, loop>>
CompareReverse ==
  /\ pc = 100 /\ ~fwd /\ pc' = 101
  /\ UNCHANGED <<case, fwd, errs, warnings, status, counts, loop>>

(***************************************************************************)
(* The stand-alone tool: the typings one after the other.  After a typing  *)
(* is verified its model is blocked, without the variables that the type   *)
(* constraints alone do not need.                                          *)
(***************************************************************************)
\* TypingAssignments: a query that is satisfiable has a model for the next
\* verification.  Without an answer the first one counts as a type error,
\* and a later one fails the assertion of operator++.
CheckTyping ==
  /\ pc = 102
  /\ \E r \in {IF typing # {} THEN "Sat" ELSE "Unsat"} \cup Unknowns :
       \/ /\ r = "Sat" /\ model' \in typing
          /\ pc' = 0 /\ errs' = {} /\ warnings' = {} /\ status' = "none"
       \/ /\ r # "Sat" /\ status = "none"
          /\ pc' = 101 /\ status' = "TYPE_CHECKER_FAILED" /\ UNCHANGED <<model, errs, warnings>>
       \/ /\ r = "Unsat" /\ status # "none"
          /\ pc' = 101 /\ UNCHANGED <<model, errs, warnings, status>>
       \/ /\ r \in Unknowns /\ status # "none"
          /\ pc' = 104 /\ status' = "ASSERT" /\ UNCHANGED <<model, errs, warnings>>
  /\ UNCHANGED <<case, fwd, counts, typing, kept, todo, verified, gaveUp>>

\* The loop of alive.cpp after a verification.
NextTyping ==
  /\ pc = 100 /\ "alive" \in cfg
  /\ IF status = "CORRECT"
     THEN /\ verified' = verified \cup {fixupTypes(model)}
          /\ counts' = [counts EXCEPT !.correct = @ + 1]
          /\ pc' = 103 /\ kept' = TypeVars /\ todo' = TypeVars
     ELSE pc' = 101 /\ UNCHANGED <<verified, counts, kept, todo>>
  /\ UNCHANGED <<case, fwd, errs, warnings, status, typing, model, gaveUp>>

\* Mutant: an assignment stays only if the query is satisfiable.
DiscardUnlessSat ==
  /\ pc = 103
  /\ \E v \in todo :
       LET rest == kept \ {v}
       IN  \E r \in snegAnswers(rest) :
           /\ kept' = IF r = "Sat" THEN kept ELSE rest
           /\ todo' = todo \ {v}
           /\ gaveUp' = IF r \in Unknowns THEN gaveUp + 1 ELSE gaveUp
  /\ UNCHANGED <<case, pc, fwd, errs, warnings, status, counts, typing, model, verified>>
\* Solver::block, one assignment: it is left out of the clause if the others
\* contradict the negated constraints, which sneg holds.  The assignments are
\* taken in the order of the ids of Z3's terms, which may be any.
Discard ==
  /\ pc = 103
  /\ \E v \in todo :
       LET rest == kept \ {v}
       IN  \E r \in snegAnswers(rest) :
           /\ kept' = IF r = "Unsat" THEN rest ELSE kept
           /\ todo' = todo \ {v}
           /\ gaveUp' = IF r \in Unknowns THEN gaveUp + 1 ELSE gaveUp
  /\ UNCHANGED <<case, pc, fwd, errs, warnings, status, counts, typing, model, verified>>
\* Solver::block, the clause.
Block ==
  /\ pc = 103 /\ todo = {}
  /\ typing' = typing \ Cube(model, kept)
  /\ pc' = 102 /\ model' = <<>> /\ kept' = {}
  /\ UNCHANGED <<case, fwd, errs, warnings, status, counts, todo, verified, gaveUp>>

Next == \/ Static \/ CheckSource \/ CheckRefinement \/ Finish
        \/ CompareFunctions \/ CompareReverse
        \/ CheckTyping \/ NextTyping \/ Discard \/ Block
Spec == Init /\ [][Next]_vars

(***************************************************************************)
(* Properties.                                                             *)
(***************************************************************************)

\* What the target does is allowed by one of the choices of the source: the
\* definition the queries of check_refinement are split from.
Allowed(s, t) == \/ ~fndom(s) \/ sinkDomain(t, TRUE)
                 \/ /\ fndom(t) /\ retdom(s) = retdom(t)
                    /\ retdom(s) => /\ memory(s) = memory(t)
                                    /\ non_poison(s) => non_poison(t) /\ value(s) = value(t)
Refined == \A i \in Inputs, nt \in Choices :
              pre(B[i][nt]) /\ (\E ns \in Choices : pre(A[i][ns])) =>
                 \E ns \in Choices : pre(A[i][ns]) /\ Allowed(A[i][ns], B[i][nt])
\* Whether the source returns is not a matter of its choices.
ReturnsUniformly == \A i \in Inputs : \A m, n \in Choices :
                       pre(A[i][m]) /\ pre(A[i][n]) => (A[i][m].end = "noret") = (A[i][n].end = "noret")

\* Where the source may return poison or a value, both with the same memory.
\* The memory query asks for a choice with the right memory, the poison query
\* for one with poison, and nothing for one with both.
PoisonKeepsMemory == \A i \in Inputs : \A m, n \in Choices :
                        (/\ pre(A[i][m]) /\ retdom(A[i][m]) /\ ~non_poison(A[i][m])
                         /\ pre(A[i][n]) /\ retdom(A[i][n]) /\ non_poison(A[i][n]))
                           => memory(A[i][m]) = memory(A[i][n])

\* "Correct" only for a refinement, whatever the solver fails to answer: the
\* queries check_refinement splits the definition into add up to it, for
\* sources whose choices decide neither whether they return nor, together,
\* about poison and about memory.
CorrectIsRefinement ==
  pc \in {100, 101} /\ status = "CORRECT" /\ "disallow_ub" \notin cfg
     /\ ReturnsUniformly /\ PoisonKeepsMemory => Refined
\* "Unsound" only with a real counterexample, when the choice expr::some
\* picks is allowed by the preconditions and returns: encode_undef_refinement
\* compares with the value of that choice, whatever it does.
DefaultReturns == \A i \in Inputs : \A b \in {A[i][Default], B[i][Default]} : pre(b) /\ (retdom(b) \/ ub(b))
UnsoundIsReal ==
  status = "UNSOUND" /\ case.static = "ok" /\ "disallow_ub" \notin cfg /\ DefaultReturns => ~Refined
\* Without undefined behaviour to exploit: an accepted pair of deterministic
\* programs has no UB that a guard would remove, no reachable unreachable and
\* no poison where the source returns (disallow_ub_exploitation).
Deterministic(P) == \A i \in Inputs, n \in Choices : P[i][n] = P[i][Default]
NoExploitedUB ==
  status = "CORRECT" /\ "disallow_ub" \in cfg /\ Deterministic(A) /\ Deterministic(B) =>
     \A i \in Inputs : pre(A[i][Default]) /\ pre(B[i][Default]) /\ retdom(A[i][Default]) =>
        {A[i][Default].end, B[i][Default].end} \cap {"gub", "unreach", "poison"} = {}
\* The stand-alone tool says "correct" only after a verification with every
\* combination of types that the constraints allow, although a clause of
\* Solver::block rules out more than the model it was made from, some of its
\* queries are not answered and fixup reads fewer variables than there are.
AllTypingsVerified ==
  pc = 101 /\ "alive" \in cfg /\ status = "CORRECT" =>
     {fixupTypes(t) : t \in Typings} \subseteq verified
=============================================================================
