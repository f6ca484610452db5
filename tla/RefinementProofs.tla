-------------------------- MODULE RefinementProofs --------------------------
(***************************************************************************)
(* Proofs about Refinement, for any inputs, choices, programs and typings: *)
(* what the verdicts of the checker mean.                                  *)
(***************************************************************************)
EXTENDS Refinement, TLAPS

\* The queries whose answer other than "unsat" is an error.
SourceQueries == {"ub_src", "pre", "return_src", "return_tgt"}

\* The queries that look for a failure of refinement.
Refining(q) == q \notin SourceQueries

-----------------------------------------------------------------------------
(* What the queries add up to, for one state of the checker. *)

\* Nothing is found by the queries of the default configuration.
NothingFound == \A q \in {"ub", "retdom", "poison", "value", "memory"} : ~mk_fml(q)

\* The queries split the definition of refinement: for each target choice they
\* leave a source choice each, and together one that allows it.  For a target
\* that returns poison, the choice of the poison query allows it if the choice
\* of the memory query is not poison, since both have the same memory.
LEMMA QueriesAddUp ==
  ASSUME "disallow_ub" \notin cfg, NothingFound, ReturnsUniformly, PoisonKeepsMemory
  PROVE  Refined
<1> SUFFICES ASSUME NEW i \in Inputs, NEW nt \in Choices, pre(B[i][nt]),
                    NEW ne \in Choices, pre(A[i][ne])
             PROVE  \E ns \in Choices : pre(A[i][ns]) /\ Allowed(A[i][ns], B[i][nt])
  BY DEF Refined
<1> DEFINE t == B[i][nt]
           S == {ns \in Choices : pre(A[i][ns])}
           V(q, ns) == Violates(q, A[i][ns], A[i][Default], t, B[i][Default])
<1>1. ASSUME NEW q \in {"ub", "retdom", "poison", "value", "memory"}
      PROVE  \E ns \in S : ~V(q, ns)
  BY DEF NothingFound, mk_fml
<1> HIDE DEF S
<1>2. CASE \E ns \in S : ~fndom(A[i][ns])
  BY <1>2 DEF Allowed, S
<1>3. CASE sinkDomain(t, TRUE)
  BY <1>3 DEF Allowed, S
<1>4. CASE (\A ns \in S : fndom(A[i][ns])) /\ ~sinkDomain(t, TRUE)
  <2>1. fndom(t)
    BY <1>1, <1>4 DEF Violates
  <2>2. \E ns \in S : retdom(A[i][ns]) = retdom(t)
    BY <1>1, <1>4, <2>1 DEF Violates
  <2>3. \A ns \in S : retdom(A[i][ns]) = retdom(t)
    BY <1>4, <2>2 DEF ReturnsUniformly, retdom, S
  <2>4. CASE ~retdom(t)
    BY <2>1, <2>3, <2>4 DEF Allowed, S
  <2>5. CASE retdom(t)
    <3>1. PICK ns \in S : value_cnstr(A[i][ns], t) /\ memory(A[i][ns]) = memory(t)
      BY <1>1, <2>3, <2>5 DEF Violates
    <3>2. PICK np \in S : poison_cnstr(A[i][np], t)
      BY <1>1, <2>3, <2>5 DEF Violates
    <3>3. CASE ~non_poison(t)
      <4>1. ~non_poison(A[i][np])
        BY <3>2, <3>3 DEF poison_cnstr
      <4>2. CASE non_poison(A[i][ns])
        <5>1. memory(A[i][np]) = memory(A[i][ns])
          BY <2>3, <2>5, <4>1, <4>2 DEF PoisonKeepsMemory, S
        <5>2. QED
          BY <3>1, <4>1, <5>1, <2>1, <2>3 DEF Allowed, S
      <4>3. CASE ~non_poison(A[i][ns])
        BY <3>1, <4>3, <2>1, <2>3 DEF Allowed, S
      <4>4. QED
        BY <4>2, <4>3
    <3>4. CASE non_poison(t)
      BY <3>1, <3>4, <2>1, <2>3 DEF Allowed, value_cnstr, S
    <3>5. QED
      BY <3>3, <3>4
  <2>6. QED
    BY <2>4, <2>5
<1>5. QED
  BY <1>2, <1>3, <1>4

\* A counterexample to any query of the default configuration refutes the
\* definition. The undef query compares with the values of the default choice,
\* which is why that choice has to return on both sides.
LEMMA CounterexampleIsReal ==
  ASSUME "disallow_ub" \notin cfg, DefaultReturns,
         NEW q \in {"ub", "retdom", "poison", "undef", "value", "memory"}, mk_fml(q)
  PROVE  ~Refined
<1> USE RefinementAssumption
<1>1. PICK i \in Inputs, nt \in Choices, ne \in Choices :
        /\ pre(A[i][ne]) /\ pre(B[i][nt])
        /\ \A ns \in Choices : pre(A[i][ns]) => Violates(q, A[i][ns], A[i][Default], B[i][nt], B[i][Default])
  BY DEF mk_fml
<1> DEFINE t == B[i][nt]
           s0 == A[i][Default]
           t0 == B[i][Default]
<1>2. CASE q # "undef"
  <2>1. ASSUME NEW ns \in Choices, pre(A[i][ns]) PROVE ~Allowed(A[i][ns], t)
    <3>1. Violates(q, A[i][ns], s0, t, t0)
      BY <1>1, <2>1
    <3>2. CASE q \in {"ub", "retdom"}
      BY <3>1, <3>2 DEF Violates, Allowed, fndom, retdom, sinkDomain
    <3>3. CASE q \in {"poison", "value", "memory"}
      BY <3>1, <3>3 DEF Violates, Allowed, fndom, retdom, sinkDomain, poison_cnstr, value_cnstr
    <3>4. QED
      BY <1>2, <3>2, <3>3
  <2>2. QED
    BY <1>1, <2>1 DEF Refined
<1>3. CASE q = "undef"
  <2>1. ASSUME NEW ns \in Choices, pre(A[i][ns])
        PROVE  /\ retdom(A[i][ns]) /\ retdom(t)
               /\ non_poison(A[i][ns]) /\ value(A[i][ns]) = value(s0) /\ value(t) # value(t0)
    BY <1>1, <1>3, <2>1 DEF Violates, encode_undef_refinement
  <2>2. pre(t0) /\ (retdom(t0) \/ ub(t0))
    BY DEF DefaultReturns
  <2>3. CASE value(s0) # value(t)
    <3>1. ASSUME NEW ns \in Choices, pre(A[i][ns]) PROVE ~Allowed(A[i][ns], t)
      BY <2>1, <2>3, <3>1 DEF Allowed, retdom, fndom, sinkDomain
    <3>2. QED
      BY <1>1, <3>1 DEF Refined
  <2>4. CASE value(s0) = value(t)
    <3>1. ASSUME NEW ns \in Choices, pre(A[i][ns]) PROVE ~Allowed(A[i][ns], t0)
      BY <2>1, <2>2, <2>4, <3>1 DEF Allowed, retdom, fndom, sinkDomain, ub
    <3>2. QED
      BY <1>1, <2>2, <3>1 DEF Refined
  <2>5. QED
    BY <2>3, <2>4
<1>4. QED
  BY <1>2, <1>3

\* With disallow_ub the queries leave no behaviour that exploits UB.
LEMMA NothingExploited ==
  ASSUME "disallow_ub" \in cfg, Deterministic(A), Deterministic(B),
         \A q \in {"guardable_ub_src", "guardable_ub_tgt", "unreachable_src",
                   "unreachable_tgt", "poison_src", "poison_tgt"} : ~mk_fml(q),
         NEW i \in Inputs, pre(A[i][Default]), pre(B[i][Default]), retdom(A[i][Default])
  PROVE  {A[i][Default].end, B[i][Default].end} \cap {"gub", "unreach", "poison"} = {}
<1> USE RefinementAssumption
<1> DEFINE s == A[i][Default]
           t == B[i][Default]
<1>1. ASSUME NEW q \in {"guardable_ub_src", "guardable_ub_tgt", "unreachable_src",
                        "unreachable_tgt", "poison_src", "poison_tgt"}
      PROVE  ~Violates(q, s, s, t, t)
  <2>1. PICK ns \in Choices : ~Violates(q, A[i][ns], s, t, t)
    BY DEF mk_fml
  <2>2. A[i][ns] = s
    BY DEF Deterministic
  <2>3. QED
    BY <2>1, <2>2
<1> HIDE DEF s, t
<1>2. s.end \notin {"gub", "unreach", "poison"}
  <2>1. ~(retdom(s) /\ guard(s)) /\ s.end # "unreach" /\ ~(retdom(s) /\ ~non_poison(s))
    BY <1>1 DEF Violates
  <2>2. QED
    BY <2>1 DEF guard, non_poison, s
<1>3. t.end \notin {"gub", "unreach", "poison"}
  <2>1. ~(retdom(t) /\ guard(t)) /\ t.end # "unreach" /\ ~(retdom(t) /\ ~non_poison(t))
    BY <1>1 DEF Violates, s
  <2>2. QED
    BY <2>1 DEF guard, non_poison, retdom, fndom, ub
<1>4. QED
  BY <1>2, <1>3 DEF s, t

-----------------------------------------------------------------------------
(* The machine *)

\* Refinement query number k was asked without finding anything.
Passed(k) == Refining(Queries[k]) => ~mk_fml(Queries[k])

\* Where the control is: a verdict only after the checker, an error list that
\* is empty before the queries and not after an early return.
ControlInv ==
  /\ pc \in Nat
  /\ pc < 100 => status = "none"
  /\ pc = 0 => errs = {}
  /\ pc = 99 => errs # {}
\* An empty list means that all queries so far were answered "unsat".
SoFarInv   == pc \in 1..Len(Queries) + 1 /\ errs = {} => \A k \in 1..pc - 1 : Passed(k)
\* A verdict of "correct" means that all of them were.
CorrectInv == status = "CORRECT" => \A k \in 1..Len(Queries) : Passed(k)
\* An unsound error comes from a query that has a model.
UnsoundInv ==
  /\ status = "UNSOUND" => isUnsound(errs)
  /\ case.static = "ok" /\ isUnsound(errs) => \E k \in 1..Len(Queries) : ~Passed(k)
\* What the error list and the verdict say of the queries: the inductive
\* invariant of the checker.
VerdictInv == ControlInv /\ SoFarInv /\ CorrectInv /\ UnsoundInv

\* There are 10 or 16 queries.
LEMMA QueryCount ==
  /\ Len(Queries) \in {10, 16} /\ DOMAIN Queries = 1..Len(Queries)
  /\ "disallow_ub" \notin cfg => {Queries[k] : k \in 1..Len(Queries)} =
       SourceQueries \cup {"ub", "retdom", "poison", "undef", "value", "memory"}
  /\ "disallow_ub" \in cfg =>
       {"guardable_ub_src", "guardable_ub_tgt", "unreachable_src", "unreachable_tgt",
        "poison_src", "poison_tgt"} \subseteq {Queries[k] : k \in 1..Len(Queries)}
<1>1. CASE "disallow_ub" \notin cfg
  <2>1. Len(Queries) = 10 /\ DOMAIN Queries = 1..10
    BY <1>1 DEF Queries
  <2>2. 1..10 = {1, 2, 3, 4, 5, 6, 7, 8, 9, 10}
    OBVIOUS
  <2>3. {Queries[k] : k \in 1..10} =
          SourceQueries \cup {"ub", "retdom", "poison", "undef", "value", "memory"}
    BY <1>1, <2>2 DEF Queries, SourceQueries
  <2>4. QED
    BY <1>1, <2>1, <2>3
<1>2. CASE "disallow_ub" \in cfg
  <2>1. Len(Queries) = 16 /\ DOMAIN Queries = 1..16
    BY <1>2 DEF Queries
  <2>2. /\ Queries[5] = "guardable_ub_src" /\ Queries[6] = "guardable_ub_tgt"
        /\ Queries[7] = "unreachable_src" /\ Queries[8] = "unreachable_tgt"
        /\ Queries[11] = "poison_src" /\ Queries[12] = "poison_tgt"
    BY <1>2 DEF Queries
  <2>3. QED
    BY <1>2, <2>1, <2>2
<1>3. QED
  BY <1>1, <1>2

\* A query is about the pair of programs and the direction, nothing else.
LEMMA PassedStable ==
  ASSUME UNCHANGED <<case, fwd>>, NEW k
  PROVE  Passed(k)' <=> Passed(k)
BY DEF Passed, Refining, mk_fml, Queries, cfg, A, B, pre, Violates, guard, ub, fndom, retdom,
       sinkDomain, non_poison, value, memory, poison_cnstr, value_cnstr, encode_undef_refinement

\* What Z3's answer to a refinement query means.
LEMMA AnswerMeans ==
  ASSUME InQuery, Refining(query), NEW r \in Answers(query), NEW r2 \in Again(query, r)
  PROVE  /\ r2 \in {"Sat", "Unsat", "Invalid", "Skip", "Timeout", "Error"}
         /\ r2 = "Unsat" => ~mk_fml(query)
         /\ r2 = "Sat" => mk_fml(query)
<1> USE RefinementAssumption
<1>1. Sat(query) <=> mk_fml(query)
  BY DEF Sat, Refining, SourceQueries
<1>2. QED
  BY <1>1 DEF Answers, Again

\* The number of queries, alone.
LEMMA QueryLen == Len(Queries) \in {10, 16} /\ DOMAIN Queries = 1..Len(Queries)
BY QueryCount

\* What an error in a list says after one is added to it.
LEMMA AddErrors ==
  ASSUME NEW es, NEW m, NEW u \in BOOLEAN
  PROVE  /\ add(es, m, u) # {}
         /\ isUnsound(add(es, m, u)) => u \/ isUnsound(es)
<1>1. \A e \in add(es, m, u) : e \in es \/ e = <<m, u>>
  BY DEF add
<1>2. <<m, u>> \in add(es, m, u) /\ <<m, u>>[2] = u
  BY DEF add
<1>3. QED
  BY <1>1, <1>2 DEF isUnsound

\* The queries are the same in the next state as long as the case is.
LEMMA SameQueries ==
  ASSUME UNCHANGED case
  PROVE  Queries' = Queries
BY DEF Queries, cfg

\* No verdict is a query.
LEMMA NotAQuery == \A n \in {99, 100, 101, 102, 103, 104} : n \notin 1..Len(Queries) + 1
<1>1. CASE Len(Queries) = 10
  BY <1>1
<1>2. CASE Len(Queries) = 16
  BY <1>2
<1>3. QED
  BY <1>1, <1>2, QueryLen

\* The invariant holds initially, before any query.
LEMMA InitVerdict == Init => VerdictInv
<1> SUFFICES ASSUME Init PROVE VerdictInv
  OBVIOUS
<1>1. pc \in {0, 102} /\ errs = {} /\ status = "none"
  BY DEF Init
<1>2. pc \notin 1..Len(Queries) + 1
  BY <1>1, NotAQuery
<1>3. QED
  BY <1>1, <1>2 DEF VerdictInv, ControlInv, SoFarInv, CorrectInv, UnsoundInv, isUnsound

\* The static part ends a verification, or enters the queries with no error.
LEMMA StaticVerdict == VerdictInv /\ Static => VerdictInv'
<1> SUFFICES ASSUME VerdictInv, Static PROVE VerdictInv'
  OBVIOUS
<1> USE QueryLen
<1>1. UNCHANGED <<case, fwd>> /\ Queries' = Queries
  BY SameQueries DEF Static, Return
<1>2. pc = 0 /\ errs = {} /\ status = "none"
  BY DEF Static, VerdictInv, ControlInv
<1>3. ~isUnsound({})
  BY DEF isUnsound
<1>4. CASE pc' = 100 /\ status' \in {"ERROR", "SYNTACTIC_EQ", "TYPE_CHECKER_FAILED"} /\ errs' = errs
  <2>1. ControlInv'
    BY <1>1, <1>2, <1>3, <1>4 DEF ControlInv, isUnsound
  <2>0. ~(pc \in 1..Len(Queries) + 1)'
    BY <1>1, <1>4, NotAQuery
  <2>2. SoFarInv'
    BY <2>0 DEF SoFarInv
  <2>3. CorrectInv'
    BY <1>1, <1>2, <1>3, <1>4 DEF CorrectInv, isUnsound
  <2>4. UnsoundInv'
    BY <1>1, <1>2, <1>3, <1>4 DEF UnsoundInv, isUnsound
  <2>5. QED
    BY <2>1, <2>2, <2>3, <2>4 DEF VerdictInv
<1>5. CASE pc' = 99 /\ status' = status /\ errs' # {} /\ case.static # "ok"
  BY <1>1, <1>2, <1>5 DEF VerdictInv, ControlInv, SoFarInv, CorrectInv, UnsoundInv
<1>6. CASE pc' = 1 /\ errs' = errs /\ status' = status
  BY <1>1, <1>2, <1>3, <1>6 DEF VerdictInv, ControlInv, SoFarInv, CorrectInv, UnsoundInv, isUnsound
<1>7. QED
  BY <1>2, <1>4, <1>5, <1>6 DEF Static, Return

\* A step from a query: what the new error list has to say.
LEMMA QueryVerdict ==
  ASSUME VerdictInv, InQuery, UNCHANGED <<case, fwd, status>>, pc' \in {99, pc + 1},
         pc' = 99 => errs' # {},
         errs' = {} => errs = {} /\ Passed(pc),
         isUnsound(errs') => isUnsound(errs) \/ ~Passed(pc)
  PROVE  VerdictInv'
<1> USE QueryLen
<1>1. Queries' = Queries
  BY SameQueries
<1>2. pc \in 1..Len(Queries)
  BY DEF InQuery
<1>3. \A k : Passed(k)' <=> Passed(k)
  BY PassedStable
<1>4. status = "none" /\ pc \in Nat /\ pc < 17
  BY <1>2 DEF VerdictInv, ControlInv
<1>5. errs' = {} => \A k \in 1..pc' - 1 : Passed(k)'
  <2>1. errs' = {} => pc' = pc + 1 /\ (\A k \in 1..pc - 1 : Passed(k)) /\ Passed(pc)
    BY <1>2 DEF VerdictInv, ControlInv, SoFarInv
  <2>2. QED
    BY <2>1, <1>3, <1>4
<1>6. case.static = "ok" /\ isUnsound(errs') => \E k \in 1..Len(Queries) : ~Passed(k)'
  BY <1>2, <1>3 DEF VerdictInv, UnsoundInv
<1>7. isUnsound(errs)' <=> isUnsound(errs')
  BY DEF isUnsound
<1>8. ControlInv'
  BY <1>1, <1>4, <1>5, <1>6, <1>7 DEF ControlInv
<1>9. SoFarInv'
  BY <1>1, <1>4, <1>5, <1>6, <1>7 DEF SoFarInv
<1>10. CorrectInv'
  BY <1>1, <1>4, <1>5, <1>6, <1>7 DEF CorrectInv
<1>11. UnsoundInv'
  BY <1>1, <1>4, <1>5, <1>6, <1>7 DEF UnsoundInv
<1>12. QED
  BY <1>8, <1>9, <1>10, <1>11 DEF VerdictInv

\* The queries on the programs leave the list alone or return with an error.
LEMMA SourceVerdict == VerdictInv /\ CheckSource => VerdictInv'
<1> SUFFICES ASSUME VerdictInv, CheckSource PROVE VerdictInv'
  OBVIOUS
<1>1. InQuery /\ Passed(pc)
  BY DEF CheckSource, Passed, Refining, SourceQueries, query
<1>0. pc \in 1..16
  BY <1>1, QueryLen DEF InQuery
<1>2. CASE Continue(errs)
  BY <1>0, <1>1, <1>2, QueryVerdict DEF Continue
<1>3. CASE \E m : Return(add(errs, m, FALSE))
  <2>1. PICK m : Return(add(errs, m, FALSE))
    BY <1>3
  <2>2. errs' # {} /\ (isUnsound(errs') => isUnsound(errs))
    BY <2>1, AddErrors DEF Return
  <2>3. QED
    BY <1>1, <2>1, <2>2, QueryVerdict DEF Return
<1>4. CASE Return({<<"no return", FALSE>>})
  <2>1. errs' = add({}, "no return", FALSE)
    BY <1>4 DEF Return, add
  <2>4. ~isUnsound({})
    BY DEF isUnsound
  <2>3. errs' # {} /\ ~isUnsound(errs')
    BY <2>1, <2>4, AddErrors
  <2>2. QED
    BY <1>1, <1>4, <2>3, QueryVerdict DEF Return
<1>5. PICK r \in Answers(query) :
       CASE r # "Unsat" -> Continue(errs) /\ UNCHANGED warnings
         [] r = "Unsat" /\ query = "ub_src" ->
              IF "fail_if_src_is_ub" \in cfg THEN Return(add(errs, "always UB", FALSE)) /\ UNCHANGED warnings
              ELSE warnings' = warnings \cup {"always UB"} /\ Continue(errs)
         [] r = "Unsat" /\ query = "pre" -> Return(add(errs, "precondition false", FALSE)) /\ UNCHANGED warnings
         [] OTHER -> warnings' = {} /\ Return({<<"no return", FALSE>>})
  BY DEF CheckSource
<1>6. QED
  BY <1>2, <1>3, <1>4, <1>5, Zenon

\* A refinement query leaves the list alone only when it found nothing, and
\* adds an unsound error only when it has a model.
LEMMA RefinementVerdict == VerdictInv /\ CheckRefinement => VerdictInv'
<1> SUFFICES ASSUME VerdictInv, CheckRefinement PROVE VerdictInv'
  OBVIOUS
<1> DEFINE before == IF query = "guardable_ub_src" /\ ~case.nullDeref
                     THEN add(errs, "Null is not dereferenceable", FALSE) ELSE errs
<1>0. PICK r \in Answers(query) : \E r2 \in Again(query, r) :
        IF r2 = "Unsat" THEN Continue(before)
        ELSE IF error(r2, before).go THEN Continue(error(r2, before).errs)
             ELSE Return(error(r2, before).errs)
  BY DEF CheckRefinement
<1>1. PICK r2 \in Again(query, r) :
        IF r2 = "Unsat" THEN Continue(before)
        ELSE IF error(r2, before).go THEN Continue(error(r2, before).errs)
             ELSE Return(error(r2, before).errs)
  BY <1>0
<1>2. InQuery /\ Refining(query)
  BY DEF CheckRefinement, Refining, SourceQueries
<1>8. pc \in 1..16
  BY <1>2, QueryLen DEF InQuery
<1>3. /\ r2 \in {"Sat", "Unsat", "Invalid", "Skip", "Timeout", "Error"}
      /\ r2 = "Unsat" => Passed(pc)
      /\ r2 = "Sat" => ~Passed(pc)
  BY <1>2, AnswerMeans DEF Passed, query
<1>4. (before = {} => errs = {}) /\ (isUnsound(before) => isUnsound(errs))
  BY AddErrors
<1> HIDE DEF before
<1>5. CASE r2 = "Unsat"
  <2>1. Continue(before)
    BY <1>1, <1>5
  <2>2. QED
    BY <1>2, <1>3, <1>4, <1>5, <1>8, <2>1, QueryVerdict DEF Continue
<1>6. CASE r2 # "Unsat"
  <2>1. /\ Continue(error(r2, before).errs) \/ Return(error(r2, before).errs)
    BY <1>1, <1>6
  <2>2. \E m, u : /\ u \in BOOLEAN /\ (u => r2 = "Sat")
                  /\ error(r2, before).errs = add(before, m, u)
    <3>1. CASE r2 = "Sat"
      <4>1. error(r2, before).errs =
              add(before, IF case.approx THEN "approximated" ELSE "counterexample", ~case.approx)
        BY <3>1 DEF error
      <4>2. QED
        BY <3>1, <4>1
    <3>2. CASE r2 \in {"Invalid", "Skip", "Timeout", "Error"}
      <4>1. error(r2, before).errs = add(before, r2, FALSE)
        BY <3>2 DEF error
      <4>2. QED
        BY <4>1
    <3>3. QED
      BY <1>3, <1>6, <3>1, <3>2
  <2>3. errs' # {} /\ (isUnsound(errs') => r2 = "Sat" \/ isUnsound(before))
    BY <2>1, <2>2, AddErrors DEF Continue, Return
  <2>4. QED
    BY <1>2, <1>3, <1>4, <2>1, <2>3, QueryVerdict DEF Continue, Return
<1>7. QED
  BY <1>5, <1>6

\* The verdict is read off the list.
LEMMA FinishVerdict == VerdictInv /\ Finish => VerdictInv'
<1> SUFFICES ASSUME VerdictInv, Finish PROVE VerdictInv'
  OBVIOUS
<1> USE QueryLen
<1>1. Queries' = Queries
  BY SameQueries DEF Finish
<1>2. \A k : Passed(k)' <=> Passed(k)
  BY PassedStable DEF Finish
<1>3. errs = {} => pc = Len(Queries) + 1 /\ \A k \in 1..Len(Queries) : Passed(k)
  BY DEF Finish, VerdictInv, ControlInv, SoFarInv
<1>4. isUnsound(errs)' <=> isUnsound(errs)
  BY DEF isUnsound, Finish
<1>5. ControlInv'
  BY <1>1, <1>2, <1>3, <1>4 DEF ControlInv, VerdictInv, Finish
<1>6. SoFarInv'
  BY <1>1, <1>2, <1>3, <1>4 DEF SoFarInv, VerdictInv, Finish
<1>7. CorrectInv'
  BY <1>1, <1>2, <1>3, <1>4 DEF CorrectInv, VerdictInv, Finish
<1>8. UnsoundInv'
  BY <1>1, <1>2, <1>3, <1>4 DEF UnsoundInv, VerdictInv, Finish
<1>9. QED
  BY <1>5, <1>6, <1>7, <1>8 DEF VerdictInv

\* The callers of the checker: the comparison of two functions and the loop
\* over the typings.
Caller == \/ CompareFunctions \/ CompareReverse
          \/ CheckTyping \/ NextTyping \/ Discard \/ Block
          \/ UNCHANGED vars

\* The callers of the checker keep a verdict or start over.
LEMMA CallerVerdict == VerdictInv /\ Caller => VerdictInv'
<1> SUFFICES ASSUME VerdictInv, Caller PROVE VerdictInv'
  OBVIOUS
<1> USE QueryLen
<1>1. UNCHANGED case /\ Queries' = Queries
  BY SameQueries DEF Caller, CompareFunctions, CompareReverse, CheckTyping, NextTyping, Discard, Block, vars
<1>2. CASE pc' = 0 /\ errs' = {} /\ status' = "none"
  BY <1>1, <1>2 DEF VerdictInv, ControlInv, SoFarInv, CorrectInv, UnsoundInv, isUnsound
<1>3. CASE /\ pc' = pc \/ pc' \in {101, 102, 103, 104}
           /\ UNCHANGED <<fwd, errs>>
           /\ status' = status \/ (pc' # pc /\ status' \in {"TYPE_CHECKER_FAILED", "ASSERT"})
  <2>1. \A k : Passed(k)' <=> Passed(k)
    BY <1>1, <1>3, PassedStable
  <2>2. isUnsound(errs)' <=> isUnsound(errs)
    BY <1>3 DEF isUnsound
  <2>3. ControlInv'
    BY <1>1, <1>3, <2>1, <2>2 DEF ControlInv, VerdictInv
  <2>4. SoFarInv'
    <3>1. CASE pc' = pc
      BY <1>1, <1>3, <2>1, <3>1 DEF SoFarInv, VerdictInv
    <3>2. CASE pc' \in {101, 102, 103, 104}
      <4>1. ~(pc \in 1..Len(Queries) + 1)'
        BY <1>1, <3>2, NotAQuery
      <4>2. QED
        BY <4>1 DEF SoFarInv
    <3>3. QED
      BY <1>3, <3>1, <3>2
  <2>5. CorrectInv'
    BY <1>1, <1>3, <2>1, <2>2 DEF CorrectInv, VerdictInv
  <2>6. UnsoundInv'
    BY <1>1, <1>3, <2>1, <2>2 DEF UnsoundInv, VerdictInv
  <2>7. QED
    BY <2>3, <2>4, <2>5, <2>6 DEF VerdictInv
<1>4. CASE CheckTyping
  BY <1>2, <1>3, <1>4 DEF CheckTyping
<1>5. QED
  BY <1>2, <1>3, <1>4 DEF Caller, CompareFunctions, CompareReverse, NextTyping, Discard, Block, vars

\* The invariant is inductive.
LEMMA VerdictInvariance == Spec => []VerdictInv
<1>1. VerdictInv /\ [Next]_vars => VerdictInv'
  BY StaticVerdict, SourceVerdict, RefinementVerdict, FinishVerdict, CallerVerdict DEF Next, Caller
<1>2. QED
  BY <1>1, InitVerdict, PTL DEF Spec

\* A verdict of "correct" by the default configuration means refinement: the
\* queries add up to the definition, and no answer but "unsat" to all of them
\* leaves the error list empty.
THEOREM CorrectMeansRefined == Spec => []CorrectIsRefinement
<1>1. VerdictInv => CorrectIsRefinement
  <2> SUFFICES ASSUME VerdictInv, status = "CORRECT", "disallow_ub" \notin cfg,
                      ReturnsUniformly, PoisonKeepsMemory
               PROVE  Refined
    BY DEF CorrectIsRefinement
  <2>1. \A k \in 1..Len(Queries) : Passed(k)
    BY DEF VerdictInv, CorrectInv
  <2>2. ASSUME NEW q \in {"ub", "retdom", "poison", "value", "memory"} PROVE ~mk_fml(q)
    <3>0. q \in {Queries[k] : k \in 1..Len(Queries)}
      BY QueryCount
    <3>1. PICK k \in 1..Len(Queries) : q = Queries[k]
      BY <3>0
    <3>2. QED
      BY <2>1, <3>1 DEF Passed, Refining, SourceQueries
  <2>3. QED
    BY <2>2, QueriesAddUp DEF NothingFound
<1>2. QED
  BY <1>1, VerdictInvariance, PTL

\* A verdict of "unsound" by the default configuration comes with a
\* counterexample to refinement, where the default choice returns.
THEOREM UnsoundMeansCounterexample == Spec => []UnsoundIsReal
<1>1. VerdictInv => UnsoundIsReal
  <2> SUFFICES ASSUME VerdictInv, status = "UNSOUND", case.static = "ok", "disallow_ub" \notin cfg, DefaultReturns
               PROVE  ~Refined
    BY DEF UnsoundIsReal
  <2>1. PICK k \in 1..Len(Queries) : ~Passed(k)
    BY DEF VerdictInv, UnsoundInv
  <2>2. Queries[k] \in {"ub", "retdom", "poison", "undef", "value", "memory"} /\ mk_fml(Queries[k])
    BY <2>1, QueryCount DEF Passed, Refining
  <2>3. QED
    BY <2>2, CounterexampleIsReal
<1>2. QED
  BY <1>1, VerdictInvariance, PTL

\* With disallow_ub_exploitation, an accepted pair of deterministic programs
\* exploits no UB where the source returns.
THEOREM AcceptedExploitsNothing == Spec => []NoExploitedUB
<1>1. VerdictInv => NoExploitedUB
  <2> SUFFICES ASSUME VerdictInv, status = "CORRECT", "disallow_ub" \in cfg, Deterministic(A), Deterministic(B),
                      NEW i \in Inputs, pre(A[i][Default]), pre(B[i][Default]), retdom(A[i][Default])
               PROVE  {A[i][Default].end, B[i][Default].end} \cap {"gub", "unreach", "poison"} = {}
    BY DEF NoExploitedUB
  <2>1. \A k \in 1..Len(Queries) : Passed(k)
    BY DEF VerdictInv, CorrectInv
  <2>2. \A q \in {"guardable_ub_src", "guardable_ub_tgt", "unreachable_src",
                  "unreachable_tgt", "poison_src", "poison_tgt"} : ~mk_fml(q)
    BY <2>1, QueryCount DEF Passed, Refining, SourceQueries
  <2>3. QED
    BY <2>2, NothingExploited
<1>2. QED
  BY <1>1, VerdictInvariance, PTL

-----------------------------------------------------------------------------
(* The typings of the stand-alone tool *)

\* The variables of a symbolic type.
Fields == {"type", "bw", "as", "elements"}

\* A clause that contradicts the negated constraints keeps every variable that
\* fixup reads: without the type, the width of a number or the length of a
\* vector, a model that the constraints forbid would fit it.  So it rules out
\* one combination of types only.
LEMMA CubeMeansOneType ==
  ASSUME NEW t \in Typings, NEW K \in SUBSET TypeVars, Cube(t, K) \subseteq Typings, NEW u \in Cube(t, K)
  PROVE  fixupTypes(u) = fixupTypes(t)
<1> USE TypeAssumption, TypeVarsAssumption
<1>1. t \in Assignments /\ u \in Assignments
  BY DEF Typings, Cube
<1>2. ASSUME NEW n \in TypeNames PROVE fixup(u[n]) = fixup(t[n])
  <2>0. t[n] \in SymbolicType /\ u[n] \in SymbolicType
    BY <1>1 DEF Assignments
  <2>1. ASSUME NEW a \in SymbolicType, ~getTypeConstraints(n, a), NEW f \in Fields,
               \A g \in Fields \ {f} : a[g] = t[n][g]
        PROVE  u[n][f] = t[n][f]
    <3> DEFINE w == [t EXCEPT ![n] = a]
    <3>1. w \in Assignments /\ w[n] = a /\ \A m \in TypeNames \ {n} : w[m] = t[m]
      BY <1>1 DEF Assignments
    <3>2. w \notin Cube(t, K)
      BY <2>1, <3>1 DEF Typings
    <3> HIDE DEF w
    <3>3. PICK v \in K : w[v[1]][v[2]] # t[v[1]][v[2]]
      BY <3>1, <3>2 DEF Cube
    <3>4. v[1] \in TypeNames /\ v[2] \in Fields
      BY DEF Fields
    <3>5. v[1] = n
      BY <3>1, <3>3, <3>4
    <3>6. v[2] = f
      BY <2>1, <3>1, <3>3, <3>4, <3>5
    <3>7. u[v[1]][v[2]] = t[v[1]][v[2]]
      BY DEF Cube
    <3>8. QED
      BY <3>5, <3>6, <3>7
  <2>2. getTypeConstraints(n, t[n])
    BY DEF Typings
  <2>3. u[n].type = t[n].type
    <3> DEFINE a == [t[n] EXCEPT !.type = "Undefined"]
    <3>1. a \in SymbolicType /\ a.type = "Undefined" /\ \A g \in Fields \ {"type"} : a[g] = t[n][g]
      BY <2>0 DEF SymbolicType, Fields
    <3>2. ~getTypeConstraints(n, a)
      BY <3>1 DEF getTypeConstraints
    <3> HIDE DEF a
    <3>3. QED
      BY <2>1, <3>1, <3>2 DEF Fields
  <2>4. t[n].type \in {"Int", "Float"} => u[n].bw = t[n].bw
    <3> DEFINE a == [t[n] EXCEPT !.bw = 0]
    <3>1. a \in SymbolicType /\ a.bw = 0 /\ a.type = t[n].type /\ \A g \in Fields \ {"bw"} : a[g] = t[n][g]
      BY <2>0 DEF SymbolicType, Fields
    <3>2. t[n].type \in {"Int", "Float"} => ~getTypeConstraints(n, a)
      BY <3>1 DEF getTypeConstraints
    <3> HIDE DEF a
    <3>3. QED
      BY <2>1, <3>1, <3>2 DEF Fields
  <2>5. t[n].type = "Vector" => u[n].elements = t[n].elements
    <3> DEFINE a == [t[n] EXCEPT !.elements = 0]
    <3>1. a \in SymbolicType /\ a.elements = 0 /\ a.type = t[n].type /\ \A g \in Fields \ {"elements"} : a[g] = t[n][g]
      BY <2>0 DEF SymbolicType, Fields
    <3>2. t[n].type = "Vector" => ~getTypeConstraints(n, a)
      BY <3>1 DEF getTypeConstraints
    <3> HIDE DEF a
    <3>3. QED
      BY <2>1, <3>1, <3>2 DEF Fields
  <2>6. QED
    BY <2>3, <2>4, <2>5 DEF fixup
<1>3. QED
  BY <1>2 DEF fixupTypes

\* The loop over the typings: what the solver has no model for any more was
\* verified, up to types, and the clause being made forbids nothing else.
TypingInv ==
  "alive" \in cfg =>
     /\ fwd = TRUE
     /\ typing \subseteq Typings
     /\ pc \notin {101, 102, 104} => model \in Typings
     /\ pc = 103 => /\ fixupTypes(model) \in verified
                    /\ kept \subseteq TypeVars /\ Cube(model, kept) \subseteq Typings
     /\ \A u \in Typings \ typing : fixupTypes(u) \in verified
     /\ pc = 101 /\ status = "CORRECT" => typing = {}

\* It holds initially: no typing is blocked.
LEMMA InitTyping == Init => TypingInv
BY DEF Init, TypingInv

\* A typing that was verified is blocked with all its variables to begin with.
LEMMA NextTypingKeeps == TypingInv /\ NextTyping => TypingInv'
<1> SUFFICES ASSUME TypingInv, NextTyping PROVE TypingInv'
  OBVIOUS
<1>1. "alive" \in cfg /\ pc = 100 /\ UNCHANGED <<case, fwd, typing, model, status>>
  BY DEF NextTyping
<1>2. model \in Typings
  BY <1>1 DEF TypingInv
<1>3. CASE status = "CORRECT"
  <2>1. verified' = verified \cup {fixupTypes(model)} /\ kept' = TypeVars /\ pc' = 103
    BY <1>3 DEF NextTyping
  <2>2. Cube(model, TypeVars) \subseteq Typings
    BY <1>2, TypeVarsAssumption
  <2>3. QED
    BY <1>1, <1>2, <2>1, <2>2 DEF TypingInv
<1>4. CASE status # "CORRECT"
  <2>1. pc' = 101 /\ verified' = verified
    BY <1>4 DEF NextTyping
  <2>2. QED
    BY <1>1, <1>4, <2>1 DEF TypingInv
<1>5. QED
  BY <1>3, <1>4

\* Only "unsat" shortens the clause.
LEMMA DiscardKeeps == TypingInv /\ Discard => TypingInv'
<1> SUFFICES ASSUME TypingInv, Discard PROVE TypingInv'
  OBVIOUS
<1>1. pc = 103 /\ UNCHANGED <<case, pc, fwd, typing, model, verified, status>>
  BY DEF Discard
<1>2. PICK v \in todo : \E r \in snegAnswers(kept \ {v}) : kept' = IF r = "Unsat" THEN kept \ {v} ELSE kept
  BY DEF Discard
<1>3. PICK r \in snegAnswers(kept \ {v}) : kept' = IF r = "Unsat" THEN kept \ {v} ELSE kept
  BY <1>2
<1>4. r = "Unsat" => Cube(model, kept \ {v}) \subseteq Typings
  BY RefinementAssumption DEF snegAnswers
<1>5. kept' = kept \/ (kept' = kept \ {v} /\ Cube(model, kept \ {v}) \subseteq Typings)
  BY <1>3, <1>4
<1>6. "alive" \in cfg => kept' \subseteq TypeVars /\ Cube(model, kept') \subseteq Typings
  BY <1>1, <1>5 DEF TypingInv
<1>7. QED
  BY <1>1, <1>6 DEF TypingInv, cfg, Cube

\* The clause rules out typings with the types that were just verified.
LEMMA BlockKeeps == TypingInv /\ Block => TypingInv'
<1> SUFFICES ASSUME TypingInv, Block, "alive" \in cfg PROVE TypingInv'
  BY DEF TypingInv, Block, cfg
<1>1. /\ pc = 103 /\ pc' = 102 /\ typing' = typing \ Cube(model, kept)
      /\ UNCHANGED <<case, fwd, verified, status>>
  BY DEF Block
<1>2. /\ model \in Typings /\ fixupTypes(model) \in verified
      /\ kept \subseteq TypeVars /\ Cube(model, kept) \subseteq Typings
  BY <1>1 DEF TypingInv
<1>3. ASSUME NEW u \in Typings \ typing' PROVE fixupTypes(u) \in verified
  <2>1. CASE u \in Cube(model, kept)
    BY <1>2, <2>1, CubeMeansOneType
  <2>2. CASE u \notin typing
    BY <2>2 DEF TypingInv
  <2>3. QED
    BY <1>1, <2>1, <2>2
<1>4. QED
  BY <1>1, <1>3 DEF TypingInv

\* A step of the checker or of the comparison is not one of the loop.
LEMMA CheckerKeeps ==
  TypingInv /\ (Static \/ CheckSource \/ CheckRefinement \/ Finish) => TypingInv'
<1> SUFFICES ASSUME TypingInv, Static \/ CheckSource \/ CheckRefinement \/ Finish PROVE TypingInv'
  OBVIOUS
<1>1. UNCHANGED <<case, fwd, typing, model, verified>>
  BY DEF Static, CheckSource, CheckRefinement, Finish, Return, Continue, loop
<1>2. pc \notin 101..104 /\ pc' \notin 101..104
  <2>1. CASE CheckSource \/ CheckRefinement
    <3>1. pc \in 1..16
      <4>1. pc \in DOMAIN Queries
        BY <2>1, Zenon DEF CheckSource, CheckRefinement, InQuery
      <4>2. QED
        BY <4>1, QueryLen
    <3>2. pc' = 99 \/ pc' = pc + 1
      <4>1. CASE CheckSource
        BY <4>1 DEF CheckSource, Return, Continue
      <4>2. CASE CheckRefinement
        <5>1. \E es : Continue(es) \/ Return(es)
          BY <4>2, Zenon DEF CheckRefinement
        <5>2. QED
          BY <5>1 DEF Return, Continue
      <4>3. QED
        BY <2>1, <4>1, <4>2
    <3>3. QED
      BY <3>1, <3>2
  <2>2. CASE Finish
    BY <2>2, NotAQuery, QueryLen DEF Finish
  <2>3. CASE Static
    BY <2>3 DEF Static, Return
  <2>4. QED
    BY <2>1, <2>2, <2>3
<1>3. QED
  BY <1>1, <1>2 DEF TypingInv, cfg

\* The stand-alone tool says "correct" only after it verified every combination
\* of types that the constraints allow.
THEOREM CorrectVerifiedAllTypings == Spec => []AllTypingsVerified
<1>1. TypingInv /\ [Next]_vars => TypingInv'
  <2> SUFFICES ASSUME TypingInv, [Next]_vars PROVE TypingInv'
    OBVIOUS
  <2>1. CASE CheckTyping
    <3>1. pc = 102 /\ UNCHANGED <<case, fwd, typing, verified>>
      BY <2>1 DEF CheckTyping
    <3>2. CASE pc' = 0 /\ model' \in typing
      BY <3>1, <3>2 DEF TypingInv, cfg
    <3>3. CASE pc' = 101 /\ (status' = "CORRECT" => typing = {})
      BY <3>1, <3>3 DEF TypingInv, cfg
    <3>4. CASE pc' = 104
      BY <3>1, <3>4 DEF TypingInv, cfg
    <3>5. QED
      BY <2>1, <3>2, <3>3, <3>4, RefinementAssumption DEF CheckTyping
  <2>2. CASE CompareFunctions \/ CompareReverse
    BY <2>2 DEF CompareFunctions, CompareReverse, TypingInv, cfg
  <2>3. CASE UNCHANGED vars
    BY <2>3 DEF vars, loop, TypingInv, cfg
  <2>4. QED
    BY <2>1, <2>2, <2>3, NextTypingKeeps, DiscardKeeps, BlockKeeps, CheckerKeeps DEF Next
<1>2. TypingInv => AllTypingsVerified
  BY DEF TypingInv, AllTypingsVerified
<1>3. QED
  BY <1>1, <1>2, InitTyping, PTL DEF Spec
=============================================================================
