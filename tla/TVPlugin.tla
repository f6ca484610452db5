------------------------------ MODULE TVPlugin ------------------------------
(***************************************************************************)
(* The Clang plugin in tv/tv.cpp: how it follows a pipeline of LLVM passes *)
(* and decides which two versions of a function a refinement check is      *)
(* about. LLVM announces each pass before and after it runs; passes nest   *)
(* (pass managers and adaptors contain others). The map fns holds, per     *)
(* function name, the version the next check starts from.                  *)
(*                                                                         *)
(* A version of a function is a number; whether llvm2alive can translate   *)
(* it, and which kind of pass made it, is recorded in vers. A pass name is *)
(* abstracted to the answers of is_unsupported_pass, is_nop_pass,          *)
(* is_terminate_pass and the comparison with -tv-check-pass. What verify() *)
(* does with a pair is in modules Parallel and RedisCache.                 *)
(***************************************************************************)
EXTENDS Integers, Sequences, FiniteSets

CONSTANT
  Setups  \* the pipelines and options that are explored, records of
          \*   nfuncs      functions of the module, in its order
          \*   anon        those that have no name
          \*   kinds       kinds of passes the pipeline contains
          \*   first       kinds the very first pass may have
          \*   maxPasses   bound: passes started
          \*   maxDepth    bound: nesting of passes
          \*   vanish      a loop pass may delete its loop
          \*   batch       -tv-batch-opts
          \*   checkOnly   -tv-check-pass is given; it names the passes "chosen"

VARIABLE setup

Funcs     == 1..setup.nfuncs
PassKinds == {"plain", "chosen", "unsupported", "nop", "terminate", "finalize"}

ASSUME TVPluginAssumption ==
  \A s \in Setups :
    /\ s.nfuncs \in Nat /\ s.anon \subseteq 1..s.nfuncs
    /\ s.kinds \subseteq PassKinds \ {"finalize"} /\ s.first \subseteq s.kinds
    /\ s.maxPasses \in Nat /\ s.maxDepth \in Nat
    /\ s.vanish \in BOOLEAN /\ s.batch \in BOOLEAN /\ s.checkOnly \in BOOLEAN

VARIABLES
  vers,           \* f -> its versions, oldest first
  stack,          \* the passes that are running, outermost first
  started,        \* bound: passes started
  fns,            \* name -> the version checks start from, or NoSrc
  pass_name,      \* kind of the pass the plugin heard of last, or NoName
  batch_started,
  dont_verify,
  is_clangtv_done,
  checked         \* history: <<source, target>> given to verify()

tvVars == <<fns, pass_name, batch_started, dont_verify, is_clangtv_done, checked>>
vars   == <<setup, vers, stack, started, tvVars>>

NoName == "empty"
NoSrc  == [f |-> 0, v |-> 0]
Module == 0                      \* the unit of a module or call graph pass

Names      == (Funcs \X {"named"}) \cup (Funcs \X {"anon"})
VersionIds == [f : Funcs, v : 1..setup.maxPasses + 1]
Version    == [kind : PassKinds \cup {NoName}, ok : BOOLEAN, live : BOOLEAN]
Passes     == [kind : PassKinds, unit : 0..setup.nfuncs, loop : BOOLEAN,
               role : {"fresh", "leaf", "outer", "adaptor"}]

Current(f) == [f |-> f, v |-> Len(vers[f])]
Translatable(f) == vers[f][Len(vers[f])].ok       \* llvm2alive succeeds on f now
Top == stack[Len(stack)]

Init ==
  /\ setup \in Setups
  /\ vers \in [Funcs -> {<<[kind |-> NoName, ok |-> b, live |-> TRUE]>> : b \in BOOLEAN}]
  /\ stack = <<>> /\ started = 0
  /\ fns = [n \in Names |-> NoSrc]
  /\ pass_name = NoName
  /\ batch_started = FALSE /\ dont_verify = FALSE /\ is_clangtv_done = FALSE
  /\ checked = {}
-----------------------------------------------------------------------------
(* TVLegacyPass::runOn: one visit of the plugin to a unit of IR. *)

is_unsupported_pass(k) == k = "unsupported"

\* What terminates verification is RequireAnalysisPass<GlobalsAA..., a nop too.
is_nop_pass(k) == k \in {"nop", "terminate"}

is_terminate_pass(k) == k = "terminate"

\* -tv-check-pass is given and does not occur in the name of the pass
check_skip(k) == setup.checkOnly /\ k # "chosen"

FuncsOf(unit) == IF unit = Module THEN Funcs ELSE {unit}

\* Mutant: an unnamed function gets a bare number, which may be another's name.
NameIn_NoPrefix(unit, f) ==
  IF f \notin setup.anon THEN <<f, "named">>
  ELSE <<Cardinality({g \in FuncsOf(unit) \cap setup.anon : g <= f}), "named">>

\* The key in fns. Unnamed functions are numbered within one visit.
NameIn(unit, f) ==
  IF f \notin setup.anon THEN <<f, "named">>
  ELSE <<Cardinality({g \in FuncsOf(unit) \cap setup.anon : g <= f}), "anon">>

\* The flags of a TVLegacyPass object
Flags(unsupported, nop, onlyif_src_exists) ==
  [unsupported |-> unsupported, nop |-> nop, onlyif |-> onlyif_src_exists]

\* Mutant: the source is left alone around unsupported passes.
SrcAfter_UnsupportedStays(fl, src, f) ==
  CASE fl.onlyif /\ src = NoSrc                       -> NoSrc
    [] src # NoSrc /\ (fl.nop \/ fl.unsupported)      -> src
    [] OTHER                                          -> IF Translatable(f) THEN Current(f) ELSE NoSrc

\* What runOn(f) leaves in the entry of f
SrcAfter(fl, src, f) ==
  CASE fl.onlyif /\ src = NoSrc -> NoSrc
    [] src # NoSrc /\ fl.nop    -> src
    [] OTHER                    -> IF Translatable(f) THEN Current(f) ELSE NoSrc

\* runOn(f) calls verify(), and the two versions are not syntactically equal
Verifies(fl, src, f) ==
  src # NoSrc /\ ~fl.nop /\ ~fl.unsupported /\ Translatable(f) /\ src # Current(f)

\* runOnModule, or runOn for a single function
RunOn(fl, unit) ==
  /\ fns' = [n \in Names |->
       IF \E f \in FuncsOf(unit) : NameIn(unit, f) = n
       THEN SrcAfter(fl, fns[n], CHOOSE f \in FuncsOf(unit) : NameIn(unit, f) = n)
       ELSE fns[n]]
  /\ checked' = checked \cup
       {<<fns[NameIn(unit, f)], Current(f)>> :
          f \in {g \in FuncsOf(unit) : Verifies(fl, fns[NameIn(unit, g)], g)}}

\* TVPass::run with batch_opts: one call opens a batch, the next one closes it
RunBatch ==
  /\ IF batch_started THEN RunOn(Flags(FALSE, FALSE, TRUE), Module)
                      ELSE RunOn(Flags(TRUE, FALSE, FALSE), Module)
  /\ batch_started' = ~batch_started
  /\ UNCHANGED dont_verify

\* TVPass::run without batch_opts, for the pass with name k
RunSingle(k, unit) ==
  /\ dont_verify' = (dont_verify \/ is_terminate_pass(k))
  /\ IF dont_verify' THEN UNCHANGED <<fns, checked>>
     ELSE RunOn(Flags(is_unsupported_pass(k) \/ check_skip(k), is_nop_pass(k), FALSE), unit)
  /\ UNCHANGED batch_started

NoRun == UNCHANGED <<fns, checked, batch_started, dont_verify>>

\* The callbacks of llvmGetPassPluginInfo without batching: before and after a
\* pass alike. A function or loop pass is a visit to one function, any other
\* one to the module.
SingleCallback(p) ==
  /\ pass_name' = p.kind
  /\ IF is_clangtv_done THEN NoRun ELSE RunSingle(p.kind, p.unit)

\* Mutant: do_start is missing, only the first batch is ever opened.
AtBoundary_NeverRestarts(k) ==
  \/ pass_name = NoName
  \/ batch_started /\ ~is_unsupported_pass(pass_name) /\ is_unsupported_pass(k)

\* is_first || do_start || do_finish
AtBoundary(k) ==
  \/ pass_name = NoName
  \/ ~batch_started /\ is_unsupported_pass(pass_name) /\ ~is_unsupported_pass(k)
  \/ batch_started /\ ~is_unsupported_pass(pass_name) /\ is_unsupported_pass(k)

\* The callback before a pass with batching: always a visit to the module
BatchBefore(k) ==
  /\ IF ~is_clangtv_done /\ AtBoundary(k) THEN RunBatch ELSE NoRun
  /\ UNCHANGED pass_name

\* The callback after a pass with batching
BatchAfter(k) == pass_name' = k /\ NoRun
-----------------------------------------------------------------------------
(* The pass pipeline. LLVM is external: what matters is in which order it  *)
(* calls the plugin and which function a pass may have changed in between. *)

\* Pass managers and wrappers keep the level of their children: modules (or
\* SCCs of the call graph), functions, loops. Unsupported passes are leaves.
SameLevel(outer, inner) ==
  /\ outer.role # "adaptor"
  /\ inner.unit = outer.unit /\ inner.loop = outer.loop

\* Adaptors go one level down. (The one from functions to loops first runs
\* passes that bring the loops into shape.)
LevelDown(outer, inner) ==
  /\ outer.kind # "nop"
  /\ \/ outer.unit = Module /\ inner.unit # Module /\ ~inner.loop
     \/ outer.unit = inner.unit /\ ~outer.loop /\ inner.loop

MayContain(outer, inner) ==
  /\ outer.role # "leaf" /\ outer.kind \notin {"unsupported", "terminate", "finalize"}
  /\ inner.kind \notin {"terminate", "finalize"}
  /\ SameLevel(outer, inner) \/ LevelDown(outer, inner)

RoleWith(outer, inner) == IF LevelDown(outer, inner) THEN "adaptor" ELSE "outer"

NewPasses ==
  {p \in [kind : setup.kinds \cup {"finalize"}, unit : 0..setup.nfuncs, loop : {FALSE, setup.vanish},
          role : {"fresh"}] :
     /\ p.kind \in {"terminate", "finalize"} => p.unit = Module
     /\ p.loop => p.unit # Module /\ p.kind # "unsupported"}

\* LLVM is about to run p: the callback before it
Enter(p) ==
  /\ started < setup.maxPasses /\ Len(stack) < setup.maxDepth
  /\ started = 0 => p.kind \in setup.first
  /\ p.kind = "finalize" => ~is_clangtv_done
  /\ IF stack = <<>> THEN ~p.loop ELSE MayContain(Top, p)
  /\ started' = started + 1
  /\ stack' = Append([i \in DOMAIN stack |->
                 IF i = Len(stack) THEN [Top EXCEPT !.role = RoleWith(Top, p)] ELSE stack[i]], p)
  /\ IF setup.batch THEN BatchBefore(p.kind) ELSE SingleCallback(p)
  /\ UNCHANGED <<setup, vers, is_clangtv_done>>

\* A pass that contains no other changes functions of its unit.
Change ==
  /\ stack # <<>> /\ Top.role = "fresh" /\ Top.kind \in {"plain", "chosen", "unsupported"}
  /\ \E S \in (SUBSET FuncsOf(Top.unit)) \ {{}} : \E ok \in [S -> BOOLEAN] :
       vers' = [f \in Funcs |-> IF f \notin S THEN vers[f] ELSE
                  Append(vers[f], [kind |-> Top.kind, ok |-> ok[f],
                                   live |-> ~dont_verify /\ ~is_clangtv_done])]
  /\ stack' = [stack EXCEPT ![Len(stack)].role = "leaf"]
  /\ UNCHANGED <<setup, started, tvVars>>

\* ClangTVFinalizePass::run
Finalize ==
  /\ stack # <<>> /\ Top.kind = "finalize" /\ Top.role = "fresh"
  /\ IF setup.batch /\ batch_started THEN RunBatch ELSE NoRun
  /\ is_clangtv_done' = TRUE
  /\ stack' = [stack EXCEPT ![Len(stack)].role = "leaf"]
  /\ UNCHANGED <<setup, vers, started, pass_name>>

\* The pass on top of the stack has run: the callback after it
Leave ==
  /\ stack # <<>> /\ (Top.kind = "finalize" => Top.role = "leaf")
  /\ IF setup.batch THEN BatchAfter(Top.kind) ELSE SingleCallback(Top)
  /\ stack' = SubSeq(stack, 1, Len(stack) - 1)
  /\ UNCHANGED <<setup, vers, started, is_clangtv_done>>

\* A loop pass that deleted its loop: LLVM has no loop to pass to the callback
\* and does not call it.
LeaveNoLoop ==
  /\ stack # <<>> /\ Top.loop /\ Top.role = "leaf"
  /\ stack' = SubSeq(stack, 1, Len(stack) - 1)
  /\ UNCHANGED <<setup, vers, started, tvVars>>

Next ==
  \/ \E p \in NewPasses : Enter(p)
  \/ Change \/ Finalize \/ Leave \/ LeaveNoLoop

Spec == Init /\ [][Next]_vars
-----------------------------------------------------------------------------
(* Properties *)

\* Changes nobody asked the plugin to check
Exempt(k) == k = "unsupported" \/ (~setup.batch /\ setup.checkOnly /\ k # "chosen")

\* A check compares two versions of one function, the older one first: the
\* entry of fns and the function visited belong together.
ComparesSameFunction ==
  \A c \in checked : c[1].f = c[2].f /\ c[1].v < c[2].v

\* No check covers a change by a pass that is unsupported or not to be checked:
\* whatever the nesting and the order of passes, what an interprocedural pass
\* did is never blamed on the passes around it.
NoCheckSpansUnsupported ==
  \A c \in checked : c[1].f = c[2].f =>
    \A v \in c[1].v + 1..c[2].v : ~Exempt(vers[c[1].f][v].kind)

Covered(f, v) == \E c \in checked : c[1].f = f /\ c[2].f = f /\ c[1].v < v /\ v <= c[2].v

\* llvm2alive understood the versions the plugin needs to check version v of f.
\* A batch that begins with a version it does not understand is not checked.
Understood(f, v) ==
  \A w \in (IF setup.batch THEN DOMAIN vers[f] ELSE {v - 1, v}) : vers[f][w].ok

\* When the pipeline is between two top level passes (with batching: at its
\* end), every change a supported pass made is covered by some check, also if
\* a callback got lost, translation failed in between or passes were nested.
ChangesValidated ==
  stack = <<>> /\ (setup.batch => is_clangtv_done) =>
    \A f \in Funcs : \A v \in DOMAIN vers[f] \ {1} :
      vers[f][v].live /\ ~Exempt(vers[f][v].kind) /\ Understood(f, v) => Covered(f, v)
=============================================================================
