----------------------------- MODULE MCRefinement -----------------------------
(***************************************************************************)
(* Two inputs and two choices.  The first input does anything; the second  *)
(* does the same or returns.  The configurations other than the default    *)
(* meet deterministic programs.  The stand-alone tool has two symbolic     *)
(* types that have to be equal.                                            *)
(***************************************************************************)
EXTENDS Refinement

MCInputs == {"i", "j"}
MCChoices == {1, 2}
Row(x, y) == [n \in MCChoices |-> IF n = 1 THEN x ELSE y]
Prog(r, s) == [i \in MCInputs |-> IF i = "i" THEN r ELSE s]
Does(e) == [end |-> e, val |-> 0, mem |-> 0]
Returns == [end : {"ret"}, val : {0, 1}, mem : {0, 1}] \cup [end : {"poison"}, val : {0}, mem : {0, 1}]
Base == {Does(e) : e \in {"excl", "ub", "sink", "noret"}} \cup Returns
v0 == Does("ret")
Rows == {Row(x, y) : x \in Base, y \in Base}
Case(s, t, st, ap, c) == [src |-> s, tgt |-> t, static |-> st, approx |-> ap, invalid |-> {}, nullDeref |-> TRUE, cfg |-> c]
Default0 == {Case(Prog(r, r), Prog(s, s), "ok", FALSE, {}) : r \in Rows, s \in Rows}
Mixed    == {Case(Prog(Row(x, y), Row(v0, v0)), Prog(Row(z, z), Row(v0, v0)), "ok", ap, {}) :
               x \in Base \cup {Does("sinkub")}, y \in {Does("ret"), Does("poison"), Does("sink")},
               z \in Base \cup {Does("sinkub")}, ap \in BOOLEAN}
OtherCfgs == {{"disallow_ub"}, {"skip_smt"}, {"fail_if_src_is_ub"}, {"bidirectional"}, {"always_verify"}}
Det(x)   == Prog(Row(x, x), Row(v0, v0))
Every    == {Does(e) : e \in Ends} \cup Returns
NullUnsafe == {[Case(Det(v0), Det(y), "ok", FALSE, {"disallow_ub"}) EXCEPT !.nullDeref = FALSE] : y \in Every}
Configs  == {Case(Det(x), Det(y), "ok", FALSE, c) : x \in Every, y \in Every, c \in OtherCfgs}
Alive    == {Case(Det(v0), Det(y), "ok", FALSE, {"alive"}) : y \in {v0, Does("poison")}}
Statics  == {Case(Det(v0), Det(Does("poison")), st, FALSE, {}) :
               st \in {"attrs", "params", "constLost", "signature", "size", "constGained", "newGlobal",
                       "untranslated", "untyped"}}
Invalid  == {[Case(Det(x), Det(y), "ok", FALSE, {}) EXCEPT !.invalid = {q}] :
               x \in Every, y \in Every, q \in {"poison", "value"}}
MCCases   == Default0 \cup Mixed \cup Configs \cup Alive \cup Statics \cup NullUnsafe \cup Invalid
MCNames   == {"x", "y"}
MCMask    == [n \in MCNames |-> {"Int", "Vector"}]
MCVars    == MCNames \X {"type", "bw", "elements"}
MCSame    == {<<"x", "y">>}
=============================================================================
