------------------------------- MODULE Narrowing -------------------------------
(***************************************************************************)
(* semantics/narrowing.rs and its use in semantics/statements.rs: facts    *)
(* about the variants of wrappers on the paths that reach a statement, by  *)
(* which value() and error() are allowed or refused.                       *)
(*                                                                         *)
(* The analyzer is a record of the flow state, the number of the last      *)
(* revision (which is not restored with the flow state) and ok, FALSE      *)
(* after an error. A guard says which facts follow from a condition that   *)
(* is true (yes) or false (no), each with the revision of the variable it  *)
(* is about.                                                               *)
(***************************************************************************)
EXTENDS FlowLanguage, TLC, SequencesExt

Variables == Wrappers \cup Flags

NoGuard == [yes |-> <<>>, no |-> <<>>]

\* What two functions agree on.
Common(f, g) ==
    [y \in {z \in DOMAIN f \cap DOMAIN g : f[z] = g[z]} |-> f[y]]

Without(f, S) == [y \in DOMAIN f \ S |-> f[y]]

Negated(g) == [yes |-> g.no, no |-> g.yes]

Conjoined(g, h) == [yes |-> h.yes @@ g.yes,
                    no  |-> Common(g.no, h.no @@ g.yes)]

Fresh == [facts |-> <<>>, revisions |-> [y \in Variables |-> 0],
          booleans |-> <<>>, escaped |-> {}, reachable |-> TRUE]

Unreachable == [Fresh EXCEPT !.reachable = FALSE]

Later(m, n) == IF m > n THEN m ELSE n

\* The facts at a point reached from two others.
Join(left, right) ==
    IF ~left.reachable THEN right
    ELSE IF ~right.reachable THEN left
    ELSE [facts     |-> Common(left.facts, right.facts),
          revisions |-> [y \in Variables |->
                           Later(left.revisions[y], right.revisions[y])],
          booleans  |-> Common(left.booleans, right.booleans),
          escaped   |-> left.escaped \cup right.escaped,
          reachable |-> TRUE]

-------------------------------------------------------------------------------
(* Writes.                                                                 *)

Invalidate(a, S) ==
    [a EXCEPT !.generation = @ + 1,
              !.flow.revisions = [y \in Variables |-> IF y \in S THEN a.generation + 1
                                                       ELSE @[y]],
              !.flow.facts = Without(@, S),
              !.flow.booleans = Without(@, S)]

\* A call, or a write that is not to a variable: what a reference may reach.
InvalidateEscaped(a) ==
    Invalidate(a, a.flow.escaped \cup Globals
                    \cup (References \cap DOMAIN a.flow.facts))

Escape(a, x) == Invalidate([a EXCEPT !.flow.escaped = @ \cup {x}], {x})

\* The variant of the value that is assigned.
KnownVariant(v, a) ==
    IF v \in DOMAIN a.flow.facts THEN a.flow.facts[v] ELSE v

RecordFact(a, x, v) ==
    LET b == Invalidate(a, {x})
    IN  IF v \in Variants THEN [b EXCEPT !.flow.facts = (x :> v) @@ @] ELSE b

RecordGuard(a, b, guard) ==
    [Invalidate(a, {b}) EXCEPT !.flow.booleans = (b :> guard) @@ @]

-------------------------------------------------------------------------------
(* Conditions.                                                             *)

\* The writes of the calls in a condition.
RECURSIVE Effects(_, _)
Effects(c, a) ==
    CASE c.op = "pass" -> InvalidateEscaped(Escape(a, c.x))
      [] c.op = "not" -> Effects(c.c, a)
      [] c.op \in {"and", "or"} -> Effects(c.r, Effects(c.l, a))
      [] OTHER -> a

\* The guard that was recorded when the expression was analyzed: only calls
\* have one.
CachedGuard(c, a) ==
    IF c.op = "is"
    THEN [yes |-> c.x :> <<a.flow.revisions[c.x], c.v>>,
          no  |-> c.x :> <<a.flow.revisions[c.x], Opposite(c.v)>>]
    ELSE NoGuard

\* The guard of a condition that is analyzed in state a.
Guard(c, a) ==
    LET left == CachedGuard(c.l, a)
        right == CachedGuard(c.r, Effects(c.l, a))
    IN  CASE c.op = "flag" -> IF c.b \in DOMAIN a.flow.booleans
                              THEN a.flow.booleans[c.b] ELSE NoGuard
          [] c.op = "not" -> Negated(CachedGuard(c.c, a))
          [] c.op = "and" -> Conjoined(left, right)
          [] c.op = "or" -> Negated(Conjoined(Negated(left), Negated(right)))
          [] OTHER -> CachedGuard(c, a)

\* The facts of a guard whose variables have not been written since.
Assume(a, guard, truth) ==
    LET claims == IF truth THEN guard.yes ELSE guard.no
        current == {x \in DOMAIN claims : a.flow.revisions[x] = claims[x][1]}
    IN  [a EXCEPT !.flow.reachable = @ /\ \A x \in current \cap DOMAIN a.flow.facts :
                                             a.flow.facts[x] = claims[x][2],
                  !.flow.facts = [x \in current |-> claims[x][2]] @@ @]

\* Go on from another flow state.
At(a, flow) == [a EXCEPT !.flow = flow]

-------------------------------------------------------------------------------
(* Loops: what any iteration can write is not known at the start of one.   *)

\* Every call counts here, the tests of variants and constructors included.
RECURSIVE ConditionWrites(_, _)
ConditionWrites(c, a) ==
    CASE c.op = "is" -> InvalidateEscaped(a)
      [] c.op = "pass" -> InvalidateEscaped(Escape(a, c.x))
      [] c.op = "not" -> ConditionWrites(c.c, a)
      [] c.op \in {"and", "or"} -> ConditionWrites(c.r, ConditionWrites(c.l, a))
      [] OTHER -> a

RECURSIVE LoopWrites(_, _)

StatementWrites(s, a) ==
    CASE s.k = "set" ->
             Invalidate(IF s.v \in Wrappers THEN a ELSE InvalidateEscaped(a), {s.x})
      [] s.k = "save" -> Invalidate(ConditionWrites(s.c, a), {s.b})
      [] s.k = "pass" -> InvalidateEscaped(Escape(a, s.x))
      [] s.k \in {"call", "extract"} -> InvalidateEscaped(a)
      [] s.k = "if" -> LoopWrites(s.no, LoopWrites(s.yes, ConditionWrites(s.c, a)))
      [] s.k = "while" -> LoopWrites(s.body, ConditionWrites(s.c, a))
      [] s.k \in {"for", "block"} -> LoopWrites(s.body, a)
      [] s.k = "match" ->
             FoldLeft(LAMBDA b, arm : LoopWrites(arm.body, ConditionWrites(arm.guard, b)),
                      a, s.arms)
      [] OTHER -> a

LoopWrites(ss, a) == FoldLeft(LAMBDA b, s : StatementWrites(s, b), a, ss)

-------------------------------------------------------------------------------
(* Statements.                                                             *)

RECURSIVE AnalyzeStatement(_, _)

AnalyzeBlock(ss, a) == FoldLeft(LAMBDA b, s : AnalyzeStatement(s, b), a, ss)

AnalyzeIf(s, a) ==
    LET before == Effects(s.c, a)
        guard == Guard(s.c, a)
        then == AnalyzeBlock(s.yes, Assume(before, guard, TRUE))
        else == AnalyzeBlock(s.no, Assume(At(then, before.flow), guard, FALSE))
    IN  At(else, Join(then.flow, else.flow))

\* Mutant: the facts at the start of the first iteration are kept.
AnalyzeLoopOnce(body, before, entry) ==
    LET once == AnalyzeBlock(body, entry)
    IN  At(once, Join(before.flow, once.flow))

\* The body of a loop, which is entered in state entry or not at all.
AnalyzeLoop(body, before, entry) ==
    LET once == AnalyzeBlock(body, LoopWrites(body, entry))
    IN  At(once, Join(before.flow, once.flow))

AnalyzeWhile(s, a) ==
    LET before == Effects(s.c, a)
    IN  AnalyzeLoop(s.body, before, Assume(before, Guard(s.c, a), TRUE))

AnalyzeFor(s, a) ==
    LET before == Effects(s.iter, a)
    IN  AnalyzeLoop(s.body, before, before)

\* Each arm starts in the state before the match, which is also one of the
\* states after it.
AnalyzeMatch(s, a) ==
    LET Matched(b, arm) ==
          IF arm.v = "any" THEN At(b, a.flow)
          ELSE [At(b, a.flow) EXCEPT !.flow.facts = (s.x :> arm.v) @@ @]
        Arm(b, arm) ==
          LET start == Matched(b, arm)
          IN  AnalyzeBlock(arm.body, Assume(Effects(arm.guard, start),
                                            Guard(arm.guard, start), TRUE))
        merged == FoldLeft(LAMBDA b, arm :
                              LET end == Arm(b, arm)
                              IN  At(end, Join(b.flow, end.flow)),
                           At(a, Unreachable), s.arms)
    IN  At(merged, Join(a.flow, merged.flow))

AnalyzeStatement(s, a) ==
    CASE s.k = "set" ->
             LET b == IF s.v = "unknown" THEN InvalidateEscaped(a) ELSE a
             IN  RecordFact(b, s.x, KnownVariant(s.v, b))
      [] s.k = "save" -> RecordGuard(Effects(s.c, a), s.b, CachedGuard(s.c, a))
      [] s.k = "pass" -> InvalidateEscaped(Escape(a, s.x))
      [] s.k = "call" -> InvalidateEscaped(a)
      [] s.k = "extract" ->
             [a EXCEPT !.ok = @ /\ (a.flow.reachable =>
                                      /\ s.x \in DOMAIN a.flow.facts
                                      /\ a.flow.facts[s.x] = s.v)]
      [] s.k \in {"break", "continue", "return"} -> [a EXCEPT !.flow.reachable = FALSE]
      [] s.k = "block" -> AnalyzeBlock(s.body, a)
      [] s.k = "if" -> AnalyzeIf(s, a)
      [] s.k = "while" -> AnalyzeWhile(s, a)
      [] s.k = "for" -> AnalyzeFor(s, a)
      [] s.k = "match" -> AnalyzeMatch(s, a)
      [] OTHER -> a

\* The body of a function is accepted.
AcceptsExtractions(program) ==
    AnalyzeBlock(program, [flow |-> Fresh, generation |-> 0, ok |-> TRUE]).ok

===============================================================================
