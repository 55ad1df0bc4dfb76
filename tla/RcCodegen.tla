------------------------------- MODULE RcCodegen -------------------------------
(***************************************************************************)
(* How the code generator decides where a function retains and releases    *)
(* its reference-counted values: a function body becomes basic blocks, and *)
(* on the way the generator keeps the list of temporaries no one owns yet, *)
(* the slots to be released at a return and the targets of the loops it is *)
(* inside of.  (codegen/memory.rs, codegen/statements.rs)                  *)
(*                                                                         *)
(* Every value is a boxed one of a copy type (a string, a list ...).       *)
(*                                                                         *)
(* Expressions, by the field k:                                            *)
(*   "fresh"  args        a call, a literal, a + b: a new, owned value     *)
(*   "var"    x           the value a variable holds, not retained         *)
(*   "choice" yes, no     c ? yes : no                                     *)
(* Conditions:                                                             *)
(*   "opaque"             reads no boxed value                             *)
(*   "test"   args        computed from the boxed values args              *)
(*   "both"   l, r        l && r and l || r: r is skipped or not           *)
(*   "always"             of a match arm: `_`, or no guard                 *)
(* Statements:                                                             *)
(*   "decl", "const", "assign"  x, e;  "uninit"  x;  "expr"  e             *)
(*   "return"  e;  "leave" (a return without a value);  "break";           *)
(*   "continue";  "if"  c, yes, no;  "while"  c, body;  "for"  x, e, body  *)
(*   "match"  e, arms     an arm has a test (a condition), the variables   *)
(*                        a list pattern binds (binds) and those for the   *)
(*                        rest of the list (rest: one or none), a guard    *)
(*                        and a body                                       *)
(***************************************************************************)
EXTENDS Naturals, Sequences, TLC, SequencesExt

(***************************************************************************)
(* The generator's state: the blocks and the one the builder stands at,    *)
(* and                                                                     *)
(*   temps    temp_values, each the value and the slot it was spilled to   *)
(*   tracked  the function's rc_scope_stack, innermost scope only: nothing *)
(*            but a function pushes one                                    *)
(*   scopes   the variable table, outermost scope first                    *)
(*   loops    loop_targets                                                 *)
(*   returns  return_cleanup_blocks                                        *)
(*   rests    the slots of variables for the rest of a list: the generator *)
(*            has no such list, they are noted to say what is lost         *)
(* Values (registers) and slots are numbered from one counter.             *)
(***************************************************************************)
Start(params) ==
    [blocks |-> << << >> >>, at |-> 1, temps |-> << >>, tracked |-> << >>,
     scopes |-> << params >>, loops |-> << >>, returns |-> << >>,
     rests |-> {}, next |-> Cardinality(DOMAIN params) + 1]

Terminators == {"goto", "branch", "ret", "unreachable"}

\* current_block_is_live
Live(g) ==
    LET code == g.blocks[g.at]
    IN  code = << >> \/ Last(code).op \notin Terminators

Emit(g, instruction) == [g EXCEPT !.blocks[g.at] = Append(@, instruction)]

Goto(g, b) == Emit(g, [op |-> "goto", to |-> b])
Branch(g, yes, no) == Emit(g, [op |-> "branch", yes |-> yes, no |-> no])
Close(g, instruction) == IF Live(g) THEN Emit(g, instruction) ELSE g

PositionAt(g, b) == [g EXCEPT !.at = b]

\* append_basic_block, n times; the first of them gets the number NewBlock(g).
NewBlock(g) == Len(g.blocks) + 1
AppendBlocks(g, n) == [g EXCEPT !.blocks = @ \o [i \in 1 .. n |-> << >>]]

(***************************************************************************)
(* Temporaries.                                                            *)
(***************************************************************************)
RegisterTemp(g, value) ==
    IF \E i \in DOMAIN g.temps : g.temps[i].value = value
    THEN g
    ELSE [Emit(g, [op |-> "store", slot |-> g.next, from |-> value]) EXCEPT
             !.temps = Append(@, [value |-> value, slot |-> g.next]),
             !.next = @ + 1]

IsTemp(g, value) == \E i \in DOMAIN g.temps : g.temps[i].value = value

UntrackTemp(g, value) ==
    [g EXCEPT !.temps = SelectSeq(@, LAMBDA t : t.value # value)]

TempMark(g) == Len(g.temps)

\* The releases of temporaries, by way of their slots. (As a mutant of
\* ReleaseAndClear: the slots keep what has been released.)
ReleaseOnly(temps) ==
    [i \in DOMAIN temps |-> [op |-> "release", slot |-> temps[i].slot]]

\* The slots are set to null so that a later pass does not release them again.
ReleaseAndClear(temps) ==
    FlattenSeq([i \in DOMAIN temps |->
        << [op |-> "release", slot |-> temps[i].slot],
           [op |-> "clear", slot |-> temps[i].slot] >>])

EmitTempsSinceMark(g, mark) ==
    IF Live(g)
    THEN [g EXCEPT !.blocks[g.at] =
             @ \o ReleaseAndClear(SubSeq(g.temps, mark + 1, Len(g.temps)))]
    ELSE g

CleanupTempsTo(g, mark) ==
    [EmitTempsSinceMark(g, mark) EXCEPT !.temps = SubSeq(@, 1, mark)]

CleanupAllTemps(g) ==
    IF Live(g)
    THEN [g EXCEPT !.blocks[g.at] = @ \o ReleaseOnly(g.temps)]
    ELSE g

\* Mutant: a return releases the slots known when it is generated.
ScopesCleanupAtOnce(g) ==
    LET cleaned == CleanupAllTemps(g)
    IN  [cleaned EXCEPT !.blocks[g.at] =
            @ \o [i \in DOMAIN g.tracked |-> [op |-> "release", slot |-> g.tracked[i]]]]

\* generate_all_scopes_cleanup: the slots follow when the function is complete.
AllScopesCleanup(g) ==
    LET cleaned == CleanupAllTemps(g)
    IN  IF Contains(g.returns, g.at) THEN cleaned
        ELSE [cleaned EXCEPT !.returns = Append(@, g.at)]

\* finalize_return_scope_cleanup
FinalizeReturns(g) ==
    LET releases == [i \in DOMAIN g.tracked |-> [op |-> "release", slot |-> g.tracked[i]]]
        WithReleases(code) == Front(code) \o releases \o << Last(code) >>
    IN  [g EXCEPT !.blocks = [b \in DOMAIN @ |->
            IF Contains(g.returns, b) THEN WithReleases(@[b]) ELSE @[b]]]

(***************************************************************************)
(* Slots.                                                                  *)
(***************************************************************************)
InCurrentScope(g, x) == x \in DOMAIN Last(g.scopes)

\* The slot of a variable, from the innermost scope that has it.
SlotOf(g, x) ==
    LET holders == {i \in DOMAIN g.scopes : x \in DOMAIN g.scopes[i]}
        innermost == CHOOSE i \in holders : \A j \in holders : j <= i
    IN  g.scopes[innermost][x]

Bind(g, x, slot) == [g EXCEPT !.scopes[Len(g.scopes)] = x :> slot @@ @]

PushScope(g) == [g EXCEPT !.scopes = Append(@, << >>)]
PopScope(g) == [g EXCEPT !.scopes = Front(@)]

\* A slot in the entry block, null at first, that owns what it holds.
NewOwningSlot(g, x) ==
    Bind([g EXCEPT !.next = @ + 1, !.tracked = Append(@, g.next)], x, g.next)

\* Mutant: what is not a temporary is stored as it is.
OwnedUncopied(g, value) == [g |-> UntrackTemp(g, value), v |-> value]

\* box_value_owned_for_slot: a temporary changes hands, anything else is copied.
Owned(g, value) ==
    IF IsTemp(g, value)
    THEN [g |-> UntrackTemp(g, value), v |-> value]
    ELSE [g |-> [Emit(g, [op |-> "clone", to |-> g.next, from |-> value])
                    EXCEPT !.next = @ + 1],
          v |-> g.next]

\* overwrite_slot_of_type
Overwrite(g, slot, value) ==
    LET owned == Owned(g, value)
        released == Emit(owned.g, [op |-> "release", slot |-> slot])
    IN  Emit(released, [op |-> "store", slot |-> slot, from |-> owned.v])

\* declare_variable, declare_local_in_function
Declare(g, x, value) ==
    LET declared == IF InCurrentScope(g, x) THEN g ELSE NewOwningSlot(g, x)
    IN  Overwrite(declared, SlotOf(declared, x), value)

\* generate_const_decl_statement: nothing is copied and nothing released.
DeclareConst(g, x, value) ==
    LET declared == IF InCurrentScope(g, x) THEN g ELSE NewOwningSlot(g, x)
    IN  Emit(UntrackTemp(declared, value),
             [op |-> "store", slot |-> SlotOf(declared, x), from |-> value])

(***************************************************************************)
(* Expressions and conditions.                                             *)
(***************************************************************************)
RECURSIVE Value(_, _), Values(_, _)

\* generate_expression: the state afterwards and the value.
Value(e, g) ==
    CASE e.k = "fresh" ->
           LET args == Values(e.args, g)
               made == Emit([args.g EXCEPT !.next = @ + 1],
                            [op |-> "new", to |-> args.g.next, uses |-> args.vs])
           IN  [g |-> RegisterTemp(made, args.g.next), v |-> args.g.next]
      [] e.k = "var" ->
           [g |-> Emit([g EXCEPT !.next = @ + 1],
                       [op |-> "load", to |-> g.next, slot |-> SlotOf(g, e.x)]),
            v |-> g.next]
      [] e.k = "choice" ->
           LET result == g.next
               yes == NewBlock(g)
               Arm(arm, h) ==
                   LET made == Value(arm, h)
                   IN  Goto(Emit(made.g, [op |-> "copy", to |-> result, from |-> made.v]),
                            yes + 2)
               split == Branch(AppendBlocks([g EXCEPT !.next = @ + 1], 3), yes, yes + 1)
               first == Arm(e.yes, PositionAt(split, yes))
               second == Arm(e.no, PositionAt(first, yes + 1))
           IN  [g |-> PositionAt(second, yes + 2), v |-> result]

Values(es, g) ==
    IF es = << >> THEN [g |-> g, vs |-> << >>]
    ELSE LET one == Value(Head(es), g)
             rest == Values(Tail(es), one.g)
         IN  [g |-> rest.g, vs |-> << one.v >> \o rest.vs]

\* A condition leaves no boxed value; its temporaries are pending.
RECURSIVE Condition(_, _)
Condition(c, g) ==
    CASE c.k = "opaque" -> g
      [] c.k = "test" ->
           LET args == Values(c.args, g)
           IN  Emit(args.g, [op |-> "use", uses |-> args.vs])
      [] c.k = "both" ->
           LET right == NewBlock(g)
               left == Condition(c.l, AppendBlocks(g, 2))
               evaluated == Condition(c.r, PositionAt(Branch(left, right, right + 1), right))
           IN  PositionAt(Goto(evaluated, right + 1), right + 1)

(***************************************************************************)
(* Statements.                                                             *)
(***************************************************************************)
RECURSIVE Statement(_, _), Body(_, _), Arms(_, _, _, _)

Return(e, g) ==
    LET result == Value(e, g)
        retained == Emit(result.g, [op |-> "retain", from |-> result.v])
    IN  Emit(AllScopesCleanup(retained), [op |-> "ret", from |-> result.v])

Leave(g) == Emit(AllScopesCleanup(g), [op |-> "ret", from |-> 0])

\* Mutant: a jump leaves pending temporaries to the statements it jumps out of.
JumpAtOnce(g, target) == Goto(g, target)

\* break and continue: the temporaries of the statements they jump out of.
Jump(g, target) == Goto(EmitTempsSinceMark(g, Last(g.loops).mark), target)

Break(g) == Jump(g, Last(g.loops).out)
Continue(g) == Jump(g, Last(g.loops).again)

EndsWithReturn(ss) == ss # << >> /\ Last(ss).k \in {"return", "leave"}

If(s, g) ==
    LET tested == Condition(s.c, g)
        yes == NewBlock(tested)
        join == yes + 2
        split == Branch(AppendBlocks(tested, 3), yes, yes + 1)
        Side(ss, h) ==
            LET done == Body(ss, h) IN Close(done, [op |-> "goto", to |-> join])
        first == Side(s.yes, PositionAt(split, yes))
        second == Side(s.no, PositionAt(first, yes + 1))
    IN  IF EndsWithReturn(s.yes) /\ EndsWithReturn(s.no) THEN second
        ELSE PositionAt(second, join)

\* The body of a loop, up to the blocks it continues at and breaks to.
Iteration(g, body, again, out) ==
    LET mark == TempMark(g)
        inside == [g EXCEPT !.loops = Append(@, [again |-> again, out |-> out, mark |-> mark])]
        done == [Body(body, inside) EXCEPT !.loops = Front(@)]
        closed == PositionAt(Close(done, [op |-> "goto", to |-> again]), again)
    IN  CleanupTempsTo(closed, mark)

While(s, g) ==
    LET header == NewBlock(g)
        body == header + 1
        exit == header + 2
        again == header + 3
        out == header + 4
        entered == PositionAt(Goto(AppendBlocks(g, 5), header), header)
        tested == CleanupTempsTo(Condition(s.c, entered), TempMark(entered))
        split == PositionAt(Branch(tested, body, exit), body)
        repeated == Goto(Iteration(split, s.body, again, out), header)
        left == Goto(CleanupTempsTo(PositionAt(repeated, out), TempMark(split)), exit)
    IN  PositionAt(left, exit)

\* generate_list_for_loop: the loop variable owns a copy of the element.
For(s, g) ==
    LET list == Value(s.e, g)
        bound == NewOwningSlot(Emit(list.g, [op |-> "use", uses |-> << list.v >>]), s.x)
        header == NewBlock(bound)
        body == header + 1
        exit == header + 2
        again == header + 3
        out == header + 4
        entered == PositionAt(Goto(AppendBlocks(bound, 5), header), header)
        split == PositionAt(Branch(entered, body, exit), body)
        element == RegisterTemp(
                      Emit([split EXCEPT !.next = @ + 1],
                           [op |-> "new", to |-> split.next, uses |-> << list.v >>]),
                      split.next)
        assigned == Overwrite(element, SlotOf(element, s.x), split.next)
        repeated == Goto(Iteration(assigned, s.body, again, out), header)
        left == Goto(CleanupTempsTo(PositionAt(repeated, out), TempMark(assigned)), exit)
    IN  PositionAt(left, exit)

\* A new value made of the matched list, and a slot that holds it.
BindPart(x, subject, g) ==
    LET made == Emit([g EXCEPT !.next = @ + 2],
                     [op |-> "new", to |-> g.next, uses |-> << subject >>])
    IN  Bind(Emit(made, [op |-> "store", slot |-> g.next + 1, from |-> g.next]),
             x, g.next + 1)

\* The copy of an element is kept as a temporary.
BindElement(x, subject, g) == RegisterTemp(BindPart(x, subject, g), g.next)

\* The slice of the rest is not, and its slot is not tracked either: what the
\* slot holds is given back by no one.
BindRest(x, subject, g) ==
    [BindPart(x, subject, Emit(g, [op |-> "use", uses |-> << subject >>]))
        EXCEPT !.rests = @ \cup {g.next + 1}]

\* bind_list_pattern_variables
BindPattern(arm, subject, g) ==
    LET elements == FoldLeft(LAMBDA h, x : BindElement(x, subject, h), g, arm.binds)
    IN  FoldLeft(LAMBDA h, x : BindRest(x, subject, h), elements, arm.rest)

\* generate_match_arms, emit_match_guard_and_body: an arm's test is made in the
\* block the previous arm falls through to.
Choose(c, g, yes, no) ==
    IF c.k = "always" THEN Goto(g, yes) ELSE Branch(Condition(c, g), yes, no)

Arms(arms, subject, end, g) ==
    IF arms = << >> THEN PositionAt(Goto(g, end), end)
    ELSE LET arm == Head(arms)
             enter == NewBlock(g)
             next == enter + 1
             pass == enter + 2
             split == Choose(arm.test, AppendBlocks(g, 3), enter, next)
             bound == BindPattern(arm, subject, PushScope(PositionAt(split, enter)))
             guarded == Choose(arm.guard, bound, pass, next)
             done == Body(arm.body, PositionAt(guarded, pass))
             closed == PopScope(Close(done, [op |-> "goto", to |-> end]))
         IN  Arms(Tail(arms), subject, end, PositionAt(closed, next))

\* prepare_match_expression takes every subject that is neither a variable nor
\* the call of a named function for a new value.
Match(s, g) ==
    LET subject == Value(s.e, g)
        held == IF s.e.k = "var" THEN subject.g ELSE RegisterTemp(subject.g, subject.v)
        end == NewBlock(held)
        done == Arms(s.arms, subject.v, end, AppendBlocks(held, 1))
    IN  IF \A i \in DOMAIN s.arms : EndsWithReturn(s.arms[i].body)
        THEN Close(done, [op |-> "unreachable"])
        ELSE done

\* generate_statement: a statement after a terminator is not generated, and what
\* a statement leaves pending is released at its end.
Statement(s, g) ==
    LET done ==
          CASE s.k = "decl" ->
                 LET made == Value(s.e, g) IN Declare(made.g, s.x, made.v)
            [] s.k = "uninit" ->
                 Declare(Emit([g EXCEPT !.next = @ + 1], [op |-> "null", to |-> g.next]),
                         s.x, g.next)
            [] s.k = "const" ->
                 LET made == Value(s.e, g) IN DeclareConst(made.g, s.x, made.v)
            [] s.k = "assign" ->
                 LET made == Value(s.e, g) IN Overwrite(made.g, SlotOf(made.g, s.x), made.v)
            [] s.k = "expr" -> Value(s.e, g).g
            [] s.k = "return" -> Return(s.e, g)
            [] s.k = "leave" -> Leave(g)
            [] s.k = "break" -> Break(g)
            [] s.k = "continue" -> Continue(g)
            [] s.k = "if" -> PopScope(If(s, PushScope(g)))
            [] s.k = "while" -> PopScope(While(s, PushScope(g)))
            [] s.k = "for" -> PopScope(For(s, PushScope(g)))
            [] s.k = "match" -> PopScope(Match(s, PushScope(g)))
    IN  IF ~Live(g) THEN g
        ELSE IF s.k \in {"return", "leave", "break", "continue"} THEN done
        ELSE CleanupTempsTo(done, TempMark(g))

Body(ss, g) == FoldLeft(LAMBDA h, s : Statement(s, h), g, ss)

(***************************************************************************)
(* generate_function: params maps the parameters to slots their caller     *)
(* owns.  A function that returns nothing is closed by a return, any other *)
(* by `unreachable`.                                                       *)
(***************************************************************************)
Generate(body, params, returnsValue) ==
    LET made == Body(body, Start(params))
        closed == IF ~Live(made) THEN made
                  ELSE IF returnsValue THEN Emit(made, [op |-> "unreachable"])
                  ELSE Leave(made)
    IN  FinalizeReturns(closed)

\* The function as it runs.
Function(body, params, returnsValue) ==
    LET numbers == [x \in Range(params) |-> CHOOSE i \in DOMAIN params : params[i] = x]
        g == Generate(body, numbers, returnsValue)
    IN  [blocks |-> g.blocks, owners |-> Range(g.tracked), rests |-> g.rests,
         params |-> Range(numbers)]

===============================================================================
