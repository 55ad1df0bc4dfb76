--------------------------------- MODULE MCRc ---------------------------------
(***************************************************************************)
(* Instances of RcExecution: functions with a variable or a loop before,   *)
(* one branch, loop or match in the middle, and a return after it.         *)
(***************************************************************************)
EXTENDS RcExecution, RcCodegen

New == [k |-> "fresh", args |-> << >>]
Of(e) == [k |-> "fresh", args |-> << e >>]
Var(x) == [k |-> "var", x |-> x]
ChoiceOf(yes, no) == [k |-> "choice", yes |-> yes, no |-> no]
Opaque == [k |-> "opaque"]
Always == [k |-> "always"]
Test(e) == [k |-> "test", args |-> << e >>]
Both(l, r) == [k |-> "both", l |-> l, r |-> r]

Declares(x, e) == [k |-> "decl", x |-> x, e |-> e]
Uninit(x) == [k |-> "uninit", x |-> x]
Const(x, e) == [k |-> "const", x |-> x, e |-> e]
Assign(x, e) == [k |-> "assign", x |-> x, e |-> e]
Calls(e) == [k |-> "expr", e |-> e]
Returns(e) == [k |-> "return", e |-> e]
Simple(k) == [k |-> k]
Branches(c, yes, no) == [k |-> "if", c |-> c, yes |-> yes, no |-> no]
Repeat(c, body) == [k |-> "while", c |-> c, body |-> body]
Each(e, body) == [k |-> "for", x |-> "i", e |-> e, body |-> body]
Select(e, arms) == [k |-> "match", e |-> e, arms |-> arms]
Arm(test, binds, guard, body) ==
    [test |-> test, binds |-> binds, rest |-> << >>, guard |-> guard, body |-> body]
ArmWithRest(test, binds, r, guard, body) ==
    [Arm(test, binds, guard, body) EXCEPT !.rest = << r >>]

\* Expressions and conditions, over a variable or parameter y.
Exprs(y) == {New, Var(y), Of(Var(y)), ChoiceOf(New, Var(y)), Of(ChoiceOf(New, Of(New)))}
Conditions(y) == {Opaque, Test(New), Both(Opaque, Test(Of(Var(y))))}

\* Statements without others inside, and those that leave.
Plain(y) == {Declares("v", New), Declares("v", Var(y)), Assign("x", New), Calls(Of(Of(Var(y))))}
Exits(y) == {<< Returns(Var(y)) >>, << Returns(Of(Var(y))) >>,
             << Declares("v", New), Returns(Var("v")) >>}
Jumps == {<< Simple("break") >>, << Simple("continue") >>}
Bodies(y) == {<< >>} \cup {<< s >> : s \in Plain(y)} \cup Exits(y)
LoopBodies(y) == Bodies(y) \cup Jumps \cup {<< Declares("v", New) >> \o j : j \in Jumps}

Ifs(y) == {Branches(c, yes, no) : c \in Conditions(y), yes, no \in Bodies(y)}
Matches(y, bodies) ==
    {Select(e, << Arm(Test(New), << "p" >>, guard, one), Arm(Always, << >>, Always, two) >>) :
        e \in {New, Var(y)}, guard \in {Always, Test(New)},
        one \in bodies \cup {<< Calls(Of(Var("p"))), Declares("v", Var("p")) >>},
        two \in {<< >>, << Returns(New) >>}}
\* With the rest of the list: outside loops, where each iteration loses another
\* list.
RestMatches(y) ==
    {Select(e, << ArmWithRest(Test(New), << "p" >>, "r", guard, body),
                  ArmWithRest(Always, << >>, "r", Always, << Calls(Of(Var("r"))) >>) >>) :
        e \in {New, Var(y)}, guard \in {Always, Test(Of(Var("r")))},
        body \in {<< s >> : s \in Plain("r")} \cup
                  {<< Assign("r", New) >>, << Assign("x", Var("r")) >>,
                   << Assign("r", Var(y)), Returns(Var("r")) >>} \cup Exits("r")}
\* A loop over a variable does not assign to it: see LoopOverAssigned.
Loops(y) ==
    {Repeat(c, << Branches(d, body, << >>), Declares("w", New) >>) :
        c, d \in Conditions(y), body \in LoopBodies(y)} \cup
    {Each(e, << Declares("w", Var("i")), Branches(Opaque, body, << >>) >>) :
        e \in {New, Var(y)}, body \in LoopBodies(y) \ {<< Assign(y, New) >>}} \cup
    {Repeat(Opaque, << m >>) : m \in Matches(y, Jumps)} \cup
    {Each(New, << m, Each(Of(Var("i")), << Branches(Test(New), body, << >>) >>) >>) :
        m \in {Repeat(Test(New), << Simple("break") >>), Assign("x", Var("i"))},
        body \in LoopBodies(y)}
Assignments == {<< Declares("z", e), Assign("x", d) >> : e, d \in Exprs("x")}

Returning(params, y) ==
    [before |-> {<< Declares("x", New) >>},
     middle |-> {<< s >> : s \in Ifs(y) \cup Matches(y, Bodies(y)) \cup RestMatches(y)
                                 \cup Loops(y)},
     after |-> {<< Returns(Var("x")) >>},
     params |-> params, returnsValue |-> TRUE]

Straight ==
    [before |-> {<< Declares("x", New) >>, << Uninit("x"), Assign("x", New) >>,
                 << Declares("x", New), Const("k", New) >>},
     middle |-> Assignments,
     after |-> {<< Returns(e) >> : e \in Exprs("x")},
     params |-> << "p0" >>, returnsValue |-> TRUE]

Procedure ==
    [before |-> {<< Declares("x", New) >>},
     middle |-> {<< Repeat(Test(Var("x")), << Branches(Test(New), s, << >>), t >>) >> :
                    s \in {<< Simple("leave") >>} \cup Jumps,
                    t \in Plain("x") \cup
                          {Select(New, << Arm(Always, << "p" >>, Always, j) >>) : j \in Jumps}},
     after |-> {<< >>, << Simple("leave") >>},
     params |-> << >>, returnsValue |-> FALSE]

\* The functions of families: the code is generated for the statements before, in the
\* middle and after, in every combination. (TLC's statistics would unfold the
\* generator without the LETs in the definitions that a configuration names.)
Generated(families) ==
    UNION {{Function(before \o middle \o after, f.params, f.returnsValue) :
               before \in f.before, middle \in f.middle, after \in f.after} :
           f \in families}

-------------------------------------------------------------------------------
\* Functions in which a value is used without a reference of its own, one set
\* each: the runs with them show a property violated.
Borrowing(params, middle) ==
    {Function(<< Declares("x", New) >> \o middle, params, FALSE)}

ConstantOfVariable ==
    LET body == << Const("k", Var("x")) >>
    IN  Borrowing(<< >>, body)
ConstantOfChoice ==
    LET body == << Const("k", ChoiceOf(New, New)), Calls(Of(Var("k"))) >>
    IN  Borrowing(<< >>, body)
ConstantInLoop ==
    LET body == << Repeat(Opaque, << Const("k", New) >>) >>
    IN  Borrowing(<< >>, body)
LoopOverAssigned ==
    LET body == << Each(Var("x"), << Assign("x", New) >>) >>
    IN  Borrowing(<< >>, body)
ParameterAssigned ==
    LET body == << Assign("p0", New) >>
    IN  Borrowing(<< "p0" >>, body)
PatternVariableAssigned ==
    LET body == << Select(New, << Arm(Always, << "p" >>, Always, << Assign("p", New) >>) >>) >>
    IN  Borrowing(<< >>, body)
MatchOnChoice ==
    LET body == << Select(ChoiceOf(New, New), << Arm(Always, << >>, Always, << >>) >>) >>
    IN  Borrowing(<< >>, body)

RestOfPattern ==
    LET arm == ArmWithRest(Always, << "p" >>, "r", Always, << Calls(Of(Var("r"))) >>)
        body == << Select(New, << arm >>) >>
    IN  Borrowing(<< >>, body)

-------------------------------------------------------------------------------
MCFunctions ==
    LET families == {Returning(<< >>, "x"), Returning(<< "p0" >>, "p0"), Straight, Procedure}
    IN  Generated(families)

===============================================================================
