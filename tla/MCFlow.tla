-------------------------------- MODULE MCFlow --------------------------------
(***************************************************************************)
(* Instances of FlowExecution: function bodies built around one branch,    *)
(* loop or match, with statements before, inside and after it, over the    *)
(* wrapper x or g, the flag b and the slots t, u.                             *)
(***************************************************************************)
EXTENDS FlowExecution, SequencesExt

SetTo(y, v) == [k |-> "set", x |-> y, v |-> v]
SaveB(c) == [k |-> "save", b |-> "b", c |-> c]
Extracts(y, v) == [k |-> "extract", x |-> y, v |-> v]
PassTo(y) == [k |-> "pass", x |-> y]
CallOnly == [k |-> "call"]
Jump(k) == [k |-> k]
Branch(c, yes, no) == [k |-> "if", c |-> c, yes |-> yes, no |-> no]
Repeat(c, body) == [k |-> "while", c |-> c, body |-> body]
Each(iter, body) == [k |-> "for", iter |-> iter, body |-> body]
MatchOn(y, arms) == [k |-> "match", x |-> y, arms |-> arms]
Arm(v, guard, body) == [v |-> v, guard |-> guard, body |-> body]

Opaque == [op |-> "opaque"]
Is(y, v) == [op |-> "is", x |-> y, v |-> v]
IsB == [op |-> "flag", b |-> "b"]
Not(c) == [op |-> "not", c |-> c]
Both(l, r) == [op |-> "and", l |-> l, r |-> r]
Either(l, r) == [op |-> "or", l |-> l, r |-> r]
Passes(y) == [op |-> "pass", x |-> y]

Declares(t) == [k |-> "decl", t |-> t]
AssignTo(t) == [k |-> "assign", t |-> t]
ReadOf(t) == [k |-> "read", t |-> t]
OpReads == [op |-> "read", t |-> "t"]

UpToTwo(S) == {<<>>} \cup {<<s>> : s \in S} \cup {<<s, r>> : s, r \in S}

\* What may come before and after.
Before(y) == {SetTo(y, v) : v \in {"present", "unknown"}}
               \cup {SaveB(Is(y, v)) : v \in Variants} \cup {PassTo(y)}
Uses(y) == {<<Extracts(y, v)>> : v \in Variants}
              \cup {<<>>,
                    <<Branch(IsB, <<Extracts(y, "present")>>, <<Extracts(y, "absent")>>)>>,
                    <<CallOnly, Branch(IsB, <<Extracts(y, "present")>>, <<>>)>>}

\* Branches.
Tests(y) == {Opaque, Is(y, "present"), Is(y, "absent"), IsB,
             Not(Is(y, "present")), Not(IsB), Passes(y),
             Both(Is(y, "present"), Opaque), Either(Is(y, "absent"), Opaque),
             Both(Is(y, "present"), Passes(y)), Either(Opaque, Is(y, "present"))}
Arms(y) == {<<>>, <<Jump("return")>>, <<SetTo(y, "absent")>>,
            <<Extracts(y, "present")>>, <<SetTo(y, "present")>>, <<CallOnly>>,
            <<SetTo(y, "unknown"), SaveB(Is(y, "present"))>>}
Branches(y) == {Branch(c, yes, no) : c \in Tests(y), yes, no \in Arms(y)}

\* Matches.
Matches(y) ==
    {MatchOn(y, <<Arm("present", Opaque, one), Arm("present", Opaque, <<>>),
                 Arm("absent", Opaque, two)>>) : one, two \in Arms(y)} \cup
    {MatchOn(y, <<Arm(v, IsB, one), Arm("any", Opaque, two)>>) :
        v \in Variants, one, two \in Arms(y)}

\* Loops.
Leaves(y) == {Branch(Is(y, "absent"), <<Jump(k)>>, <<>>) :
                k \in {"break", "continue", "return"}}
Body(y) == {SetTo(y, "present"), SetTo(y, "absent"), SetTo(y, "unknown"),
            Extracts(y, "present"), SaveB(Is(y, "present")), PassTo(y), CallOnly,
            Branch(IsB, <<Extracts(y, "present")>>, <<>>),
            Jump("break"), Jump("continue"), Each(Passes(y), <<>>),
            Repeat(Opaque, <<SetTo(y, "absent")>>)} \cup Leaves(y)
Loops(y) == {Repeat(c, body) : c \in {Opaque, Is(y, "present"), IsB, Passes(y)},
                               body \in UpToTwo(Body(y))} \cup
            {Each(Opaque, body) : body \in UpToTwo(Body(y))}

Wrapped(y) == [before |-> {<<>>} \cup {<<s>> : s \in Before(y)} \cup
                             {<<SetTo(y, "present"), SaveB(Is(y, "present"))>>},
               middle |-> {<<s>> : s \in Branches(y) \cup Matches(y) \cup Loops(y)},
               after |-> Uses(y)]

\* Variables without a value.
SlotArms == {<<>>, <<AssignTo("t")>>, <<Jump("return")>>, <<ReadOf("t")>>,
             <<AssignTo("t"), ReadOf("t")>>}
InLoops == {<<AssignTo("t")>>, <<AssignTo("t"), Jump("break")>>, <<Jump("continue")>>,
            <<Branch(Opaque, <<AssignTo("t")>>, <<Jump("break")>>)>>,
            <<Branch(Opaque, <<AssignTo("t")>>, <<Jump("continue")>>), Declares("u"),
              AssignTo("u"), ReadOf("u")>>,
            <<Declares("u"), Branch(Opaque, <<AssignTo("u")>>, <<Jump("break")>>),
              ReadOf("u")>>}
SlotSteps ==
    {AssignTo("t"), ReadOf("t"), [k |-> "block", body |-> <<AssignTo("t")>>], SaveB(OpReads)} \cup
    {Branch(c, yes, no) : c \in {Opaque, OpReads}, yes, no \in SlotArms} \cup
    {MatchOn("x", <<Arm("present", Opaque, one), Arm("any", Opaque, two)>>) :
        one, two \in SlotArms} \cup
    {Repeat(c, body) : c \in {Opaque, OpReads}, body \in InLoops} \cup
    {Each(c, body) : c \in {Opaque, OpReads}, body \in InLoops}
Slotted == [before |-> {<<Declares("t")>>}, middle |-> UpToTwo(SlotSteps),
            after |-> {<<ReadOf("t")>>}]
SlottedInLoop ==
    [before |-> {<<Repeat(Opaque, <<Declares("t"), s, ReadOf("t")>>)>> : s \in SlotSteps},
     middle |-> {<<>>}, after |-> {<<>>}]

\* A parameter that is a reference, tested before and after a call.
ReferenceFamilies ==
    {[before |-> SeqOf({SaveB(Is("x", v)) : v \in Variants} \cup {CallOnly}, 2),
      middle |-> {<<CallOnly>>}, after |-> Uses("x")]}

\* A variable is declared again in an inner block.
ShadowingFamilies ==
    {[before |-> {<<Declares("t")>>},
      middle |-> {<<[k |-> "block", body |-> <<Declares("t"), AssignTo("t")>>]>>},
      after |-> {<<ReadOf("t")>>}]}

\* The condition of a loop is computed once more after the last iteration.
ConditionFamilies ==
    {[before |-> {<<SetTo("g", "present")>>},
      middle |-> {<<Repeat(Passes("x"), <<PassTo("g"), SetTo("g", "present")>>)>>},
      after |-> {<<Extracts("g", "present")>>}]}

\* Statements and those inside them, blocks being nested three deep at most.
InnerOf(S) == UNION {Inner(s) : s \in S}
ElementsOf(B) == UNION {Elements(b) : b \in B}
Closure(S) ==
    LET inner == ElementsOf(InnerOf(S))
    IN  S \cup inner \cup ElementsOf(InnerOf(inner))

FamilyStatements(families) ==
    Closure(ElementsOf(UNION {family.before \cup family.middle \cup family.after :
                                family \in families}))

\* How deep blocks are nested in ss.
RECURSIVE Depth(_)
Depth(ss) == Max({0} \cup {Depth(inner) + 1 : inner \in InnerBlocks(ss)})

MCConditions ==
    LET leaves(y) == {Is(y, "present"), Is(y, "absent"), Passes(y)}
        simple == leaves("x") \cup leaves("g") \cup {Opaque, IsB, OpReads}
    IN  simple \cup {Not(c) : c \in simple}
          \cup {Both(l, r) : l, r \in simple} \cup {Either(l, r) : l, r \in simple}

MCFamilies == {Wrapped("x"), Wrapped("g"), Slotted, SlottedInLoop}
MCOuter ==
    UNION {Before(y) \cup Branches(y) \cup Matches(y) \cup Loops(y)
             \cup ElementsOf(Uses(y)) : y \in {"x", "g"}}
      \cup SlotSteps \cup {Declares("t")}
      \cup {Repeat(Opaque, <<Declares("t"), s, ReadOf("t")>>) : s \in SlotSteps}
MCOuterBlocks == InnerOf(MCOuter)
MCInner == ElementsOf(MCOuterBlocks)
MCInnerBlocks == InnerOf(MCInner)
MCInnermost == ElementsOf(MCInnerBlocks)
MCStatements == MCOuter \cup MCInner \cup MCInnermost
MCBlocks == MCOuterBlocks \cup MCInnerBlocks \cup InnerOf(MCInnermost)
MCNesting == [ss \in MCBlocks |-> Depth(ss)]

ReferenceStatements == FamilyStatements(ReferenceFamilies)
ReferenceBlocks == InnerOf(ReferenceStatements)
ReferenceNesting == [ss \in ReferenceBlocks |-> Depth(ss)]

ShadowingStatements == FamilyStatements(ShadowingFamilies)
ShadowingBlocks == InnerOf(ShadowingStatements)
ShadowingNesting == [ss \in ShadowingBlocks |-> Depth(ss)]

ConditionStatements == FamilyStatements(ConditionFamilies)
ConditionBlocks == InnerOf(ConditionStatements)
ConditionNesting == [ss \in ConditionBlocks |-> Depth(ss)]

\* Every step of FlowExecution is one of BodyExecution.
StepsOfBody == [][BodyNext]_bodyVars

===============================================================================
