-------------------------- MODULE DefiniteAssignment --------------------------
(***************************************************************************)
(* semantics/definite_assignment.rs: a read of a variable declared without *)
(* a value is refused unless the statements before it assign it on every   *)
(* path.                                                                   *)
(***************************************************************************)
EXTENDS FlowLanguage

\* Mutant: one assigning branch is enough.
CombineEither(flows) ==
    IF flows = {"Diverges"} THEN "Diverges"
    ELSE IF "Assigns" \in flows THEN "Assigns"
    ELSE "FallsThrough"

\* Mutant: a branch that leaves counts as one that does not assign.
CombineStrictly(flows) ==
    IF flows = {"Diverges"} THEN "Diverges"
    ELSE IF flows = {"Assigns"} THEN "Assigns"
    ELSE "FallsThrough"

\* Alternative paths: the weakest guarantee, a diverging path counts not.
CombineBranches(flows) ==
    IF flows = {"Diverges"} THEN "Diverges"
    ELSE IF flows \subseteq {"Assigns", "Diverges"} THEN "Assigns"
    ELSE "FallsThrough"

\* One statement after the other: nothing after one that diverges is reached.
Sequenced(flows) ==
    IF "Diverges" \in flows THEN "Diverges"
    ELSE IF "Assigns" \in flows THEN "Assigns"
    ELSE "FallsThrough"

\* What a statement guarantees about t, when flow says it of every block.
StatementFlow(flow, s, t) ==
    CASE s.k \in {"return", "break", "continue"} -> "Diverges"
      [] s.k = "assign" -> IF s.t = t THEN "Assigns" ELSE "FallsThrough"
      [] s.k = "block" -> flow[s.body][t]
      [] s.k \in {"if", "match"} -> CombineBranches({flow[inner][t] : inner \in Inner(s)})
      [] OTHER -> "FallsThrough"

\* What a block guarantees about each variable by its end.
AnalyzeBlock[ss \in Blocks] ==
    [t \in Slots |-> Sequenced({StatementFlow(AnalyzeBlock, s, t) : s \in Elements(ss)})]

AnalyzeStatement(s, t) == StatementFlow(AnalyzeBlock, s, t)

\* The variables a condition reads.
Reads[c \in Conditions] ==
    (IF c.op = "read" THEN {c.t} ELSE {}) \cup UNION {Reads[d] : d \in Parts(c)}

\* What a statement reads before anything else. The guards of a match
\* statement are not looked at.
FirstReads(s) ==
    CASE s.k = "read" -> {s.t}
      [] s.k \in {"if", "while", "save", "for"} -> UNION {Reads[c] : c \in ConditionsOf(s)}
      [] OTHER -> {}

\* What is read anywhere in a statement.
ReadInStatement(s) == UNION {FirstReads(w) : w \in Within(s)}

\* Whether ss reads t before a statement that assigns it or does not end.
ReadBeforeAssignment(ss, t) ==
    \E j \in DOMAIN ss :
        /\ t \in ReadInStatement(ss[j])
        /\ \A i \in 1 .. j - 1 : AnalyzeStatement(ss[i], t) = "FallsThrough"

After(ss, i) == SubSeq(ss, i + 1, Len(ss))

\* No declaration directly in ss is followed by a read without an assignment.
DeclarationsAssigned(ss) ==
    \A i \in DOMAIN ss :
        ss[i].k = "decl" => ~ReadBeforeAssignment(After(ss, i), ss[i].t)

CheckDefiniteAssignment(body) == \A ss \in BlocksOf(body) : DeclarationsAssigned(ss)

-------------------------------------------------------------------------------
(* The analysis goes by names: a variable declared in a block inside the   *)
(* scope of another of the same name is not told from it.                  *)

DeclaredIn(s) == {w.t : w \in {x \in Within(s) : x.k = "decl"}}

Unshadowed(ss) ==
    \A i, j \in DOMAIN ss :
        ss[i].k = "decl" /\ i < j => ss[i].t \notin DeclaredIn(ss[j])

NoShadowing ==
    /\ \A ss \in Blocks : Unshadowed(ss)
    /\ \A family \in Families :
         \A one \in family.before, two \in family.middle, three \in family.after :
            Unshadowed(one \o two \o three)

-------------------------------------------------------------------------------
(* The reference: what can happen on the paths through a block, whatever  *)
(* the conditions. A path is its exit and whether t is assigned there; its *)
(* exit is "unassigned" when it reads t too early.                         *)

\* The paths through a statement that begin with t assigned or not (from).
Through(paths, s, t) ==
    [from \in BOOLEAN |->
       LET once == UNION {paths[inner][t][from] : inner \in Inner(s)}
       IN  IF t \in FirstReads(s) /\ ~from THEN {<<"unassigned", FALSE>>}
           ELSE CASE s.k \in {"if", "match", "block"} -> once
                  [] s.k \in {"while", "for"} ->
                       {<<"end", from>>} \cup
                       {<<IF p[1] \in {"break", "continue"} THEN "end" ELSE p[1], p[2]>>
                          : p \in once}
                  [] s.k \in {"return", "break", "continue"} -> {<<s.k, from>>}
                  [] s.k = "assign" -> {<<"end", from \/ s.t = t>>}
                  [] OTHER -> {<<"end", from>>}]

\* The paths that go on with one of some states, and the states at their ends.
From(through, states) == UNION {through[b] : b \in states}

Ends(paths) == {p[2] : p \in {q \in paths : q[1] = "end"}}

\* The states after the first i of n statements, when through[k] are the paths
\* through the one at k.
StatesAfter(through, n, from) ==
    LET after[i \in 0 .. n] ==
            IF i = 0 THEN {from} ELSE Ends(From(through[i], after[i - 1]))
    IN  after

\* The paths through the n statements.
Routes(through, n, from) ==
    LET after == StatesAfter(through, n, from)
    IN  {<<"end", b>> : b \in after[n]} \cup
        {p \in UNION {From(through[i], after[i - 1]) : i \in 1 .. n} : p[1] # "end"}

BlockRoutes(paths, ss, t, from) ==
    Routes([i \in DOMAIN ss |-> Through(paths, ss[i], t)], Len(ss), from)

Paths[ss \in Blocks] ==
    [t \in Slots |-> [from \in BOOLEAN |-> BlockRoutes(Paths, ss, t, from)]]

\* Some path through ss reads t before it assigns it.
SomePathReadsFirst(ss, t) == \E p \in BlockRoutes(Paths, ss, t, FALSE) : p[1] = "unassigned"

===============================================================================
