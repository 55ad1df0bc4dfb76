---------------------------- MODULE FlowExecution ----------------------------
(***************************************************************************)
(* The two flow analyses of the compiler beside the programs they accept:  *)
(* a function body is analyzed (semantics/statements.rs) and, when no      *)
(* error is found, executed as codegen/statements.rs lays it out. What the *)
(* analyses promise is that no execution takes the value of a wrapper of   *)
(* the other variant, and none reads a variable before it is assigned.     *)
(***************************************************************************)
EXTENDS BodyExecution

Narrow == INSTANCE Narrowing

VARIABLES
    store,   \* the variants of the wrappers, the values of the flags, and
             \* the wrappers that a reference was taken of
    wrote,   \* what the current iteration of each loop has written
    unseen   \* wrappers and flags with a write that the analysis of the
             \* statements after a loop does not see (see the properties)

vars == <<bodyVars, store, wrote, unseen>>

Init ==
    /\ BodyInit
    /\ store = [variant |-> [x \in Wrappers |-> "absent"],
                flag |-> [b \in Flags |-> FALSE], passed |-> {}]
    /\ wrote = <<>>
    /\ unseen = {}

-------------------------------------------------------------------------------
(* Values.                                                                 *)

\* A call may write whatever a reference was ever taken of, the globals and
\* what its own references refer to.
Clobbered(st) ==
    {[st EXCEPT !.variant = [x \in Wrappers |->
                               IF x \in S THEN Opposite(@[x]) ELSE @[x]]] :
       S \in SUBSET (st.passed \cup Globals \cup References)}

Passing(st, x) == Clobbered([st EXCEPT !.passed = @ \cup {x}])

\* The values a condition can have, with the store it leaves.
RECURSIVE Outcomes(_, _)
Outcomes(c, st) ==
    CASE c.op = "is" -> {<<st.variant[c.x] = c.v, st>>}
      [] c.op = "flag" -> {<<st.flag[c.b], st>>}
      [] c.op = "not" -> {<<~o[1], o[2]>> : o \in Outcomes(c.c, st)}
      [] c.op \in {"and", "or"} ->
             LET left == Outcomes(c.l, st)
                 decided == {o \in left : o[1] = (c.op = "or")}
             IN  decided \cup UNION {Outcomes(c.r, o[2]) : o \in left \ decided}
      [] c.op = "pass" -> BOOLEAN \X Passing(st, c.x)
      [] OTHER -> BOOLEAN \X {st}

\* What was written or passed by reference.
Changed(st, later) ==
    {x \in Wrappers : \/ st.variant[x] # later.variant[x]
                     \/ x \in later.passed \ st.passed}

\* Every loop around notes what is written.
Noting(S) == [i \in DOMAIN wrote |-> wrote[i] \cup S]

-------------------------------------------------------------------------------
(* The compiler, and the generated code: the steps of BodyExecution.       *)

Analyze ==
    /\ Compile(Narrow!AcceptsExtractions(program))
    /\ UNCHANGED <<store, wrote, unseen>>

\* Variables are written, which every loop around notes.
Writes(later, S) ==
    /\ store' = later
    /\ wrote' = Noting(S)
    /\ UNCHANGED unseen

Set ==
    /\ Simple("set")
    /\ \E st \in IF Current.v = "unknown" THEN Clobbered(store) ELSE {store} :
         \E v \in IF Current.v = "unknown" THEN Variants
                  ELSE IF Current.v \in Wrappers THEN {st.variant[Current.v]}
                  ELSE {Current.v} :
           Writes([st EXCEPT !.variant[Current.x] = v],
                  Changed(store, st) \cup {Current.x})

Save ==
    /\ Simple("save")
    /\ \E o \in Outcomes(Current.c, store) :
         Writes([o[2] EXCEPT !.flag[Current.b] = o[1]],
                Changed(store, o[2]) \cup {Current.b})

Call ==
    /\ Simple("call") \/ Simple("pass")
    /\ \E st \in IF Current.k = "call" THEN Clobbered(store)
                 ELSE Passing(store, Current.x) :
         Writes(st, Changed(store, st))

\* value() and error() of the variant that is there.
Extract ==
    /\ Simple("extract")
    /\ store.variant[Current.x] = Current.v
    /\ Writes(store, {})

\* A condition is computed and decides what is executed next.
Test ==
    /\ AtStatement("if")
    /\ \E o \in Outcomes(Current.c, store) :
         If(o[1]) /\ Writes(o[2], Changed(store, o[2]))

EnterWhile ==
    /\ While
    /\ wrote' = Append(wrote, {})
    /\ UNCHANGED <<store, unseen>>

\* What a for loop iterates over is computed once.
EnterFor ==
    /\ For
    /\ \E o \in Outcomes(Current.iter, store) :
         LET changed == Changed(store, o[2])
         IN  /\ store' = o[2]
             /\ wrote' = Append(Noting(changed), {})
             /\ unseen' = IF wrote # <<>> THEN unseen \cup changed ELSE unseen

LoopCondition == IF Current.k = "while" THEN Current.c ELSE [op |-> "opaque"]

\* What an iteration writes begins with its condition.
RunLoop ==
    /\ AtLoop
    /\ \E o \in Outcomes(LoopCondition, store) :
         LET changed == Changed(store, o[2])
         IN  /\ Iterate(o[1])
             /\ store' = o[2]
             /\ wrote' = IF o[1] THEN [Noting(changed) EXCEPT ![Len(wrote)] = changed]
                         ELSE SubSeq(Noting(changed), 1, Len(wrote) - 1)
             /\ UNCHANGED unseen

\* The first arm whose pattern fits and whose guard holds.
Select ==
    /\ AtStatement("match")
    /\ \E i \in DOMAIN Current.arms :
         LET fits(j) == Current.arms[j].v \in {"any", store.variant[Current.x]}
         IN  /\ Match(i)
             /\ fits(i)
             /\ <<TRUE, store>> \in Outcomes(Current.arms[i].guard, store)
             /\ \A j \in 1 .. i - 1 :
                  fits(j) => <<FALSE, store>> \in Outcomes(Current.arms[j].guard, store)
    /\ UNCHANGED <<store, wrote, unseen>>

\* Steps that write none of the wrappers and flags.
Read == Simple("read") /\ UNCHANGED <<store, wrote, unseen>>

EnterBlock == Nested /\ UNCHANGED <<store, wrote, unseen>>

DeclareSlot == Declare /\ UNCHANGED <<store, wrote, unseen>>

AssignSlot == Assign /\ UNCHANGED <<store, wrote, unseen>>

LeaveBlock == EndBlock /\ UNCHANGED <<store, wrote, unseen>>

LeaveFunction == Return /\ wrote' = <<>> /\ UNCHANGED <<store, unseen>>

\* What the iteration wrote is not seen by the analysis of what follows.
LeaveLoop ==
    /\ Break
    /\ wrote' = SubSeq(wrote, 1, Len(wrote) - 1)
    /\ unseen' = unseen \cup wrote[Len(wrote)]
    /\ UNCHANGED store

NextIteration ==
    /\ Continue
    /\ unseen' = unseen \cup wrote[Len(wrote)]
    /\ UNCHANGED <<store, wrote>>

Next ==
    \/ Analyze
    \/ Set \/ Save \/ Call \/ Extract \/ Read
    \/ EnterBlock \/ Test \/ EnterWhile \/ EnterFor \/ RunLoop \/ Select
    \/ DeclareSlot \/ AssignSlot
    \/ LeaveBlock \/ LeaveFunction \/ LeaveLoop \/ NextIteration

Spec == Init /\ [][Next]_vars

-------------------------------------------------------------------------------
(* Properties, beside those of BodyExecution.                              *)

\* No execution of an accepted program takes a value or an error out of a
\* wrapper of the other variant (narrowing.rs: facts hold on every path that
\* reaches the expression, and no fact or saved predicate outlives a write).
VariantEstablished ==
    AtStatement("extract") => store.variant[Current.x] = Current.v

\* The same, but for executions in which a write escaped the analysis: one in
\* an iteration left by break or continue, whose flow state is dropped, and
\* one by the iterator of a for loop inside another loop, which
\* invalidate_loop_writes does not look at.
VariantEstablishedUnlessUnseen ==
    unseen = {} => VariantEstablished

===============================================================================
