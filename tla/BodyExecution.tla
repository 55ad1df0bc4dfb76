----------------------------- MODULE BodyExecution -----------------------------
(***************************************************************************)
(* The control flow of a function body that passed definite assignment, as *)
(* codegen/statements.rs lays it out, and which of the variables declared  *)
(* without a value have one. Conditions are true or false as they please:  *)
(* FlowExecution adds what decides them.                                   *)
(***************************************************************************)
EXTENDS DefiniteAssignment

VARIABLES
    phase,     \* "source", "refused", "running"
    program,   \* the body, until it runs
    frames     \* what is left to execute: blocks and loops, innermost last

bodyVars == <<phase, program, frames>>

\* A block, or a loop (a block of one statement) about to test its condition.
\* declared: the variables of its scope, unset: those that have no value yet.
Frame(loop, ss) == [loop |-> loop, ss |-> ss, declared |-> {}, unset |-> {}]

Block(ss) == Frame(FALSE, ss)

Loop(s) == Frame(TRUE, <<s>>)

BodyInit ==
    /\ phase = "source"
    /\ \E family \in Families :
         \E one \in family.before, two \in family.middle, three \in family.after :
            program = one \o two \o three
    /\ frames = <<>>

\* The rest of the compiler may accept the body or not.
Compile(accepted) ==
    /\ phase = "source"
    /\ IF accepted /\ CheckDefiniteAssignment(program)
       THEN /\ phase' = "running"
            /\ frames' = <<Block(program)>>
       ELSE /\ phase' = "refused"
            /\ UNCHANGED frames
    /\ program' = <<>>

-------------------------------------------------------------------------------
(* The generated code.                                                     *)

Running == phase = "running" /\ frames # <<>>

Top == frames[Len(frames)]

Current == Top.ss[1]

AtLoop == Running /\ Top.loop

AtStatement(k) == Running /\ ~Top.loop /\ Top.ss # <<>> /\ Current.k = k

\* The frames after the current statement.
Rest == [frames EXCEPT ![Len(frames)].ss = Tail(@)]

Outer(n) == SubSeq(frames, 1, n)

\* The variable that t means where execution is, is in frame i.
Means(t, i) ==
    /\ t \in frames[i].declared
    /\ \A j \in i + 1 .. Len(frames) : t \notin frames[j].declared

GoOn(fs) == frames' = fs /\ UNCHANGED <<phase, program>>

\* A statement that has no effect on what is executed next.
Simple(k) == AtStatement(k) /\ GoOn(Rest)

SimpleKinds == {"set", "save", "call", "pass", "extract", "read"}

Nested == AtStatement("block") /\ GoOn(Append(Rest, Block(Current.body)))

If(truth) ==
    /\ AtStatement("if")
    /\ GoOn(Append(Rest, Block(IF truth THEN Current.yes ELSE Current.no)))

While == AtStatement("while") /\ GoOn(Append(Rest, Loop(Current)))

For == AtStatement("for") /\ GoOn(Append(Rest, Loop(Current)))

\* A loop tests its condition before every iteration.
Iterate(truth) ==
    /\ AtLoop
    /\ GoOn(IF truth THEN Append(frames, Block(Current.body))
            ELSE Outer(Len(frames) - 1))

Match(i) ==
    /\ AtStatement("match")
    /\ i \in DOMAIN Current.arms
    /\ GoOn(Append(Rest, Block(Current.arms[i].body)))

Declare ==
    /\ AtStatement("decl")
    /\ GoOn([Rest EXCEPT ![Len(frames)].declared = @ \cup {Current.t},
                         ![Len(frames)].unset = @ \cup {Current.t}])

Assign ==
    /\ AtStatement("assign")
    /\ GoOn([i \in DOMAIN frames |->
               IF Means(Current.t, i)
               THEN [Rest[i] EXCEPT !.unset = @ \ {Current.t}]
               ELSE Rest[i]])

EndBlock == Running /\ ~Top.loop /\ Top.ss = <<>> /\ GoOn(Outer(Len(frames) - 1))

Return == AtStatement("return") /\ GoOn(<<>>)

\* Frame n is the loop around the current statement.
Innermost(n) ==
    /\ n \in DOMAIN frames
    /\ frames[n].loop
    /\ \A i \in n + 1 .. Len(frames) : ~frames[i].loop

Break == AtStatement("break") /\ \E n \in DOMAIN frames : Innermost(n) /\ GoOn(Outer(n - 1))

Continue == AtStatement("continue") /\ \E n \in DOMAIN frames : Innermost(n) /\ GoOn(Outer(n))

BodyNext ==
    \/ \E accepted \in BOOLEAN : Compile(accepted)
    \/ \E k \in SimpleKinds : Simple(k)
    \/ Nested
    \/ \E truth \in BOOLEAN : If(truth) \/ Iterate(truth)
    \/ AtStatement("match") /\ \E i \in DOMAIN Current.arms : Match(i)
    \/ While \/ For \/ Declare \/ Assign
    \/ EndBlock \/ Return \/ Break \/ Continue

BodySpec == BodyInit /\ [][BodyNext]_bodyVars

-------------------------------------------------------------------------------
(* Properties.                                                             *)

\* What is evaluated next reads t: a statement, or the condition of a loop
\* (what a for loop iterates over is computed once, before the loop).
ReadingNext(t) ==
    /\ Running
    /\ Top.ss # <<>>
    /\ Top.loop => Current.k = "while"
    /\ t \in FirstReads(Current)

\* No execution of an accepted program reads a variable it has not assigned,
\* wherever branches, arms, loops and jumps took it. (The guards of match
\* statements, which the analysis does not look at, are not claimed.)
ReadsAreSet ==
    \A i \in DOMAIN frames : \A t \in frames[i].unset :
        ~(ReadingNext(t) /\ Means(t, i))

\* The same, for programs that do not declare a variable of the same name
\* again while another is in scope: definite assignment goes by names.
AssignedBeforeRead == NoShadowing => ReadsAreSet

\* A program is only refused for a variable without a value when some path
\* through the statements after its declaration reads it too early, as long
\* as it is read in the block that declares it and not in a nested one.
ReadAtTopOnly(ss, t) ==
    \A inner \in InnerBlocks(ss) : \A b \in BlocksIn[inner] : \A s \in Elements(b) :
        t \notin FirstReads(s)

RefusedForAPath ==
    phase = "source" =>
        \A ss \in BlocksOf(program) : \A i \in DOMAIN ss :
            (/\ ss[i].k = "decl"
             /\ ReadAtTopOnly(After(ss, i), ss[i].t)
             /\ ReadBeforeAssignment(After(ss, i), ss[i].t))
            => SomePathReadsFirst(After(ss, i), ss[i].t)

===============================================================================
