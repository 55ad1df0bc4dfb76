-------------------------- MODULE BodyExecutionProofs --------------------------
(***************************************************************************)
(* Proofs about BodyExecution: no execution of a body that the analysis    *)
(* accepts reads a variable without a value, and none is refused without a *)
(* path that does. The recursive definitions are functions on the blocks,  *)
(* which are nested to finite depth: that they satisfy their equations is  *)
(* proved first (Recursion and the lemmas named after them).               *)
(***************************************************************************)
EXTENDS BodyExecution, FiniteSetTheorems, SequenceTheorems, TLAPS

-------------------------------------------------------------------------------
(* The inductive invariant.                                                *)

Frames == [loop : BOOLEAN, ss : Seq(Statements),
           declared : SUBSET Slots, unset : SUBSET Slots]

LoopFrame(f) ==
  /\ f.declared = {} /\ f.unset = {}
  /\ \E s \in Statements : s.k \in {"while", "for"} /\ f.ss = <<s>>

LoopsTyped(fs) == \A i \in DOMAIN fs : fs[i].loop => LoopFrame(fs[i])

BodyTypeOK ==
  /\ phase \in {"source", "refused", "running"}
  /\ program \in Seq(Statements)
  /\ frames \in Seq(Frames)
  /\ LoopsTyped(frames)

ReadIn(ss) == UNION {ReadInStatement(s) : s \in Elements(ss)}

DeclaredWithin(ss) == UNION {DeclaredIn(s) : s \in Elements(ss)}

\* The end of ss is not reached without an assignment to t.
Settles(ss, t) == \E s \in Elements(ss) : AnalyzeStatement(s, t) # "FallsThrough"

\* What is left of a frame was checked.
Checked(f) ==
  /\ f.unset \subseteq f.declared
  /\ CheckDefiniteAssignment(f.ss)
  /\ Unshadowed(f.ss)

\* Every frame was checked, and nothing that is left of it declares what it or
\* a frame around it has declared.
WellFormed(fs) ==
  \A i \in DOMAIN fs :
     /\ Checked(fs[i])
     /\ \A j \in i .. Len(fs) : fs[i].declared \cap DeclaredWithin(fs[j].ss) = {}
     /\ \A j \in i + 1 .. Len(fs) : fs[i].declared \cap fs[j].declared = {}

\* A frame inside frame i, with no loop between them, settles t.
WillSettle(fs, i, t) ==
  \E k \in i + 1 .. Len(fs) :
     /\ \A j \in i + 1 .. k : ~fs[j].loop
     /\ Settles(fs[k].ss, t)

\* Nothing inside frame i reads t, and what is left of frame i assigns t first,
\* unless a frame inside it does.
PendingIn(fs, i, t) ==
  /\ \A k \in i + 1 .. Len(fs) : t \notin ReadIn(fs[k].ss)
  /\ ~ReadBeforeAssignment(fs[i].ss, t) \/ WillSettle(fs, i, t)

\* Every variable without a value is assigned before it is read.
Pending(fs) == \A i \in DOMAIN fs : \A t \in fs[i].unset : PendingIn(fs, i, t)

IInv ==
  /\ BodyTypeOK
  /\ Unshadowed(program)
  /\ WellFormed(frames)
  /\ Pending(frames)


(***************************************************************************)
(* Induction, for sets of numbers: a set that has 0 and every successor    *)
(* has every number up to m, or what it has of them would be finite and    *)
(* closed under a one-to-one map that misses 0.                            *)
(***************************************************************************)
LEMMA Induction ==
  ASSUME NEW m \in Nat, NEW T, 0 \in T, \A n \in 0 .. m : n \in T /\ n # m => n + 1 \in T
  PROVE  0 .. m \subseteq T
<1> SUFFICES ASSUME NEW k \in 0 .. m, k \notin T PROVE FALSE
  OBVIOUS
<1> DEFINE L == {n \in 0 .. k : n \in T}
           f == [n \in L |-> n + 1]
<1>1. IsFiniteSet(L)
  <2>1. IsFiniteSet(0 .. k)
    BY FS_Interval
  <2> QED
    BY <2>1, FS_Subset
<1>2. \A n \in L : n + 1 \in L
  BY SMT
<1>3. f \in Injection(L, L)
  BY <1>2 DEF Injection, IsInjective
<1>4. f \in Surjection(L, L)
  <2> HIDE DEF L, f
  <2> QED
    BY <1>1, <1>3, FS_Injection
<1>5. 0 \in L
  OBVIOUS
<1>6. PICK n \in L : f[n] = 0
  BY <1>4, <1>5 DEF Surjection
<1> QED
  BY <1>6

(***************************************************************************)
(* What holds of everything whose predecessors it holds of holds of all.   *)
(***************************************************************************)
LEMMA RankInduction ==
  ASSUME NEW D, NEW rank \in [D -> Nat], NEW S,
         \A d \in D : (\A e \in D : rank[e] < rank[d] => e \in S) => d \in S
  PROVE  D \subseteq S
<1> SUFFICES ASSUME NEW d \in D PROVE d \in S
  OBVIOUS
<1> DEFINE m == rank[d] + 1
           T == {n \in 0 .. m : \A e \in D : rank[e] < n => e \in S}
<1>1. m \in Nat
  OBVIOUS
<1>2. 0 \in T
  <2>1. \A e \in D : ~(rank[e] < 0)
    OBVIOUS
  <2> QED
    BY <1>1, <2>1
<1>3. ASSUME NEW n \in 0 .. m, n \in T, n # m PROVE n + 1 \in T
  <2>1. ASSUME NEW e \in D, rank[e] < n + 1 PROVE e \in S
    <3>1. \A c \in D : rank[c] < rank[e] => rank[c] < n
      BY <2>1
    <3> QED
      BY <1>3, <3>1
  <2>2. n + 1 \in 0 .. m
    BY <1>1, <1>3
  <2> QED
    BY <2>1, <2>2
<1>4. 0 .. m \subseteq T
  <2> HIDE DEF m, T
  <2> QED
    BY <1>1, <1>2, <1>3, Induction
<1>5. m \in 0 .. m
  BY <1>1
<1>6. \A e \in D : rank[e] < m => e \in S
  BY <1>4, <1>5
<1> QED
  BY <1>6

\* A set of numbers has a smallest one.
LEMMA Smallest ==
  ASSUME NEW S \in SUBSET Nat, NEW n \in S
  PROVE  \E m \in S : \A k \in S : ~(k < m)
<1> SUFFICES ASSUME \A m \in S : \E k \in S : k < m PROVE FALSE
  OBVIOUS
<1> DEFINE T == {k \in 0 .. n + 1 : \A i \in S : ~(i < k)}
<1>1. n + 1 \in Nat /\ 0 \in T
  OBVIOUS
<1>2. ASSUME NEW k \in 0 .. n + 1, k \in T, k # n + 1 PROVE k + 1 \in T
  <2>1. k \notin S
    BY <1>2
  <2>2. \A i \in S : ~(i < k + 1)
    BY <1>2, <2>1
  <2> QED
    BY <1>2, <2>2
<1>3. 0 .. n + 1 \subseteq T
  <2> DEFINE l == n + 1
  <2>1. l \in Nat /\ 0 \in T /\ \A k \in 0 .. l : k \in T /\ k # l => k + 1 \in T
    BY <1>1, <1>2
  <2>2. 0 .. l \subseteq T
    <3> HIDE DEF l, T
    <3> QED
      BY <2>1, Induction
  <2> QED
    BY <2>2
<1>4. n + 1 \in T
  BY <1>3
<1> QED
  BY <1>4

(***************************************************************************)
(* A function can be defined by recursion: when G computes the value at d  *)
(* from the values of lower rank, G has a fixed point.                     *)
(***************************************************************************)
Recursive(D, rank, V, G) ==
  /\ rank \in [D -> Nat]
  /\ V # {}
  /\ G \in [[D -> V] -> [D -> V]]
  /\ \A f, h \in [D -> V] : \A d \in D :
       (\A e \in D : rank[e] < rank[d] => f[e] = h[e]) => G[f][d] = G[h][d]

HasFixedPoint(D, V, G) == \E f \in [D -> V] : f = G[f]

LEMMA Recursion ==
  ASSUME NEW D, NEW rank, NEW V, NEW G, Recursive(D, rank, V, G)
  PROVE  HasFixedPoint(D, V, G)
<1> /\ rank \in [D -> Nat] /\ V # {} /\ G \in [[D -> V] -> [D -> V]]
    /\ \A f, h \in [D -> V] : \A d \in D :
         (\A e \in D : rank[e] < rank[d] => f[e] = h[e]) => G[f][d] = G[h][d]
  BY DEF Recursive
<1> SUFFICES \E f \in [D -> V] : f = G[f]
  BY DEF HasFixedPoint
<1> DEFINE Solves(g, n) == \A d \in D : rank[d] < n => g[d] = G[g][d]
<1>1. ASSUME NEW n \in Nat PROVE \E g \in [D -> V] : Solves(g, n)
  <2> DEFINE T == {k \in 0 .. n : \E g \in [D -> V] : Solves(g, k)}
  <2>1. 0 \in T
    <3>1. PICK v \in V : TRUE
      OBVIOUS
    <3>2. [d \in D |-> v] \in [D -> V]
      OBVIOUS
    <3>3. Solves([d \in D |-> v], 0)
      <4>1. \A d \in D : ~(rank[d] < 0)
        OBVIOUS
      <4> QED
        BY <4>1
    <3> HIDE DEF Solves
    <3> QED
      BY <3>2, <3>3
  <2>2. ASSUME NEW k \in 0 .. n, k \in T, k # n PROVE k + 1 \in T
    <3>1. PICK g \in [D -> V] : Solves(g, k)
      BY <2>2
    <3>2. G[g] \in [D -> V]
      OBVIOUS
    <3>3. ASSUME NEW d \in D, rank[d] < k + 1 PROVE G[g][d] = G[G[g]][d]
      <4>1. ASSUME NEW e \in D, rank[e] < rank[d] PROVE g[e] = G[g][e]
        <5>1. rank[e] < k
          BY <3>3, <4>1
        <5> QED
          BY <3>1, <5>1
      <4> QED
        BY <3>2, <4>1
    <3>4. Solves(G[g], k + 1)
      BY <3>3
    <3>5. k + 1 \in 0 .. n
      BY <2>2
    <3> HIDE DEF Solves
    <3> QED
      BY <3>2, <3>4, <3>5
  <2>3. 0 .. n \subseteq T
    <3> HIDE DEF T
    <3> QED
      BY <2>1, <2>2, Induction
  <2>4. n \in T
    <3> HIDE DEF T
    <3> QED
      BY <2>3
  <2> HIDE DEF Solves
  <2> QED
    BY <2>4
<1>2. ASSUME NEW g \in [D -> V], NEW h \in [D -> V], NEW n \in Nat, Solves(g, n), Solves(h, n),
             NEW d \in D, rank[d] < n
      PROVE  g[d] = h[d]
  <2> DEFINE S == {e \in D : rank[e] < n => g[e] = h[e]}
  <2>1. ASSUME NEW e \in D, \A c \in D : rank[c] < rank[e] => c \in S PROVE e \in S
    <3>1. CASE rank[e] < n
      <4>1. \A c \in D : rank[c] < rank[e] => g[c] = h[c]
        BY <2>1, <3>1
      <4>2. G[g][e] = G[h][e]
        BY <4>1
      <4> QED
        BY <1>2, <3>1, <4>2
    <3>2. CASE ~(rank[e] < n)
      BY <3>2
    <3> QED
      BY <3>1, <3>2
  <2>2. D \subseteq S
    <3> HIDE DEF S
    <3> QED
      BY <2>1, RankInduction
  <2> QED
    BY <1>2, <2>2
<1> DEFINE best(d) == CHOOSE g \in [D -> V] : Solves(g, rank[d] + 1)
           f == [d \in D |-> best(d)[d]]
<1>3. ASSUME NEW d \in D PROVE best(d) \in [D -> V] /\ Solves(best(d), rank[d] + 1)
  <2>1. \E g \in [D -> V] : Solves(g, rank[d] + 1)
    <3> HIDE DEF Solves
    <3>1. rank[d] + 1 \in Nat
      OBVIOUS
    <3> QED
      BY <1>1, <3>1
  <2> HIDE DEF Solves
  <2> QED
    BY <2>1
<1>4. f \in [D -> V]
  <2> HIDE DEF best
  <2> QED
    BY <1>3
<1>5. ASSUME NEW d \in D PROVE f[d] = G[f][d]
  <2> DEFINE g == best(d)
  <2>1. ASSUME NEW e \in D, rank[e] < rank[d] + 1 PROVE f[e] = g[e]
    <3>1. Solves(g, rank[e] + 1)
      <4> HIDE DEF best
      <4>1. Solves(g, rank[d] + 1)
        BY <1>3
      <4>2. \A c \in D : rank[c] < rank[e] + 1 => rank[c] < rank[d] + 1
        BY <2>1
      <4> QED
        BY <4>1, <4>2
    <3>2. best(e) \in [D -> V] /\ Solves(best(e), rank[e] + 1) /\ g \in [D -> V]
      <4> HIDE DEF best, Solves
      <4> QED
        BY <1>3
    <3>3. rank[e] + 1 \in Nat /\ rank[e] < rank[e] + 1
      OBVIOUS
    <3>4. best(e)[e] = g[e]
      <4> HIDE DEF best, Solves, g
      <4> QED
        BY <1>2, <3>1, <3>2, <3>3
    <3> HIDE DEF best
    <3> QED
      BY <3>4
  <2>2. g \in [D -> V] /\ g[d] = G[g][d]
    <3> HIDE DEF best
    <3>1. rank[d] < rank[d] + 1
      OBVIOUS
    <3> QED
      BY <1>3, <3>1
  <2>3. \A e \in D : rank[e] < rank[d] => f[e] = g[e]
    <3> HIDE DEF f, g
    <3> QED
      BY <2>1
  <2>4. f[d] = g[d]
    <3> HIDE DEF f, g
    <3> QED
      BY <2>1
  <2> HIDE DEF f, g
  <2> QED
    BY <1>4, <2>2, <2>3, <2>4
<1>6. G[f] \in [D -> V]
  <2> HIDE DEF f
  <2> QED
    BY <1>4
<1>7. f = G[f]
  <2> HIDE DEF f
  <2> QED
    BY <1>4, <1>5, <1>6
<1> HIDE DEF f
<1> QED
  BY <1>4, <1>7

-------------------------------------------------------------------------------
(* Blocks and what is inside of them.                                      *)

\* The blocks inside of statements, sequences of them and blocks are blocks.
LEMMA InnerFacts ==
  /\ \A s \in Statements : Inner(s) \subseteq Blocks
  /\ \A ss \in Seq(Statements) : Elements(ss) \subseteq Statements /\ InnerBlocks(ss) \subseteq Blocks
  /\ \A ss \in Blocks : /\ ss \in Seq(Statements)
                        /\ Elements(ss) \subseteq Statements
                        /\ InnerBlocks(ss) \subseteq Blocks
                        /\ \A inner \in InnerBlocks(ss) : Nesting[inner] < Nesting[ss]
  /\ Nesting \in [Blocks -> Nat]
<1>1. \A s \in Statements : Inner(s) \subseteq Blocks
  BY BlocksAreNested
<1>2. \A ss \in Seq(Statements) : Elements(ss) \subseteq Statements
  BY DEF Elements
<1>3. \A ss \in Seq(Statements) : InnerBlocks(ss) \subseteq Blocks
  BY <1>1, <1>2 DEF InnerBlocks
<1>4. \A ss \in Blocks : /\ ss \in Seq(Statements)
                         /\ \A inner \in InnerBlocks(ss) : Nesting[inner] < Nesting[ss]
  BY BlocksAreNested
<1> QED
  BY <1>1, <1>2, <1>3, <1>4, BlocksAreNested

\* What holds of a block when it holds of those inside it holds of all blocks.
LEMMA StructuralInduction ==
  ASSUME NEW S, \A ss \in Blocks : InnerBlocks(ss) \subseteq S => ss \in S
  PROVE  Blocks \subseteq S
<1>1. ASSUME NEW ss \in Blocks, \A e \in Blocks : Nesting[e] < Nesting[ss] => e \in S
      PROVE  ss \in S
  BY <1>1, InnerFacts
<1>2. Nesting \in [Blocks -> Nat]
  BY InnerFacts
<1> QED
  BY <1>1, <1>2, RankInduction

\* Recursion, for functions on the blocks.
BlockRecursive(V, G) ==
  /\ V # {}
  /\ G \in [[Blocks -> V] -> [Blocks -> V]]
  /\ \A f, h \in [Blocks -> V] : \A ss \in Blocks :
       (\A inner \in InnerBlocks(ss) : f[inner] = h[inner]) => G[f][ss] = G[h][ss]

LEMMA BlockRecursion ==
  ASSUME NEW V, NEW G, BlockRecursive(V, G)
  PROVE  HasFixedPoint(Blocks, V, G)
<1>1. ASSUME NEW f \in [Blocks -> V], NEW h \in [Blocks -> V], NEW ss \in Blocks,
             \A e \in Blocks : Nesting[e] < Nesting[ss] => f[e] = h[e]
      PROVE  G[f][ss] = G[h][ss]
  <2>1. \A inner \in InnerBlocks(ss) : f[inner] = h[inner]
    BY <1>1, InnerFacts
  <2> QED
    BY <2>1 DEF BlockRecursive
<1>2. \A f, h \in [Blocks -> V] : \A ss \in Blocks :
         (\A e \in Blocks : Nesting[e] < Nesting[ss] => f[e] = h[e]) => G[f][ss] = G[h][ss]
  BY <1>1
<1>3. Recursive(Blocks, Nesting, V, G)
  <2>1. Nesting \in [Blocks -> Nat]
    BY InnerFacts
  <2>2. V # {} /\ G \in [[Blocks -> V] -> [Blocks -> V]]
    BY DEF BlockRecursive
  <2> QED
    BY <1>2, <2>1, <2>2 DEF Recursive
<1> QED
  BY <1>3, Recursion

\* The definition of BlocksIn.
LEMMA BlocksInDefined ==
  /\ BlocksIn \in [Blocks -> SUBSET Blocks]
  /\ \A ss \in Blocks :
       BlocksIn[ss] = {ss} \cup UNION {BlocksIn[inner] : inner \in InnerBlocks(ss)}
<1> DEFINE V == SUBSET Blocks
           step(f, ss) == {ss} \cup UNION {f[inner] : inner \in InnerBlocks(ss)}
           G == [f \in [Blocks -> V] |-> [ss \in Blocks |-> step(f, ss)]]
<1>1. ASSUME NEW f \in [Blocks -> V], NEW ss \in Blocks PROVE step(f, ss) \in V
  <2>1. \A inner \in InnerBlocks(ss) : f[inner] \in V
    BY InnerFacts
  <2> QED
    BY <2>1
<1>2. ASSUME NEW f, NEW h, NEW ss \in Blocks,
             \A inner \in InnerBlocks(ss) : f[inner] = h[inner]
      PROVE  step(f, ss) = step(h, ss)
  <2>1. {f[inner] : inner \in InnerBlocks(ss)} = {h[inner] : inner \in InnerBlocks(ss)}
    BY <1>2
  <2> QED
    BY <2>1
<1>3. \E f \in [Blocks -> V] : f = [ss \in Blocks |-> step(f, ss)]
  <2> HIDE DEF step
  <2>1. G \in [[Blocks -> V] -> [Blocks -> V]]
    <3> HIDE DEF V
    <3> QED
      BY <1>1
  <2>2. \A f, h \in [Blocks -> V] : \A ss \in Blocks :
           (\A inner \in InnerBlocks(ss) : f[inner] = h[inner]) => G[f][ss] = G[h][ss]
    <3> HIDE DEF V
    <3> QED
      BY <1>2
  <2>3. V # {}
    OBVIOUS
  <2>4. \E f \in [Blocks -> V] : f = G[f]
    <3> HIDE DEF G, V
    <3>1. BlockRecursive(V, G)
      BY <2>1, <2>2, <2>3 DEF BlockRecursive
    <3>2. HasFixedPoint(Blocks, V, G)
      BY <3>1, BlockRecursion
    <3> QED
      BY <3>2 DEF HasFixedPoint
  <2> HIDE DEF V
  <2> QED
    BY <2>4
<1>4. BlocksIn = CHOOSE f : f = [ss \in Blocks |-> step(f, ss)]
  BY DEF BlocksIn
<1>5. BlocksIn = [ss \in Blocks |-> step(BlocksIn, ss)]
  <2> HIDE DEF step
  <2> QED
    BY <1>3, <1>4
<1>6. BlocksIn \in [Blocks -> V]
  <2>1. PICK f \in [Blocks -> V] : f = [ss \in Blocks |-> step(f, ss)]
    BY <1>3
  <2> DEFINE S == {ss \in Blocks : f[ss] = BlocksIn[ss]}
  <2>2. ASSUME NEW ss \in Blocks, InnerBlocks(ss) \subseteq S PROVE ss \in S
    <3>1. step(f, ss) = step(BlocksIn, ss)
      <4> HIDE DEF step
      <4>1. \A inner \in InnerBlocks(ss) : f[inner] = BlocksIn[inner]
        BY <2>2
      <4> QED
        BY <1>2, <4>1
    <3> HIDE DEF step
    <3>2. f[ss] = step(f, ss)
      BY <2>1
    <3>3. BlocksIn[ss] = step(BlocksIn, ss)
      BY <1>5
    <3> QED
      BY <3>1, <3>2, <3>3
  <2>3. Blocks \subseteq S
    <3> HIDE DEF S
    <3> QED
      BY <2>2, StructuralInduction
  <2> HIDE DEF step, V
  <2> QED
    BY <1>5, <2>1, <2>3
<1>7. \A ss \in Blocks : BlocksIn[ss] = step(BlocksIn, ss)
  <2> HIDE DEF step
  <2> QED
    BY <1>5
<1> QED
  BY <1>6, <1>7

-------------------------------------------------------------------------------
(* The analysis.                                                           *)

Flows == {"Diverges", "Assigns", "FallsThrough"}

BlockFlow(flow, ss) ==
  [t \in Slots |-> Sequenced({StatementFlow(flow, s, t) : s \in Elements(ss)})]

\* The flow of a statement comes from those of the blocks directly inside it.
LEMMA StatementFlowLocal ==
  ASSUME NEW f, NEW h, NEW s, \A inner \in Inner(s) : f[inner] = h[inner], NEW t
  PROVE  StatementFlow(f, s, t) = StatementFlow(h, s, t)
<1>1. CASE s.k = "block"
  <2>1. s.body \in Inner(s)
    BY <1>1 DEF Inner
  <2> QED
    BY <1>1, <2>1 DEF StatementFlow
<1>2. CASE s.k \in {"if", "match"}
  <2>1. {f[inner][t] : inner \in Inner(s)} = {h[inner][t] : inner \in Inner(s)}
    OBVIOUS
  <2>2. /\ StatementFlow(f, s, t) = CombineBranches({f[inner][t] : inner \in Inner(s)})
        /\ StatementFlow(h, s, t) = CombineBranches({h[inner][t] : inner \in Inner(s)})
    BY <1>2 DEF StatementFlow
  <2> QED
    BY <2>1, <2>2
<1>3. CASE s.k \notin {"block", "if", "match"}
  BY <1>3 DEF StatementFlow
<1> QED
  BY <1>1, <1>2, <1>3

\* The definition of AnalyzeBlock.
LEMMA AnalyzeBlockDefined ==
  /\ AnalyzeBlock \in [Blocks -> [Slots -> Flows]]
  /\ \A ss \in Blocks : \A t \in Slots :
       AnalyzeBlock[ss][t] = Sequenced({AnalyzeStatement(s, t) : s \in Elements(ss)})
<1> DEFINE V == [Slots -> Flows]
           G == [f \in [Blocks -> V] |-> [ss \in Blocks |-> BlockFlow(f, ss)]]
<1>1. ASSUME NEW f \in [Blocks -> V], NEW ss \in Blocks PROVE BlockFlow(f, ss) \in V
  BY DEF BlockFlow, Sequenced, Flows
<1>2. ASSUME NEW f, NEW h, NEW ss \in Blocks,
             \A inner \in InnerBlocks(ss) : f[inner] = h[inner]
      PROVE  BlockFlow(f, ss) = BlockFlow(h, ss)
  <2>1. ASSUME NEW s \in Elements(ss), NEW t
        PROVE  StatementFlow(f, s, t) = StatementFlow(h, s, t)
    <3>1. \A inner \in Inner(s) : f[inner] = h[inner]
      BY <1>2 DEF InnerBlocks
    <3> QED
      BY <3>1, StatementFlowLocal
  <2>2. ASSUME NEW t \in Slots
        PROVE  {StatementFlow(f, s, t) : s \in Elements(ss)} = {StatementFlow(h, s, t) : s \in Elements(ss)}
    BY <2>1
  <2> QED
    BY <2>2 DEF BlockFlow
<1>3. \E f \in [Blocks -> V] : f = [ss \in Blocks |-> BlockFlow(f, ss)]
  <2>1. G \in [[Blocks -> V] -> [Blocks -> V]]
    <3> HIDE DEF V
    <3> QED
      BY <1>1
  <2>2. \A f, h \in [Blocks -> V] : \A ss \in Blocks :
           (\A inner \in InnerBlocks(ss) : f[inner] = h[inner]) => G[f][ss] = G[h][ss]
    <3> HIDE DEF V
    <3> QED
      BY <1>2
  <2>3. V # {}
    <3>1. [t \in Slots |-> "Assigns"] \in V
      BY DEF Flows
    <3> QED
      BY <3>1
  <2>4. \E f \in [Blocks -> V] : f = G[f]
    <3> HIDE DEF G, V
    <3>1. BlockRecursive(V, G)
      BY <2>1, <2>2, <2>3 DEF BlockRecursive
    <3>2. HasFixedPoint(Blocks, V, G)
      BY <3>1, BlockRecursion
    <3> QED
      BY <3>2 DEF HasFixedPoint
  <2> HIDE DEF V
  <2> QED
    BY <2>4
<1>4. AnalyzeBlock = CHOOSE f : f = [ss \in Blocks |-> BlockFlow(f, ss)]
  BY DEF AnalyzeBlock, BlockFlow
<1>5. AnalyzeBlock = [ss \in Blocks |-> BlockFlow(AnalyzeBlock, ss)]
  BY <1>3, <1>4
<1>6. AnalyzeBlock \in [Blocks -> V]
  <2>1. PICK f \in [Blocks -> V] : f = [ss \in Blocks |-> BlockFlow(f, ss)]
    BY <1>3
  <2> DEFINE S == {ss \in Blocks : f[ss] = AnalyzeBlock[ss]}
  <2>2. ASSUME NEW ss \in Blocks, InnerBlocks(ss) \subseteq S PROVE ss \in S
    <3>1. BlockFlow(f, ss) = BlockFlow(AnalyzeBlock, ss)
      <4>1. \A inner \in InnerBlocks(ss) : f[inner] = AnalyzeBlock[inner]
        BY <2>2
      <4> QED
        BY <1>2, <4>1
    <3>2. f[ss] = BlockFlow(f, ss)
      BY <2>1
    <3>3. AnalyzeBlock[ss] = BlockFlow(AnalyzeBlock, ss)
      BY <1>5
    <3> QED
      BY <3>1, <3>2, <3>3
  <2>3. Blocks \subseteq S
    <3> HIDE DEF S
    <3> QED
      BY <2>2, StructuralInduction
  <2> HIDE DEF V
  <2> QED
    BY <1>5, <2>1, <2>3
<1>7. ASSUME NEW ss \in Blocks, NEW t \in Slots
      PROVE  AnalyzeBlock[ss][t] = Sequenced({AnalyzeStatement(s, t) : s \in Elements(ss)})
  <2>1. AnalyzeBlock[ss] = BlockFlow(AnalyzeBlock, ss)
    BY <1>5
  <2>2. {AnalyzeStatement(s, t) : s \in Elements(ss)} = {StatementFlow(AnalyzeBlock, s, t) : s \in Elements(ss)}
    BY DEF AnalyzeStatement
  <2> QED
    BY <2>1, <2>2 DEF BlockFlow
<1> QED
  BY <1>6, <1>7

\* A block that does not fall through has a statement that does not, which it
\* stops at, and a block that falls through has none.
LEMMA BlockSettles ==
  ASSUME NEW ss \in Blocks, NEW t \in Slots
  PROVE  AnalyzeBlock[ss][t] # "FallsThrough"
           <=> \E s \in Elements(ss) : AnalyzeStatement(s, t) # "FallsThrough"
<1>1. ASSUME NEW s \in Statements PROVE AnalyzeStatement(s, t) \in Flows
  <2>1. \A inner \in Inner(s) : AnalyzeBlock[inner][t] \in Flows
    BY AnalyzeBlockDefined, InnerFacts
  <2>2. CASE s.k = "block"
    <3>1. s.body \in Inner(s)
      BY <2>2 DEF Inner
    <3> QED
      BY <2>1, <2>2, <3>1 DEF AnalyzeStatement, StatementFlow
  <2>3. CASE s.k \in {"if", "match"}
    BY <2>3 DEF AnalyzeStatement, StatementFlow, CombineBranches, Flows
  <2>4. CASE s.k \notin {"block", "if", "match"}
    BY <2>4 DEF AnalyzeStatement, StatementFlow, Flows
  <2> QED
    BY <2>2, <2>3, <2>4
<1> DEFINE flows == {AnalyzeStatement(s, t) : s \in Elements(ss)}
<1>2. flows \subseteq Flows
  BY <1>1, InnerFacts
<1>3. AnalyzeBlock[ss][t] = Sequenced(flows)
  BY AnalyzeBlockDefined
<1>4. Sequenced(flows) # "FallsThrough" <=> \E f \in flows : f # "FallsThrough"
  <2> HIDE DEF flows
  <2> QED
    BY <1>2 DEF Sequenced, Flows
<1> QED
  BY <1>3, <1>4

\* A statement that does not fall through is a jump, an assignment, or one in
\* which whatever block is executed next does not.
LEMMA StatementSettles ==
  ASSUME NEW s \in Statements, NEW t \in Slots, AnalyzeStatement(s, t) # "FallsThrough"
  PROVE  \/ s.k \in {"return", "break", "continue"}
         \/ s.k = "assign" /\ s.t = t
         \/ /\ s.k \in {"block", "if", "match"}
            /\ \A inner \in Inner(s) : AnalyzeBlock[inner][t] # "FallsThrough"
<1>1. CASE s.k = "block"
  BY <1>1 DEF AnalyzeStatement, StatementFlow, Inner
<1>2. CASE s.k \in {"if", "match"}
  <2> DEFINE flows == {AnalyzeBlock[inner][t] : inner \in Inner(s)}
  <2>1. AnalyzeStatement(s, t) = CombineBranches(flows)
    BY <1>2 DEF AnalyzeStatement, StatementFlow
  <2>2. "FallsThrough" \notin flows
    <3> HIDE DEF flows
    <3> QED
      BY <2>1 DEF CombineBranches
  <2> QED
    BY <1>2, <2>2
<1>3. CASE s.k \notin {"block", "if", "match"}
  BY <1>3 DEF AnalyzeStatement, StatementFlow
<1> QED
  BY <1>1, <1>2, <1>3

-------------------------------------------------------------------------------
(* What is left of a block after a statement, and what is inside of one.   *)

\* The first element of a sequence, and the others.
LEMMA TailFacts ==
  ASSUME NEW ss \in Seq(Statements), ss # <<>>
  PROVE  /\ Tail(ss) \in Seq(Statements)
         /\ Len(ss) \in Nat /\ Len(ss) >= 1 /\ Len(Tail(ss)) = Len(ss) - 1
         /\ DOMAIN ss = 1 .. Len(ss) /\ DOMAIN Tail(ss) = 1 .. Len(ss) - 1
         /\ \A i \in 1 .. Len(ss) - 1 : Tail(ss)[i] = ss[i + 1]
         /\ ss[1] \in Statements
         /\ Elements(ss) = {ss[1]} \cup Elements(Tail(ss))
<1>1. /\ Tail(ss) \in Seq(Statements)
      /\ Len(ss) \in Nat /\ Len(ss) >= 1 /\ Len(Tail(ss)) = Len(ss) - 1
      /\ DOMAIN ss = 1 .. Len(ss) /\ DOMAIN Tail(ss) = 1 .. Len(ss) - 1
      /\ \A i \in 1 .. Len(ss) - 1 : Tail(ss)[i] = ss[i + 1]
      /\ ss[1] \in Statements
  OBVIOUS
<1>2. Elements(ss) \subseteq {ss[1]} \cup Elements(Tail(ss))
  <2>1. ASSUME NEW i \in 1 .. Len(ss) PROVE ss[i] \in {ss[1]} \cup Elements(Tail(ss))
    <3>1. CASE i = 1
      BY <3>1
    <3>2. CASE i # 1
      <4>1. i - 1 \in 1 .. Len(ss) - 1 /\ i = (i - 1) + 1
        BY <3>2, <1>1
      <4>2. ss[i] = Tail(ss)[i - 1]
        BY <1>1, <4>1
      <4> QED
        BY <1>1, <4>1, <4>2 DEF Elements
    <3> QED
      BY <3>1, <3>2
  <2> QED
    BY <1>1, <2>1 DEF Elements
<1>3. {ss[1]} \cup Elements(Tail(ss)) \subseteq Elements(ss)
  <2>1. 1 \in DOMAIN ss
    BY <1>1
  <2>2. \A i \in 1 .. Len(ss) - 1 : i + 1 \in DOMAIN ss
    BY <1>1
  <2>3. ASSUME NEW i \in 1 .. Len(ss) - 1 PROVE Tail(ss)[i] \in Elements(ss)
    <3>1. Tail(ss)[i] = ss[i + 1]
      BY <1>1
    <3> QED
      BY <2>2, <3>1 DEF Elements
  <2> QED
    BY <1>1, <2>1, <2>3 DEF Elements
<1> QED
  BY <1>1, <1>2, <1>3

\* What is after a statement of the tail is after the next one of the whole.
LEMMA AfterFacts ==
  ASSUME NEW ss \in Seq(Statements), ss # <<>>
  PROVE  /\ After(ss, 1) = Tail(ss)
         /\ \A i \in DOMAIN Tail(ss) : After(Tail(ss), i) = After(ss, i + 1)
<1> DEFINE n == Len(ss)
<1>1. n \in Nat /\ n >= 1 /\ Len(Tail(ss)) = n - 1 /\ DOMAIN Tail(ss) = 1 .. n - 1
  BY TailFacts
<1>2. After(ss, 1) = Tail(ss)
  BY TailIsSubSeq DEF After
<1>3. ASSUME NEW i \in DOMAIN Tail(ss) PROVE After(Tail(ss), i) = After(ss, i + 1)
  <2> DEFINE p == After(Tail(ss), i)
             q == After(ss, i + 1)
             m == n - (i + 1)
  <2>1. i \in 1 .. n - 1 /\ m \in Nat
    BY <1>1
  <2>2. /\ p \in Seq(Statements) /\ Len(p) = m
        /\ \A j \in 1 .. m : p[j] = Tail(ss)[i + j]
    <3> DEFINE r == Tail(ss)
    <3>1. \A j \in i + 1 .. n - 1 : r[j] \in Statements
      BY <1>1, <2>1, TailFacts
    <3>2. i + 1 \in Int /\ n - 1 \in Int
      BY <1>1, <2>1
    <3>3. p = SubSeq(r, i + 1, n - 1)
      BY <1>1 DEF After
    <3> HIDE DEF p, n, r
    <3>4. /\ p \in Seq(Statements)
          /\ Len(p) = IF i + 1 <= n - 1 THEN (n - 1) - (i + 1) + 1 ELSE 0
          /\ \A j \in 1 .. (n - 1) - (i + 1) + 1 : p[j] = r[(i + 1) + j - 1]
      BY <3>1, <3>2, <3>3, SubSeqProperties
    <3>5. (n - 1) - (i + 1) + 1 = m /\ (i + 1 <= n - 1 <=> m # 0)
      BY <1>1, <2>1
    <3>6. \A j \in 1 .. m : (i + 1) + j - 1 = i + j
      BY <2>1
    <3> HIDE DEF m
    <3>7. /\ p \in Seq(Statements) /\ Len(p) = m
          /\ \A j \in 1 .. m : p[j] = r[i + j]
      BY <3>4, <3>5, <3>6
    <3> QED
      BY <3>7 DEF r
  <2>3. /\ q \in Seq(Statements) /\ Len(q) = m
        /\ \A j \in 1 .. m : q[j] = ss[i + 1 + j]
    <3>1. \A j \in i + 2 .. n : ss[j] \in Statements
      <4>1. \A j \in i + 2 .. n : j \in 1 .. n
        BY <1>1, <2>1
      <4> QED
        BY <4>1
    <3>2. i + 2 \in Int /\ n \in Int /\ (i + 1) + 1 = i + 2
      BY <1>1, <2>1
    <3>3. q = SubSeq(ss, i + 2, n)
      BY <3>2 DEF After
    <3> HIDE DEF q, n
    <3>4. /\ q \in Seq(Statements)
          /\ Len(q) = IF i + 2 <= n THEN n - (i + 2) + 1 ELSE 0
          /\ \A j \in 1 .. n - (i + 2) + 1 : q[j] = ss[(i + 2) + j - 1]
      BY <3>1, <3>2, <3>3, SubSeqProperties
    <3>5. n - (i + 2) + 1 = m /\ (i + 2 <= n <=> m # 0)
      BY <1>1, <2>1
    <3>6. \A j \in 1 .. m : (i + 2) + j - 1 = i + 1 + j
      BY <2>1
    <3> HIDE DEF m
    <3> QED
      BY <3>4, <3>5, <3>6
  <2>4. \A j \in 1 .. m : Tail(ss)[i + j] = ss[i + 1 + j]
    <3>1. \A j \in 1 .. m : i + j \in 1 .. n - 1 /\ (i + j) + 1 = i + 1 + j
      <4> HIDE DEF n
      <4> QED
        BY <1>1, <2>1
    <3> QED
      BY <3>1, TailFacts
  <2> HIDE DEF p, q, m
  <2>5. p = q
    BY <2>2, <2>3, <2>4, SeqEqual
  <2> QED
    BY <2>5 DEF p, q
<1> QED
  BY <1>2, <1>3

\* The blocks in a block inside a statement are among those of the statement.
LEMMA WithinFacts ==
  ASSUME NEW s \in Statements, NEW inner \in Inner(s)
  PROVE  /\ inner \in Blocks
         /\ BlocksOf(inner) = BlocksIn[inner]
         /\ \A w \in Elements(inner) : w \in Statements /\ Within(w) \subseteq Within(s)
<1>1. inner \in Blocks /\ inner \in BlocksIn[inner]
  BY InnerFacts, BlocksInDefined
<1>2. BlocksOf(inner) = BlocksIn[inner]
  BY <1>1, BlocksInDefined DEF BlocksOf
<1>3. ASSUME NEW w \in Elements(inner) PROVE w \in Statements /\ Within(w) \subseteq Within(s)
  <2>1. w \in Statements
    BY <1>1, InnerFacts
  <2>2. w \in Within(s)
    BY <1>1 DEF Within
  <2>3. ASSUME NEW b \in Inner(w) PROVE BlocksIn[b] \subseteq BlocksIn[inner]
    <3>1. b \in InnerBlocks(inner)
      BY DEF InnerBlocks
    <3> QED
      BY <1>1, <3>1, BlocksInDefined
  <2>4. ASSUME NEW x \in Within(w) PROVE x \in Within(s)
    <3>1. CASE x = w
      BY <2>2, <3>1
    <3>2. CASE x # w
      <4>1. PICK b \in Inner(w) : \E c \in BlocksIn[b] : x \in Elements(c)
        BY <3>2 DEF Within
      <4>2. \E c \in BlocksIn[inner] : x \in Elements(c)
        BY <2>3, <4>1
      <4> QED
        BY <4>2 DEF Within
    <3> QED
      BY <3>1, <3>2
  <2> QED
    BY <2>1, <2>4
<1> QED
  BY <1>1, <1>2, <1>3

\* What was read, declared, checked or settled in a sequence of statements is
\* so in its first statement or in what is left after it.
LEMMA RestFacts ==
  ASSUME NEW ss \in Seq(Statements), ss # <<>>
  PROVE  /\ ReadIn(Tail(ss)) \subseteq ReadIn(ss)
         /\ ReadInStatement(ss[1]) \subseteq ReadIn(ss)
         /\ DeclaredWithin(Tail(ss)) \subseteq DeclaredWithin(ss)
         /\ DeclaredIn(ss[1]) \subseteq DeclaredWithin(ss)
         /\ \A t : Settles(ss, t) =>
              AnalyzeStatement(ss[1], t) # "FallsThrough" \/ Settles(Tail(ss), t)
<1>1. Elements(ss) = {ss[1]} \cup Elements(Tail(ss))
  BY TailFacts
<1> QED
  BY <1>1 DEF ReadIn, DeclaredWithin, Settles

LEMMA RestUnshadowed ==
  ASSUME NEW ss \in Seq(Statements), ss # <<>>, Unshadowed(ss)
  PROVE  /\ Unshadowed(Tail(ss))
         /\ ss[1].k = "decl" => ss[1].t \notin DeclaredWithin(Tail(ss))
<1> DEFINE n == Len(ss) - 1
<1>1. /\ n \in Nat /\ DOMAIN ss = 1 .. n + 1 /\ DOMAIN Tail(ss) = 1 .. n
      /\ \A i \in 1 .. n : Tail(ss)[i] = ss[i + 1]
  BY TailFacts
<1> HIDE DEF n
<1>2. ASSUME NEW i \in 1 .. n, NEW j \in 1 .. n, Tail(ss)[i].k = "decl", i < j
      PROVE  Tail(ss)[i].t \notin DeclaredIn(Tail(ss)[j])
  <2>1. i + 1 \in DOMAIN ss /\ j + 1 \in DOMAIN ss /\ i + 1 < j + 1
    BY <1>1, <1>2
  <2>2. Tail(ss)[i] = ss[i + 1] /\ Tail(ss)[j] = ss[j + 1]
    BY <1>1
  <2> QED
    BY <1>2, <2>1, <2>2 DEF Unshadowed
<1>3. ASSUME ss[1].k = "decl", NEW j \in 1 .. n PROVE ss[1].t \notin DeclaredIn(Tail(ss)[j])
  <2>1. 1 \in DOMAIN ss /\ j + 1 \in DOMAIN ss /\ 1 < j + 1
    BY <1>1
  <2>2. Tail(ss)[j] = ss[j + 1]
    BY <1>1
  <2> QED
    BY <1>3, <2>1, <2>2 DEF Unshadowed
<1> QED
  BY <1>1, <1>2, <1>3 DEF Unshadowed, DeclaredWithin, Elements

\* What is not read too early in ss is not read by its first statement, and
\* not too early in what is left if that statement falls through.
LEMMA RestReads ==
  ASSUME NEW ss \in Seq(Statements), ss # <<>>, NEW t, ~ReadBeforeAssignment(ss, t)
  PROVE  /\ t \notin ReadInStatement(ss[1])
         /\ AnalyzeStatement(ss[1], t) = "FallsThrough" => ~ReadBeforeAssignment(Tail(ss), t)
<1> DEFINE n == Len(ss) - 1
<1>1. /\ n \in Nat /\ DOMAIN ss = 1 .. n + 1 /\ DOMAIN Tail(ss) = 1 .. n
      /\ \A i \in 1 .. n : Tail(ss)[i] = ss[i + 1]
  BY TailFacts
<1> HIDE DEF n
<1>2. t \notin ReadInStatement(ss[1])
  <2>1. 1 \in DOMAIN ss /\ 1 .. 1 - 1 = {}
    BY <1>1
  <2> QED
    BY <2>1 DEF ReadBeforeAssignment
<1>3. ASSUME AnalyzeStatement(ss[1], t) = "FallsThrough", ReadBeforeAssignment(Tail(ss), t)
      PROVE  FALSE
  <2>1. PICK j \in 1 .. n : /\ t \in ReadInStatement(Tail(ss)[j])
                            /\ \A i \in 1 .. j - 1 : AnalyzeStatement(Tail(ss)[i], t) = "FallsThrough"
    BY <1>1, <1>3 DEF ReadBeforeAssignment
  <2>2. j + 1 \in DOMAIN ss /\ Tail(ss)[j] = ss[j + 1]
    BY <1>1
  <2>3. ASSUME NEW i \in 1 .. (j + 1) - 1 PROVE AnalyzeStatement(ss[i], t) = "FallsThrough"
    <3>1. CASE i = 1
      BY <1>3, <3>1
    <3>2. CASE i # 1
      <4>1. i - 1 \in 1 .. j - 1 /\ i - 1 \in 1 .. n /\ (i - 1) + 1 = i
        BY <1>1, <3>2
      <4>2. Tail(ss)[i - 1] = ss[i]
        BY <1>1, <4>1
      <4> QED
        BY <2>1, <4>1, <4>2
    <3> QED
      BY <3>1, <3>2
  <2> QED
    BY <2>1, <2>2, <2>3 DEF ReadBeforeAssignment
<1> QED
  BY <1>2, <1>3

LEMMA RestChecked ==
  ASSUME NEW ss \in Seq(Statements), ss # <<>>, CheckDefiniteAssignment(ss)
  PROVE  /\ CheckDefiniteAssignment(Tail(ss))
         /\ ss[1].k = "decl" => ~ReadBeforeAssignment(Tail(ss), ss[1].t)
<1> DEFINE n == Len(ss) - 1
<1>1. /\ n \in Nat /\ DOMAIN ss = 1 .. n + 1 /\ DOMAIN Tail(ss) = 1 .. n
      /\ \A i \in 1 .. n : Tail(ss)[i] = ss[i + 1]
      /\ Elements(ss) = {ss[1]} \cup Elements(Tail(ss))
  BY TailFacts
<1> HIDE DEF n
<1>2. DeclarationsAssigned(ss)
  BY DEF CheckDefiniteAssignment, BlocksOf
<1>3. ASSUME NEW i \in 1 .. n, Tail(ss)[i].k = "decl"
      PROVE  ~ReadBeforeAssignment(After(Tail(ss), i), Tail(ss)[i].t)
  <2>1. i + 1 \in DOMAIN ss /\ Tail(ss)[i] = ss[i + 1] /\ i \in DOMAIN Tail(ss)
    BY <1>1
  <2>2. After(Tail(ss), i) = After(ss, i + 1)
    BY <2>1, AfterFacts
  <2> QED
    BY <1>2, <1>3, <2>1, <2>2 DEF DeclarationsAssigned
<1>4. DeclarationsAssigned(Tail(ss))
  BY <1>1, <1>3 DEF DeclarationsAssigned
<1>5. InnerBlocks(Tail(ss)) \subseteq InnerBlocks(ss)
  BY <1>1 DEF InnerBlocks
<1>6. ss[1].k = "decl" => ~ReadBeforeAssignment(Tail(ss), ss[1].t)
  <2>1. 1 \in DOMAIN ss /\ After(ss, 1) = Tail(ss)
    BY <1>1, AfterFacts
  <2> QED
    BY <1>2, <2>1 DEF DeclarationsAssigned
<1> QED
  BY <1>4, <1>5, <1>6 DEF CheckDefiniteAssignment, BlocksOf

\* What is read or declared in a block inside a statement is so in the
\* statement, and the block is checked with the block of the statement.
LEMMA NestedFacts ==
  ASSUME NEW ss \in Seq(Statements), NEW s \in Elements(ss), NEW inner \in Inner(s)
  PROVE  /\ inner \in Blocks
         /\ ReadIn(inner) \subseteq ReadInStatement(s)
         /\ DeclaredWithin(inner) \subseteq DeclaredIn(s)
         /\ CheckDefiniteAssignment(ss) => CheckDefiniteAssignment(inner)
<1>1. s \in Statements
  BY InnerFacts
<1>2. /\ inner \in Blocks
      /\ BlocksOf(inner) = BlocksIn[inner]
      /\ \A w \in Elements(inner) : w \in Statements /\ Within(w) \subseteq Within(s)
  BY <1>1, WithinFacts
<1>3. ReadIn(inner) \subseteq ReadInStatement(s)
  BY <1>2 DEF ReadIn, ReadInStatement
<1>4. DeclaredWithin(inner) \subseteq DeclaredIn(s)
  BY <1>2 DEF DeclaredWithin, DeclaredIn
<1>5. BlocksIn[inner] \subseteq BlocksOf(ss)
  BY DEF BlocksOf, InnerBlocks
<1> QED
  BY <1>2, <1>3, <1>4, <1>5 DEF CheckDefiniteAssignment

\* A statement that assigns, diverges or does so whatever block it executes
\* next settles.
LEMMA NestedSettles ==
  ASSUME NEW s \in Statements, s.k \notin {"return", "break", "continue", "assign"},
         NEW t \in Slots, AnalyzeStatement(s, t) # "FallsThrough"
  PROVE  /\ s.k \notin {"while", "for"}
         /\ \A inner \in Inner(s) : Settles(inner, t)
<1>1. /\ s.k \in {"block", "if", "match"}
      /\ \A inner \in Inner(s) : AnalyzeBlock[inner][t] # "FallsThrough"
  BY StatementSettles
<1>2. \A inner \in Inner(s) : inner \in Blocks
  BY InnerFacts
<1> QED
  BY <1>1, <1>2, BlockSettles DEF Settles

-------------------------------------------------------------------------------
(* Steps on sequences of frames.                                           *)

\* The innermost frame of fs, a block, goes on to its next statement in gs:
\* the variables D are declared, others may get a value.
Moved(fs, gs, D) ==
  /\ fs # <<>>
  /\ ~fs[Len(fs)].loop
  /\ fs[Len(fs)].ss # <<>>
  /\ Len(gs) = Len(fs)
  /\ \A i \in 1 .. Len(fs) :
       /\ gs[i].loop <=> fs[i].loop
       /\ i < Len(fs) => /\ gs[i].ss = fs[i].ss
                         /\ gs[i].declared = fs[i].declared
                         /\ gs[i].unset \subseteq fs[i].unset
       /\ i = Len(fs) => /\ gs[i].ss = Tail(fs[i].ss)
                         /\ gs[i].declared = fs[i].declared \cup D
                         /\ gs[i].unset \subseteq fs[i].unset \cup D

\* The parts of a frame, and how many frames there are.
LEMMA FrameFacts ==
  ASSUME NEW fs \in Seq(Frames)
  PROVE  /\ Len(fs) \in Nat /\ DOMAIN fs = 1 .. Len(fs)
         /\ fs # <<>> => Len(fs) \in 1 .. Len(fs)
         /\ \A i \in 1 .. Len(fs) : /\ fs[i] \in Frames
                                    /\ fs[i].ss \in Seq(Statements)
                                    /\ fs[i].declared \subseteq Slots
                                    /\ fs[i].unset \subseteq Slots
<1>1. Len(fs) \in Nat /\ DOMAIN fs = 1 .. Len(fs)
  OBVIOUS
<1>2. fs # <<>> => Len(fs) \in 1 .. Len(fs)
  <2>1. fs # <<>> => Len(fs) # 0
    OBVIOUS
  <2> QED
    BY <1>1, <2>1
<1>3. \A i \in 1 .. Len(fs) : fs[i] \in Frames
  OBVIOUS
<1>4. \A f \in Frames : f.ss \in Seq(Statements) /\ f.declared \subseteq Slots /\ f.unset \subseteq Slots
  BY DEF Frames
<1> QED
  BY <1>1, <1>2, <1>3, <1>4

LEMMA MovedWellFormed ==
  ASSUME NEW fs \in Seq(Frames), NEW gs \in Seq(Frames), NEW D, Moved(fs, gs, D), WellFormed(fs),
         D \subseteq DeclaredIn(fs[Len(fs)].ss[1]),
         D \cap DeclaredWithin(Tail(fs[Len(fs)].ss)) = {}
  PROVE  WellFormed(gs)
<1> DEFINE n == Len(fs)
           ss == fs[n].ss
<1>1. /\ n \in Nat /\ DOMAIN fs = 1 .. n /\ DOMAIN gs = 1 .. n /\ Len(gs) = n
      /\ n \in 1 .. n
      /\ ss \in Seq(Statements) /\ ss # <<>>
  BY FrameFacts DEF Moved
<1>2. \A i \in 1 .. n : /\ Checked(fs[i])
                        /\ \A j \in i .. n : fs[i].declared \cap DeclaredWithin(fs[j].ss) = {}
                        /\ \A j \in i + 1 .. n : fs[i].declared \cap fs[j].declared = {}
  BY <1>1 DEF WellFormed
<1>3. /\ \A i \in 1 .. n :
           /\ gs[i].loop <=> fs[i].loop
           /\ i # n => /\ gs[i].ss = fs[i].ss
                       /\ gs[i].declared = fs[i].declared
                       /\ gs[i].unset \subseteq fs[i].unset
      /\ ~gs[n].loop
      /\ gs[n].ss = Tail(ss)
      /\ gs[n].declared = fs[n].declared \cup D
      /\ gs[n].unset \subseteq fs[n].unset \cup D
  <2>1. \A i \in 1 .. n : i # n => i < n
    <3> HIDE DEF n
    <3> QED
      BY <1>1
  <2> QED
    BY <1>1, <2>1 DEF Moved
<1>4. /\ D \subseteq DeclaredWithin(ss)
      /\ D \cap DeclaredWithin(Tail(ss)) = {}
      /\ \A i \in 1 .. n : DeclaredWithin(gs[i].ss) \subseteq DeclaredWithin(fs[i].ss)
  BY <1>1, <1>3, RestFacts
<1> HIDE DEF n, ss
<1>5. ASSUME NEW i \in 1 .. n PROVE Checked(gs[i])
  <2>1. CASE i # n
    <3>1. Checked(fs[i])
      BY <1>2
    <3> QED
      BY <1>3, <2>1, <3>1 DEF Checked
  <2>2. CASE i = n
    <3>1. Checked(fs[n]) /\ fs[n].ss = ss
      BY <1>1, <1>2 DEF ss
    <3>2. CheckDefiniteAssignment(Tail(ss)) /\ Unshadowed(Tail(ss))
      BY <1>1, <3>1, RestChecked, RestUnshadowed DEF Checked
    <3> QED
      BY <1>3, <2>2, <3>1, <3>2 DEF Checked
  <2> QED
    BY <2>1, <2>2
<1>6. ASSUME NEW i \in 1 .. n, NEW j \in i .. n
      PROVE  gs[i].declared \cap DeclaredWithin(gs[j].ss) = {}
  <2>1. j \in 1 .. n
    BY <1>1
  <2>2. fs[i].declared \cap DeclaredWithin(gs[j].ss) = {}
    BY <1>2, <1>4, <2>1
  <2>3. CASE i = n
    <3>1. j = n
      BY <1>1, <2>3
    <3> QED
      BY <1>3, <1>4, <2>2, <2>3, <3>1
  <2> QED
    BY <1>3, <2>2, <2>3
<1>7. ASSUME NEW i \in 1 .. n, NEW j \in i + 1 .. n
      PROVE  gs[i].declared \cap gs[j].declared = {}
  <2>1. j \in 1 .. n /\ i # n /\ n \in i .. n
    BY <1>1
  <2>2. fs[i].declared \cap fs[j].declared = {}
    BY <1>2
  <2>3. fs[i].declared \cap DeclaredWithin(fs[n].ss) = {}
    BY <1>2, <2>1
  <2>4. CASE j = n
    BY <1>3, <1>4, <2>1, <2>2, <2>3, <2>4 DEF ss
  <2> QED
    BY <1>3, <2>1, <2>2, <2>4
<1> QED
  BY <1>1, <1>5, <1>6, <1>7 DEF WellFormed

LEMMA MovedPending ==
  ASSUME NEW fs \in Seq(Frames), NEW gs \in Seq(Frames), NEW D, Moved(fs, gs, D), Pending(fs),
         NEW i \in DOMAIN fs, NEW t \in gs[i].unset,
         AnalyzeStatement(fs[Len(fs)].ss[1], t) = "FallsThrough",
         t \in D => ~ReadBeforeAssignment(Tail(fs[Len(fs)].ss), t)
  PROVE  PendingIn(gs, i, t)
<1> DEFINE n == Len(fs)
           ss == fs[n].ss
<1>1. /\ n \in Nat /\ DOMAIN fs = 1 .. n /\ DOMAIN gs = 1 .. n /\ Len(gs) = n
      /\ n \in 1 .. n
      /\ ss \in Seq(Statements) /\ ss # <<>>
  BY FrameFacts DEF Moved
<1>2. /\ \A k \in 1 .. n :
           /\ gs[k].loop <=> fs[k].loop
           /\ k # n => gs[k].ss = fs[k].ss /\ gs[k].unset \subseteq fs[k].unset
      /\ gs[n].ss = Tail(ss)
      /\ gs[n].unset \subseteq fs[n].unset \cup D
  <2>1. \A k \in 1 .. n : k # n => k < n
    <3> HIDE DEF n
    <3> QED
      BY <1>1
  <2> QED
    BY <1>1, <2>1 DEF Moved
<1>3. \A k \in 1 .. n : ReadIn(gs[k].ss) \subseteq ReadIn(fs[k].ss)
  BY <1>1, <1>2, RestFacts
<1>4. t \in fs[i].unset =>
         /\ \A k \in i + 1 .. n : t \notin ReadIn(fs[k].ss)
         /\ ~ReadBeforeAssignment(fs[i].ss, t) \/ WillSettle(fs, i, t)
  BY <1>1 DEF Pending, PendingIn
<1>5. /\ t \in D => ~ReadBeforeAssignment(Tail(ss), t)
      /\ AnalyzeStatement(ss[1], t) = "FallsThrough"
      /\ fs[n].ss = ss
  BY <1>1
<1> HIDE DEF n, ss
<1>6. CASE i = n
  <2>1. n + 1 .. n = {}
    BY <1>1
  <2>2. CASE t \notin D
    <3>1. ~WillSettle(fs, n, t)
      BY <2>1 DEF WillSettle, n
    <3>2. ~ReadBeforeAssignment(ss, t)
      BY <1>2, <1>4, <1>5, <1>6, <2>2, <3>1
    <3> QED
      BY <1>1, <1>2, <1>5, <1>6, <2>1, <3>2, RestReads DEF PendingIn
  <2> QED
    BY <1>1, <1>2, <1>5, <1>6, <2>1, <2>2 DEF PendingIn
<1>7. CASE i # n
  <2>1. t \in fs[i].unset /\ gs[i].ss = fs[i].ss
    BY <1>1, <1>2, <1>7
  <2>2. \A k \in i + 1 .. n : k \in 1 .. n
    BY <1>1
  <2>3. \A k \in i + 1 .. n : t \notin ReadIn(gs[k].ss)
    BY <1>3, <1>4, <2>1, <2>2
  <2>4. ASSUME WillSettle(fs, i, t) PROVE WillSettle(gs, i, t)
    <3>1. PICK k \in i + 1 .. n : /\ \A j \in i + 1 .. k : ~fs[j].loop
                                  /\ Settles(fs[k].ss, t)
      BY <2>4 DEF WillSettle, n
    <3>2. \A j \in i + 1 .. k : j \in 1 .. n
      BY <1>1
    <3>3. \A j \in i + 1 .. k : ~gs[j].loop
      BY <1>2, <3>1, <3>2
    <3>4. Settles(gs[k].ss, t)
      <4>1. CASE k = n
        BY <1>1, <1>2, <1>5, <3>1, <4>1, RestFacts
      <4>2. CASE k # n
        BY <1>2, <2>2, <3>1, <4>2
      <4> QED
        BY <4>1, <4>2
    <3> QED
      BY <1>1, <3>3, <3>4 DEF WillSettle
  <2> QED
    BY <1>1, <1>4, <2>1, <2>3, <2>4 DEF PendingIn
<1> QED
  BY <1>6, <1>7


\* The frames of Append(fs, F).
LEMMA PushFacts ==
  ASSUME NEW fs \in Seq(Frames), NEW F \in Frames
  PROVE  /\ Append(fs, F) \in Seq(Frames)
         /\ Len(Append(fs, F)) = Len(fs) + 1
         /\ DOMAIN Append(fs, F) = 1 .. Len(fs) + 1
         /\ \A i \in 1 .. Len(fs) : Append(fs, F)[i] = fs[i]
         /\ Append(fs, F)[Len(fs) + 1] = F
OBVIOUS

LEMMA PushWellFormed ==
  ASSUME NEW fs \in Seq(Frames), WellFormed(fs), NEW F \in Frames, Checked(F), F.declared = {},
         \A i \in DOMAIN fs : fs[i].declared \cap DeclaredWithin(F.ss) = {}
  PROVE  WellFormed(Append(fs, F))
<1> DEFINE n == Len(fs)
           hs == Append(fs, F)
<1>1. /\ n \in Nat /\ DOMAIN fs = 1 .. n /\ DOMAIN hs = 1 .. n + 1 /\ Len(hs) = n + 1
      /\ \A i \in 1 .. n : hs[i] = fs[i]
      /\ hs[n + 1] = F
  BY FrameFacts, PushFacts
<1>2. \A i \in 1 .. n : /\ Checked(fs[i])
                        /\ \A j \in i .. n : fs[i].declared \cap DeclaredWithin(fs[j].ss) = {}
                        /\ \A j \in i + 1 .. n : fs[i].declared \cap fs[j].declared = {}
                        /\ fs[i].declared \cap DeclaredWithin(F.ss) = {}
  BY <1>1 DEF WellFormed
<1> HIDE DEF n, hs
<1>3. \A i \in 1 .. n + 1 : i # n + 1 => i \in 1 .. n
  BY <1>1
<1>4. ASSUME NEW i \in 1 .. n + 1 PROVE Checked(hs[i])
  BY <1>1, <1>2, <1>3
<1>5. ASSUME NEW i \in 1 .. n + 1, NEW j \in i .. n + 1
      PROVE  hs[i].declared \cap DeclaredWithin(hs[j].ss) = {}
  <2>1. CASE i = n + 1
    BY <1>1, <2>1
  <2>2. CASE i # n + 1
    <3>1. j \in 1 .. n + 1 /\ (j # n + 1 => j \in i .. n)
      BY <1>1
    <3> QED
      BY <1>1, <1>2, <1>3, <2>2, <3>1
  <2> QED
    BY <2>1, <2>2
<1>6. ASSUME NEW i \in 1 .. n + 1, NEW j \in i + 1 .. n + 1
      PROVE  hs[i].declared \cap hs[j].declared = {}
  <2>1. CASE j = n + 1
    BY <1>1, <2>1
  <2>2. CASE j # n + 1
    <3>1. i \in 1 .. n /\ j \in i + 1 .. n /\ j \in 1 .. n
      BY <1>1, <2>2
    <3> QED
      BY <1>1, <1>2, <3>1
  <2> QED
    BY <2>1, <2>2
<1>7. WellFormed(hs)
  BY <1>1, <1>4, <1>5, <1>6 DEF WellFormed
<1> QED
  BY <1>7 DEF hs

\* A variable stays pending when a frame that does not read it is pushed.
LEMMA PushPending ==
  ASSUME NEW fs \in Seq(Frames), NEW F \in Frames, NEW i \in DOMAIN fs, NEW t,
         PendingIn(fs, i, t), t \notin ReadIn(F.ss)
  PROVE  PendingIn(Append(fs, F), i, t)
<1> DEFINE n == Len(fs)
           hs == Append(fs, F)
<1>1. /\ n \in Nat /\ DOMAIN fs = 1 .. n /\ Len(hs) = n + 1
      /\ \A k \in 1 .. n : hs[k] = fs[k]
      /\ hs[n + 1] = F
  BY FrameFacts, PushFacts
<1> HIDE DEF hs
<1>2. /\ \A k \in i + 1 .. n : t \notin ReadIn(fs[k].ss)
      /\ ~ReadBeforeAssignment(fs[i].ss, t) \/ WillSettle(fs, i, t)
  BY DEF PendingIn
<1> HIDE DEF n
<1>3. ASSUME NEW k \in i + 1 .. n + 1 PROVE t \notin ReadIn(hs[k].ss)
  <2>1. k # n + 1 => k \in i + 1 .. n /\ k \in 1 .. n
    BY <1>1
  <2> QED
    BY <1>1, <1>2, <2>1
<1>4. ASSUME WillSettle(fs, i, t) PROVE WillSettle(hs, i, t)
  <2>1. PICK k \in i + 1 .. n : /\ \A j \in i + 1 .. k : ~fs[j].loop
                                /\ Settles(fs[k].ss, t)
    BY <1>4 DEF WillSettle, n
  <2>2. k \in i + 1 .. n + 1 /\ k \in 1 .. n /\ \A j \in i + 1 .. k : j \in 1 .. n
    BY <1>1
  <2> QED
    BY <1>1, <2>1, <2>2 DEF WillSettle
<1>5. PendingIn(hs, i, t)
  BY <1>1, <1>2, <1>3, <1>4 DEF PendingIn
<1> QED
  BY <1>5 DEF hs

\* A statement that does not fall through executes a block that does not.
LEMMA EnterPending ==
  ASSUME NEW fs \in Seq(Frames), NEW gs \in Seq(Frames), Moved(fs, gs, {}), Pending(fs),
         NEW F \in Frames, ~F.loop,
         ReadIn(F.ss) \subseteq ReadInStatement(fs[Len(fs)].ss[1]),
         NEW i \in DOMAIN fs, NEW t \in gs[i].unset, Settles(F.ss, t)
  PROVE  PendingIn(Append(gs, F), i, t)
<1> DEFINE n == Len(fs)
           ss == fs[n].ss
           hs == Append(gs, F)
<1>1. /\ n \in Nat /\ DOMAIN fs = 1 .. n /\ Len(gs) = n
      /\ n \in 1 .. n
      /\ ss \in Seq(Statements) /\ ss # <<>>
      /\ ReadIn(F.ss) \subseteq ReadInStatement(ss[1])
  BY FrameFacts DEF Moved
<1>2. /\ \A k \in 1 .. n :
           /\ gs[k].loop <=> fs[k].loop
           /\ k # n => gs[k].ss = fs[k].ss /\ gs[k].unset \subseteq fs[k].unset
      /\ gs[n].ss = Tail(ss)
      /\ gs[n].unset \subseteq fs[n].unset
      /\ fs[n].ss = ss
  <2>1. \A k \in 1 .. n : k # n => k < n
    <3> HIDE DEF n
    <3> QED
      BY <1>1
  <2> QED
    BY <1>1, <2>1 DEF Moved
<1>3. /\ Len(hs) = n + 1
      /\ \A k \in 1 .. n : hs[k] = gs[k]
      /\ hs[n + 1] = F
  BY <1>1, PushFacts
<1>4. t \in fs[i].unset
  BY <1>1, <1>2
<1>5. /\ \A k \in i + 1 .. n : t \notin ReadIn(fs[k].ss)
      /\ ~ReadBeforeAssignment(fs[i].ss, t) \/ WillSettle(fs, i, t)
  BY <1>4 DEF Pending, PendingIn
<1>6. \A k \in 1 .. n : ReadIn(gs[k].ss) \subseteq ReadIn(fs[k].ss)
  BY <1>1, <1>2, RestFacts
<1>7. ReadInStatement(ss[1]) \subseteq ReadIn(ss)
  BY <1>1, RestFacts
<1>8. \A k \in i + 1 .. n : k \in 1 .. n
  BY <1>1
<1> HIDE DEF n, ss, hs
<1>9. CASE i = n
  <2>1. ~WillSettle(fs, n, t)
    <3>1. n + 1 .. n = {}
      BY <1>1
    <3> QED
      BY <3>1 DEF WillSettle, n
  <2>2. t \notin ReadInStatement(ss[1])
    BY <1>1, <1>2, <1>5, <1>9, <2>1, RestReads
  <2>3. \A k \in i + 1 .. n + 1 : k = n + 1
    BY <1>1, <1>9
  <2>4. t \notin ReadIn(F.ss)
    BY <1>1, <2>2
  <2>5. n + 1 \in i + 1 .. n + 1
    BY <1>1, <1>9
  <2>6. WillSettle(hs, i, t)
    BY <1>3, <2>3, <2>5 DEF WillSettle
  <2> QED
    BY <1>3, <2>3, <2>4, <2>6 DEF PendingIn, hs
<1>10. CASE i # n
  <2>1. n \in i + 1 .. n
    BY <1>1, <1>10
  <2>2. t \notin ReadIn(F.ss)
    BY <1>1, <1>2, <1>5, <1>7, <2>1
  <2>3. ASSUME NEW k \in i + 1 .. n + 1 PROVE t \notin ReadIn(hs[k].ss)
    <3>1. k # n + 1 => k \in i + 1 .. n
      BY <1>1
    <3> QED
      BY <1>3, <1>5, <1>6, <1>8, <2>2, <3>1
  <2>4. ASSUME WillSettle(fs, i, t) PROVE WillSettle(hs, i, t)
    <3>1. PICK k \in i + 1 .. n : /\ \A j \in i + 1 .. k : ~fs[j].loop
                                  /\ Settles(fs[k].ss, t)
      BY <2>4 DEF WillSettle, n
    <3>2. \A j \in i + 1 .. k : j \in 1 .. n
      BY <1>1
    <3>3. \A j \in i + 1 .. k : ~hs[j].loop
      BY <1>2, <1>3, <3>1, <3>2
    <3>4. CASE k = n
      <4>1. n + 1 \in i + 1 .. n + 1 /\ \A j \in i + 1 .. n + 1 : j # n + 1 => j \in i + 1 .. k
        BY <1>1, <3>4
      <4>2. \A j \in i + 1 .. n + 1 : ~hs[j].loop
        BY <1>3, <3>3, <4>1
      <4> QED
        BY <1>3, <4>1, <4>2 DEF WillSettle
    <3>5. CASE k # n
      <4>1. k \in i + 1 .. n + 1 /\ k \in 1 .. n
        BY <1>1
      <4>2. Settles(hs[k].ss, t)
        BY <1>2, <1>3, <3>1, <3>5, <4>1
      <4> QED
        BY <1>3, <3>3, <4>1, <4>2 DEF WillSettle
    <3> QED
      BY <3>4, <3>5
  <2>5. hs[i].ss = fs[i].ss
    BY <1>1, <1>2, <1>3, <1>10
  <2> QED
    BY <1>3, <1>5, <2>3, <2>4, <2>5 DEF PendingIn, hs
<1> QED
  BY <1>9, <1>10


\* The frames that are left when the others are dropped.
LEMMA PrefixFacts ==
  ASSUME NEW fs \in Seq(Frames), NEW m \in 0 .. Len(fs)
  PROVE  /\ SubSeq(fs, 1, m) \in Seq(Frames)
         /\ Len(SubSeq(fs, 1, m)) = m
         /\ DOMAIN SubSeq(fs, 1, m) = 1 .. m
         /\ \A i \in 1 .. m : SubSeq(fs, 1, m)[i] = fs[i] /\ i \in 1 .. Len(fs)
OBVIOUS

LEMMA PrefixWellFormed ==
  ASSUME NEW fs \in Seq(Frames), WellFormed(fs), NEW m \in 0 .. Len(fs)
  PROVE  WellFormed(SubSeq(fs, 1, m))
<1> DEFINE n == Len(fs)
           gs == SubSeq(fs, 1, m)
<1>1. /\ n \in Nat /\ m \in 0 .. n /\ DOMAIN gs = 1 .. m /\ Len(gs) = m
      /\ \A i \in 1 .. m : gs[i] = fs[i] /\ i \in 1 .. n
  BY FrameFacts, PrefixFacts
<1>2. \A i \in 1 .. n : /\ Checked(fs[i])
                        /\ \A j \in i .. n : fs[i].declared \cap DeclaredWithin(fs[j].ss) = {}
                        /\ \A j \in i + 1 .. n : fs[i].declared \cap fs[j].declared = {}
  BY FrameFacts DEF WellFormed
<1> HIDE DEF n, gs
<1>3. \A i \in 1 .. m : /\ \A j \in i .. m : j \in 1 .. m /\ j \in i .. n
                        /\ \A j \in i + 1 .. m : j \in 1 .. m /\ j \in i + 1 .. n
  BY <1>1
<1>4. \A i \in 1 .. m : /\ Checked(gs[i])
                        /\ \A j \in i .. m : gs[i].declared \cap DeclaredWithin(gs[j].ss) = {}
                        /\ \A j \in i + 1 .. m : gs[i].declared \cap gs[j].declared = {}
  BY <1>1, <1>2, <1>3
<1>5. WellFormed(gs)
  BY <1>1, <1>4 DEF WellFormed
<1> QED
  BY <1>5 DEF gs

\* The frames that are dropped settle nothing outside the loop they end.
LEMMA PrefixPending ==
  ASSUME NEW fs \in Seq(Frames), Pending(fs), NEW m \in 0 .. Len(fs),
         \A i \in 1 .. m : \A k \in m + 1 .. Len(fs) :
            fs[i].unset # {} => fs[k].ss = <<>> \/ \E j \in i + 1 .. k : fs[j].loop
  PROVE  Pending(SubSeq(fs, 1, m))
<1> DEFINE n == Len(fs)
           gs == SubSeq(fs, 1, m)
<1>1. /\ n \in Nat /\ m \in 0 .. n /\ DOMAIN fs = 1 .. n /\ DOMAIN gs = 1 .. m /\ Len(gs) = m
      /\ \A i \in 1 .. m : gs[i] = fs[i] /\ i \in 1 .. n
  BY FrameFacts, PrefixFacts
<1>2. \A i \in 1 .. m : \A k \in m + 1 .. n :
         fs[i].unset # {} => fs[k].ss = <<>> \/ \E j \in i + 1 .. k : fs[j].loop
  OBVIOUS
<1> HIDE DEF gs
<1> SUFFICES ASSUME NEW i \in 1 .. m, NEW t \in fs[i].unset PROVE PendingIn(gs, i, t)
  <2>1. Pending(gs)
    BY <1>1 DEF Pending
  <2> QED
    BY <2>1 DEF gs
<1>3. /\ \A k \in i + 1 .. n : t \notin ReadIn(fs[k].ss)
      /\ ~ReadBeforeAssignment(fs[i].ss, t) \/ WillSettle(fs, i, t)
  BY <1>1 DEF Pending, PendingIn
<1> HIDE DEF n
<1>4. \A k \in i + 1 .. m : k \in i + 1 .. n /\ k \in 1 .. m
  BY <1>1
<1>5. ASSUME WillSettle(fs, i, t) PROVE WillSettle(gs, i, t)
  <2>1. PICK k \in i + 1 .. n : /\ \A j \in i + 1 .. k : ~fs[j].loop
                                /\ Settles(fs[k].ss, t)
    BY <1>5 DEF WillSettle, n
  <2>2. fs[k].ss # <<>>
    BY <2>1 DEF Settles, Elements
  <2>3. k \in i + 1 .. m
    BY <1>1, <1>2, <2>1, <2>2
  <2>4. \A j \in i + 1 .. k : j \in 1 .. m
    BY <1>1, <2>3
  <2> QED
    BY <1>1, <1>4, <2>1, <2>3, <2>4 DEF WillSettle
<1> QED
  BY <1>1, <1>3, <1>4, <1>5 DEF PendingIn

-------------------------------------------------------------------------------
(* Types.                                                                  *)

\* Frames with one field changed.
LEMMA GoOnFrame ==
  ASSUME NEW f \in Frames, NEW ss \in Seq(Statements), NEW g, g = [f EXCEPT !.ss = ss]
  PROVE  /\ g \in Frames /\ g.ss = ss /\ g.declared = f.declared
         /\ g.unset = f.unset /\ g.loop = f.loop
BY DEF Frames

LEMMA DeclareFrame ==
  ASSUME NEW f \in Frames, NEW D \in SUBSET Slots, NEW g, g = [f EXCEPT !.declared = D]
  PROVE  /\ g \in Frames /\ g.ss = f.ss /\ g.declared = D
         /\ g.unset = f.unset /\ g.loop = f.loop
BY DEF Frames

LEMMA UnsetFrame ==
  ASSUME NEW f \in Frames, NEW U \in SUBSET Slots, NEW g, g = [f EXCEPT !.unset = U]
  PROVE  /\ g \in Frames /\ g.ss = f.ss /\ g.declared = f.declared
         /\ g.unset = U /\ g.loop = f.loop
BY DEF Frames

LEMMA NewFrames ==
  /\ \A ss \in Seq(Statements) :
       Block(ss) \in Frames /\ ~Block(ss).loop /\ Block(ss).ss = ss
         /\ Block(ss).declared = {} /\ Block(ss).unset = {}
  /\ \A s \in Statements :
       Loop(s) \in Frames /\ Loop(s).loop /\ Loop(s).ss = <<s>>
         /\ Loop(s).declared = {} /\ Loop(s).unset = {}
<1>1. \A s \in Statements : <<s>> \in Seq(Statements)
  OBVIOUS
<1> QED
  BY <1>1 DEF Block, Loop, Frame, Frames

\* The statement that is executed, and the blocks inside it.
LEMMA CurrentFacts ==
  ASSUME BodyTypeOK, NEW k, AtStatement(k)
  PROVE  /\ Len(frames) \in Nat /\ Len(frames) \in 1 .. Len(frames)
         /\ DOMAIN frames = 1 .. Len(frames)
         /\ frames # <<>> /\ Top \in Frames /\ ~Top.loop
         /\ Top.ss \in Seq(Statements) /\ Top.ss # <<>>
         /\ Current \in Statements /\ Current \in Elements(Top.ss) /\ Current.k = k
<1>1. /\ frames \in Seq(Frames) /\ frames # <<>> /\ ~Top.loop /\ Top.ss # <<>>
      /\ Current.k = k
  BY DEF BodyTypeOK, AtStatement, Running
<1>2. /\ Len(frames) \in Nat /\ Len(frames) \in 1 .. Len(frames)
      /\ DOMAIN frames = 1 .. Len(frames)
      /\ Top \in Frames /\ Top.ss \in Seq(Statements)
  BY <1>1, FrameFacts DEF Top
<1>3. Current \in Statements /\ Current \in Elements(Top.ss)
  BY <1>1, <1>2, TailFacts DEF Current
<1> QED
  BY <1>1, <1>2, <1>3

\* The frames at the next statement.
LEMMA RestMoved ==
  ASSUME BodyTypeOK, NEW k, AtStatement(k)
  PROVE  /\ Rest \in Seq(Frames) /\ Len(Rest) = Len(frames)
         /\ DOMAIN Rest = 1 .. Len(frames)
         /\ Moved(frames, Rest, {})
         /\ \A i \in DOMAIN frames : /\ Rest[i] \in Frames
                                     /\ Rest[i].unset = frames[i].unset
                                     /\ Rest[i].declared = frames[i].declared
<1> DEFINE n == Len(frames)
           f == [Top EXCEPT !.ss = Tail(Top.ss)]
<1>1. /\ n \in Nat /\ n \in 1 .. n /\ DOMAIN frames = 1 .. n /\ frames # <<>>
      /\ Top = frames[n] /\ Top \in Frames /\ ~Top.loop
      /\ Top.ss \in Seq(Statements) /\ Top.ss # <<>>
      /\ frames \in Seq(Frames)
  BY CurrentFacts DEF Top, BodyTypeOK
<1>2. Tail(Top.ss) \in Seq(Statements)
  BY <1>1, TailFacts
<1>3. /\ f \in Frames /\ f.ss = Tail(Top.ss) /\ f.declared = Top.declared
      /\ f.unset = Top.unset /\ f.loop = Top.loop
  <2>1. f = [Top EXCEPT !.ss = Tail(Top.ss)]
    OBVIOUS
  <2>2. Top \in Frames
    BY <1>1
  <2> HIDE DEF f
  <2> QED
    BY <1>2, <2>1, <2>2, GoOnFrame
<1>4. Rest = [frames EXCEPT ![n] = f]
  BY DEF Rest, Top
<1> HIDE DEF f, n
<1>5. /\ Rest \in Seq(Frames) /\ Len(Rest) = n /\ DOMAIN Rest = 1 .. n
      /\ \A i \in 1 .. n : Rest[i] = IF i = n THEN f ELSE frames[i]
  BY <1>1, <1>3, <1>4 DEF n
<1>6. \A i \in 1 .. n : /\ Rest[i] \in Frames
                        /\ Rest[i].unset = frames[i].unset
                        /\ Rest[i].declared = frames[i].declared
                        /\ Rest[i].loop <=> frames[i].loop
                        /\ Rest[i].ss = IF i = n THEN Tail(Top.ss) ELSE frames[i].ss
  BY <1>1, <1>3, <1>5
<1>7. Moved(frames, Rest, {})
  <2>1. \A i \in 1 .. n : i < n => i # n
    BY <1>1
  <2> QED
    BY <1>1, <1>5, <1>6, <2>1 DEF Moved, n
<1> QED
  BY <1>1, <1>5, <1>6, <1>7 DEF n

\* The frames after a declaration.
LEMMA DeclareMoved ==
  ASSUME BodyTypeOK, Declare
  PROVE  /\ frames' \in Seq(Frames)
         /\ Moved(frames, frames', {Current.t})
<1> DEFINE n == Len(frames)
           t == Current.t
           f == [Rest[n] EXCEPT !.declared = @ \cup {t}]
           g == [f EXCEPT !.unset = @ \cup {t}]
<1>1. AtStatement("decl")
  BY DEF Declare
<1>2. /\ n \in Nat /\ n \in 1 .. n /\ DOMAIN frames = 1 .. n
      /\ Current \in Statements /\ Current.k = "decl"
  BY <1>1, CurrentFacts
<1>3. /\ Rest \in Seq(Frames) /\ Len(Rest) = n /\ DOMAIN Rest = 1 .. n
      /\ \A i \in 1 .. n : Rest[i] \in Frames
      /\ Moved(frames, Rest, {})
  BY <1>1, <1>2, RestMoved
<1>4. t \in Slots
  BY <1>2, PartsAreKnown
<1>5. /\ f \in Frames /\ f.declared = Rest[n].declared \cup {t}
      /\ f.unset = Rest[n].unset /\ f.ss = Rest[n].ss /\ f.loop = Rest[n].loop
  <2>1. Rest[n] \in Frames /\ Rest[n].declared \cup {t} \in SUBSET Slots
    BY <1>2, <1>3, <1>4 DEF Frames
  <2>2. f = [Rest[n] EXCEPT !.declared = Rest[n].declared \cup {t}]
    OBVIOUS
  <2> HIDE DEF f, n, t
  <2> QED
    BY <2>1, <2>2, DeclareFrame
<1>6. /\ g \in Frames /\ g.unset = Rest[n].unset \cup {t}
      /\ g.declared = Rest[n].declared \cup {t} /\ g.ss = Rest[n].ss /\ g.loop = Rest[n].loop
  <2>1. f.unset \cup {t} \in SUBSET Slots
    BY <1>4, <1>5 DEF Frames
  <2>2. g = [f EXCEPT !.unset = f.unset \cup {t}]
    OBVIOUS
  <2> HIDE DEF f, g, n, t
  <2> QED
    BY <1>5, <2>1, <2>2, UnsetFrame
<1>7. frames' = [Rest EXCEPT ![n] = g]
  BY <1>3 DEF Declare, GoOn
<1> HIDE DEF f, g, n
<1>8. /\ frames' \in Seq(Frames) /\ Len(frames') = n
      /\ \A i \in 1 .. n : frames'[i] = IF i = n THEN g ELSE Rest[i]
  BY <1>2, <1>3, <1>6, <1>7 DEF n
<1>9. Moved(frames, frames', {t})
  <2>1. /\ frames # <<>> /\ ~frames[n].loop /\ frames[n].ss # <<>>
        /\ \A i \in 1 .. n :
             /\ Rest[i].loop <=> frames[i].loop
             /\ i < n => /\ Rest[i].ss = frames[i].ss
                         /\ Rest[i].declared = frames[i].declared
                         /\ Rest[i].unset \subseteq frames[i].unset
             /\ i = n => /\ Rest[i].ss = Tail(frames[i].ss)
                         /\ Rest[i].declared = frames[i].declared
                         /\ Rest[i].unset \subseteq frames[i].unset
    BY <1>3 DEF Moved, n
  <2>2. \A i \in 1 .. n :
             /\ frames'[i].loop <=> Rest[i].loop
             /\ frames'[i].ss = Rest[i].ss
             /\ i # n => /\ frames'[i].declared = Rest[i].declared
                         /\ frames'[i].unset = Rest[i].unset
             /\ i = n => /\ frames'[i].declared = Rest[i].declared \cup {t}
                         /\ frames'[i].unset = Rest[i].unset \cup {t}
    BY <1>6, <1>8
  <2>3. \A i \in 1 .. n : i < n => i # n
    BY <1>2
  <2> QED
    BY <1>8, <2>1, <2>2, <2>3 DEF Moved, n
<1> QED
  BY <1>8, <1>9

\* The frames after an assignment.
LEMMA AssignMoved ==
  ASSUME BodyTypeOK, Assign
  PROVE  /\ frames' \in Seq(Frames)
         /\ Moved(frames, frames', {})
         /\ \A i \in DOMAIN frames : Means(Current.t, i) => Current.t \notin frames'[i].unset
<1> DEFINE n == Len(frames)
           t == Current.t
           g(i) == [Rest[i] EXCEPT !.unset = @ \ {t}]
<1>1. AtStatement("assign")
  BY DEF Assign
<1>2. n \in Nat /\ DOMAIN frames = 1 .. n
  BY <1>1, CurrentFacts
<1>3. /\ \A i \in 1 .. n : Rest[i] \in Frames
      /\ Moved(frames, Rest, {})
  BY <1>1, <1>2, RestMoved
<1>4. ASSUME NEW i \in 1 .. n
      PROVE  /\ g(i) \in Frames /\ g(i).unset = Rest[i].unset \ {t}
             /\ g(i).declared = Rest[i].declared /\ g(i).ss = Rest[i].ss /\ g(i).loop = Rest[i].loop
  <2>1. Rest[i] \in Frames /\ Rest[i].unset \ {t} \in SUBSET Slots
    BY <1>3 DEF Frames
  <2> DEFINE r == Rest[i]
             h == g(i)
             U == r.unset \ {t}
  <2>2. h = [r EXCEPT !.unset = U]
    OBVIOUS
  <2> HIDE DEF h, U
  <2>3. r \in Frames /\ U \in SUBSET Slots
    BY <2>1 DEF U
  <2> HIDE DEF r
  <2>4. /\ h \in Frames /\ h.unset = U
        /\ h.declared = r.declared /\ h.ss = r.ss /\ h.loop = r.loop
    BY <2>2, <2>3 DEF Frames
  <2> QED
    BY <2>4 DEF h, r, U
<1>5. frames' = [i \in 1 .. n |-> IF Means(t, i) THEN g(i) ELSE Rest[i]]
  BY <1>2 DEF Assign, GoOn
<1> HIDE DEF g, n, t
<1>6. \A i \in 1 .. n : (IF Means(t, i) THEN g(i) ELSE Rest[i]) \in Frames
  BY <1>3, <1>4
<1>7. frames' \in Seq(Frames) /\ Len(frames') = n
  <2>1. frames' \in [1 .. n -> Frames]
    BY <1>5, <1>6
  <2> QED
    BY <1>2, <2>1
<1>8. \A i \in 1 .. n : /\ frames'[i].loop <=> Rest[i].loop
                        /\ frames'[i].ss = Rest[i].ss
                        /\ frames'[i].declared = Rest[i].declared
                        /\ frames'[i].unset \subseteq Rest[i].unset
                        /\ Means(t, i) => t \notin frames'[i].unset
  BY <1>4, <1>5
<1>9. Moved(frames, frames', {})
  <2>1. /\ frames # <<>> /\ ~frames[n].loop /\ frames[n].ss # <<>>
        /\ \A i \in 1 .. n :
             /\ Rest[i].loop <=> frames[i].loop
             /\ i < n => /\ Rest[i].ss = frames[i].ss
                         /\ Rest[i].declared = frames[i].declared
                         /\ Rest[i].unset \subseteq frames[i].unset
             /\ i = n => /\ Rest[i].ss = Tail(frames[i].ss)
                         /\ Rest[i].declared = frames[i].declared
                         /\ Rest[i].unset \subseteq frames[i].unset
    BY <1>3 DEF Moved, n
  <2> QED
    BY <1>7, <1>8, <2>1 DEF Moved, n
<1> QED
  BY <1>2, <1>7, <1>8, <1>9 DEF t


\* A frame that is pushed, dropped or goes on.
LEMMA LoopSteps ==
  ASSUME NEW fs \in Seq(Frames), LoopsTyped(fs)
  PROVE  /\ \A gs \in Seq(Frames) : \A D : Moved(fs, gs, D) => LoopsTyped(gs)
         /\ \A F \in Frames : (F.loop => LoopFrame(F)) => LoopsTyped(Append(fs, F))
         /\ \A m \in 0 .. Len(fs) : LoopsTyped(SubSeq(fs, 1, m))
<1>1. \A i \in 1 .. Len(fs) : fs[i].loop => LoopFrame(fs[i])
  BY FrameFacts DEF LoopsTyped
<1>2. ASSUME NEW gs \in Seq(Frames), NEW D, Moved(fs, gs, D) PROVE LoopsTyped(gs)
  <2>1. DOMAIN gs = 1 .. Len(fs) /\ Len(fs) \in Nat
    BY <1>2, FrameFacts DEF Moved
  <2>2. ASSUME NEW i \in 1 .. Len(fs), gs[i].loop PROVE LoopFrame(gs[i])
    <3>1. fs[i].loop /\ i # Len(fs)
      BY <1>2, <2>2 DEF Moved
    <3>2. i < Len(fs)
      BY <2>1, <3>1
    <3>3. /\ gs[i].ss = fs[i].ss /\ gs[i].declared = fs[i].declared
          /\ gs[i].unset \subseteq fs[i].unset
      BY <1>2, <3>2 DEF Moved
    <3> QED
      BY <1>1, <3>1, <3>3 DEF LoopFrame
  <2> QED
    BY <2>1, <2>2 DEF LoopsTyped
<1>3. ASSUME NEW F \in Frames, F.loop => LoopFrame(F) PROVE LoopsTyped(Append(fs, F))
  <2> DEFINE n == Len(fs)
             hs == Append(fs, F)
  <2>1. /\ n \in Nat /\ DOMAIN hs = 1 .. n + 1
        /\ \A i \in 1 .. n : hs[i] = fs[i]
        /\ hs[n + 1] = F
    BY FrameFacts, PushFacts
  <2>2. \A i \in 1 .. n : fs[i].loop => LoopFrame(fs[i])
    BY <1>1
  <2> HIDE DEF n, hs
  <2>3. \A i \in 1 .. n + 1 : i # n + 1 => i \in 1 .. n
    BY <2>1
  <2>4. LoopsTyped(hs)
    BY <1>3, <2>1, <2>2, <2>3 DEF LoopsTyped
  <2> QED
    BY <2>4 DEF hs
<1>4. ASSUME NEW m \in 0 .. Len(fs) PROVE LoopsTyped(SubSeq(fs, 1, m))
  BY <1>1, PrefixFacts DEF LoopsTyped
<1> QED
  BY <1>2, <1>3, <1>4

\* The block that is executed by a statement that has blocks is one of them.
LEMMA EnteredBlocks ==
  ASSUME NEW s \in Statements
  PROVE  /\ s.k \in {"block", "while", "for"} => s.body \in Inner(s)
         /\ s.k = "if" => s.yes \in Inner(s) /\ s.no \in Inner(s)
         /\ s.k = "match" => \A i \in DOMAIN s.arms : s.arms[i].body \in Inner(s)
         /\ Inner(s) \subseteq Seq(Statements) /\ Inner(s) \subseteq Blocks
<1>1. Inner(s) \subseteq Seq(Statements) /\ Inner(s) \subseteq Blocks
  BY InnerFacts
<1>2. s.k \in {"block", "while", "for"} => s.body \in Inner(s)
  BY DEF Inner
<1>3. s.k = "if" => s.yes \in Inner(s) /\ s.no \in Inner(s)
  BY DEF Inner
<1>4. s.k = "match" => \A i \in DOMAIN s.arms : s.arms[i].body \in Inner(s)
  BY DEF Inner
<1> QED
  BY <1>1, <1>2, <1>3, <1>4

\* What is executed next, by the statements that enter a block or a loop.
LEMMA EnteringSteps ==
  ASSUME BodyTypeOK, \/ Nested \/ (\E truth \in BOOLEAN : If(truth)) \/ (\E i : Match(i))
  PROVE  \E k \in {"block", "if", "match"} :
           /\ AtStatement(k)
           /\ \E inner \in Inner(Current) : GoOn(Append(Rest, Block(inner)))
<1>1. CASE Nested
  <2>1. AtStatement("block") /\ GoOn(Append(Rest, Block(Current.body)))
    BY <1>1 DEF Nested
  <2>2. Current.body \in Inner(Current)
    BY <2>1, CurrentFacts, EnteredBlocks
  <2> QED
    BY <2>1, <2>2
<1>2. ASSUME NEW truth \in BOOLEAN, If(truth)
      PROVE  /\ AtStatement("if")
             /\ \E inner \in Inner(Current) : GoOn(Append(Rest, Block(inner)))
  <2> DEFINE inner == IF truth THEN Current.yes ELSE Current.no
  <2>1. AtStatement("if") /\ GoOn(Append(Rest, Block(inner)))
    BY <1>2 DEF If
  <2>2. Current.yes \in Inner(Current) /\ Current.no \in Inner(Current)
    BY <2>1, CurrentFacts, EnteredBlocks
  <2>3. inner \in Inner(Current)
    BY <2>2
  <2> HIDE DEF inner
  <2> QED
    BY <2>1, <2>3
<1>3. ASSUME NEW i, Match(i)
      PROVE  /\ AtStatement("match")
             /\ \E inner \in Inner(Current) : GoOn(Append(Rest, Block(inner)))
  <2>1. /\ AtStatement("match") /\ i \in DOMAIN Current.arms
        /\ GoOn(Append(Rest, Block(Current.arms[i].body)))
    BY <1>3 DEF Match
  <2>2. Current.arms[i].body \in Inner(Current)
    BY <2>1, CurrentFacts, EnteredBlocks
  <2> QED
    BY <2>1, <2>2
<1> QED
  BY <1>1, <1>2, <1>3

\* Nothing declares in a loop's own frame, and it is in the frames.
LEMMA LoopFacts ==
  ASSUME BodyTypeOK, AtLoop
  PROVE  /\ Len(frames) \in Nat /\ Len(frames) \in 1 .. Len(frames)
         /\ DOMAIN frames = 1 .. Len(frames)
         /\ Top.loop /\ Top.declared = {} /\ Top.unset = {}
         /\ Top.ss \in Seq(Statements) /\ Top.ss # <<>>
         /\ Current \in Statements /\ Current \in Elements(Top.ss)
         /\ Current.k \in {"while", "for"}
         /\ Current.body \in Inner(Current)
<1>1. frames \in Seq(Frames) /\ frames # <<>> /\ Top.loop /\ LoopsTyped(frames)
  BY DEF BodyTypeOK, AtLoop, Running
<1>2. /\ Len(frames) \in Nat /\ Len(frames) \in 1 .. Len(frames)
      /\ DOMAIN frames = 1 .. Len(frames)
      /\ Top \in Frames /\ Top.ss \in Seq(Statements)
  BY <1>1, FrameFacts DEF Top
<1>3. LoopFrame(Top)
  BY <1>1, <1>2 DEF LoopsTyped, Top
<1>4. PICK s \in Statements : s.k \in {"while", "for"} /\ Top.ss = <<s>>
  BY <1>3 DEF LoopFrame
<1>5. Current = s /\ Top.ss # <<>>
  BY <1>4 DEF Current
<1>6. Current \in Elements(Top.ss)
  BY <1>2, <1>5, TailFacts DEF Current
<1>7. Current.body \in Inner(Current)
  BY <1>4, <1>5, EnteredBlocks
<1> QED
  BY <1>1, <1>2, <1>3, <1>4, <1>5, <1>6, <1>7 DEF LoopFrame


\* The steps that drop frames, and which: none that could settle a variable of
\* the frames that are left.
LEMMA DroppingSteps ==
  ASSUME BodyTypeOK, EndBlock \/ Iterate(FALSE) \/ Return \/ Break \/ Continue
  PROVE  /\ UNCHANGED <<phase, program>>
         /\ \E m \in 0 .. Len(frames) :
              /\ frames' = SubSeq(frames, 1, m)
              /\ \A i \in 1 .. m : \A k \in m + 1 .. Len(frames) :
                   frames[i].unset # {} => \/ frames[k].ss = <<>>
                                           \/ \E j \in i + 1 .. k : frames[j].loop
<1> DEFINE n == Len(frames)
<1>1. n \in Nat /\ DOMAIN frames = 1 .. n
  BY FrameFacts DEF BodyTypeOK
<1>2. CASE EndBlock
  <2>1. frames # <<>> /\ frames[n].ss = <<>> /\ frames' = SubSeq(frames, 1, n - 1)
    BY <1>2 DEF EndBlock, Running, Top, GoOn, Outer
  <2>2. n \in 1 .. n
    BY <2>1, FrameFacts DEF BodyTypeOK
  <2> HIDE DEF n
  <2>3. n - 1 \in 0 .. n /\ \A k \in (n - 1) + 1 .. n : k = n
    BY <1>1, <2>2
  <2>4. UNCHANGED <<phase, program>>
    BY <1>2 DEF EndBlock, GoOn
  <2> QED
    BY <2>1, <2>3, <2>4 DEF n
<1>3. CASE Iterate(FALSE)
  <2>1. AtLoop /\ frames' = SubSeq(frames, 1, n - 1) /\ UNCHANGED <<phase, program>>
    BY <1>3 DEF Iterate, GoOn, Outer
  <2>2. n \in 1 .. n /\ frames[n].loop
    BY <2>1, LoopFacts DEF Top
  <2> HIDE DEF n
  <2>3. /\ n - 1 \in 0 .. n
        /\ \A i \in 1 .. n - 1 : \A k \in (n - 1) + 1 .. n : n \in i + 1 .. k
    BY <1>1, <2>2
  <2> QED
    BY <2>1, <2>2, <2>3 DEF n
<1>4. CASE Return
  <2>1. frames' = <<>> /\ UNCHANGED <<phase, program>>
    BY <1>4 DEF Return, GoOn
  <2>2. SubSeq(frames, 1, 0) = <<>>
    BY SubSeqEmpty
  <2>3. 0 \in 0 .. n /\ 1 .. 0 = {}
    BY <1>1
  <2> QED
    BY <2>1, <2>2, <2>3
<1>5. CASE Break
  <2>1. PICK l \in 1 .. n : Innermost(l) /\ GoOn(Outer(l - 1))
    BY <1>1, <1>5 DEF Break
  <2>2. frames[l].loop /\ frames' = SubSeq(frames, 1, l - 1) /\ UNCHANGED <<phase, program>>
    BY <2>1 DEF Innermost, GoOn, Outer
  <2> HIDE DEF n
  <2>3. /\ l - 1 \in 0 .. n
        /\ \A i \in 1 .. l - 1 : \A k \in (l - 1) + 1 .. n : l \in i + 1 .. k
    BY <1>1
  <2> QED
    BY <2>2, <2>3 DEF n
<1>6. CASE Continue
  <2>1. PICK l \in 1 .. n : Innermost(l) /\ GoOn(Outer(l))
    BY <1>1, <1>6 DEF Continue
  <2>2. frames[l].loop /\ frames' = SubSeq(frames, 1, l) /\ UNCHANGED <<phase, program>>
    BY <2>1 DEF Innermost, GoOn, Outer
  <2>3. frames[l].unset = {}
    BY <1>1, <2>2 DEF BodyTypeOK, LoopsTyped, LoopFrame
  <2> HIDE DEF n
  <2>4. /\ l \in 0 .. n
        /\ \A i \in 1 .. l : \A k \in l + 1 .. n : i # l => l \in i + 1 .. k
    BY <1>1
  <2> QED
    BY <2>2, <2>3, <2>4 DEF n
<1> QED
  BY <1>2, <1>3, <1>4, <1>5, <1>6

\* The cases of a step.
LEMMA Steps ==
  ASSUME BodyTypeOK, BodyNext
  PROVE  \/ \E accepted \in BOOLEAN : Compile(accepted)
         \/ \E k \in SimpleKinds : Simple(k)
         \/ Declare
         \/ Assign
         \/ \E k \in {"block", "if", "match"} :
              /\ AtStatement(k)
              /\ \E inner \in Inner(Current) : GoOn(Append(Rest, Block(inner)))
         \/ \E k \in {"while", "for"} : AtStatement(k) /\ GoOn(Append(Rest, Loop(Current)))
         \/ AtLoop /\ GoOn(Append(frames, Block(Current.body)))
         \/ EndBlock \/ Iterate(FALSE) \/ Return \/ Break \/ Continue
<1>1. CASE Nested \/ (\E truth \in BOOLEAN : If(truth)) \/ (\E i : Match(i))
  BY <1>1, EnteringSteps
<1>2. CASE While \/ For
  BY <1>2 DEF While, For
<1>3. ASSUME NEW truth \in BOOLEAN, Iterate(truth)
      PROVE  \/ AtLoop /\ GoOn(Append(frames, Block(Current.body)))
             \/ Iterate(FALSE)
  <2>1. CASE truth = TRUE
    BY <1>3, <2>1 DEF Iterate
  <2>2. CASE truth = FALSE
    BY <1>3, <2>2
  <2> QED
    BY <2>1, <2>2
<1> QED
  BY <1>1, <1>2, <1>3 DEF BodyNext

LEMMA InitTyped == BodyInit => BodyTypeOK
<1> SUFFICES ASSUME BodyInit PROVE BodyTypeOK
  OBVIOUS
<1>1. PICK family \in Families :
         \E one \in family.before, two \in family.middle, three \in family.after :
            program = one \o two \o three
  BY DEF BodyInit
<1>2. PICK one \in family.before, two \in family.middle, three \in family.after :
         program = one \o two \o three
  BY <1>1
<1>3. one \in Seq(Statements) /\ two \in Seq(Statements) /\ three \in Seq(Statements)
  BY BlocksAreNested
<1>4. program \in Seq(Statements)
  BY <1>2, <1>3
<1>5. frames \in Seq(Frames) /\ DOMAIN frames = {}
  BY DEF BodyInit
<1> QED
  BY <1>4, <1>5 DEF BodyInit, BodyTypeOK, LoopsTyped

LEMMA StepTyped == BodyTypeOK /\ [BodyNext]_bodyVars => BodyTypeOK'
<1> SUFFICES ASSUME BodyTypeOK, [BodyNext]_bodyVars PROVE BodyTypeOK'
  OBVIOUS
<1>1. frames \in Seq(Frames) /\ LoopsTyped(frames) /\ program \in Seq(Statements)
  BY DEF BodyTypeOK
<1>2. ASSUME UNCHANGED <<phase, program>>, frames' \in Seq(Frames), LoopsTyped(frames')
      PROVE  BodyTypeOK'
  BY <1>2 DEF BodyTypeOK
<1>3. ASSUME NEW accepted \in BOOLEAN, Compile(accepted) PROVE BodyTypeOK'
  <2>1. program' \in Seq(Statements) /\ phase' \in {"source", "refused", "running"}
    BY <1>3 DEF Compile
  <2>2. CASE frames' = frames
    BY <1>1, <2>1, <2>2 DEF BodyTypeOK
  <2>3. CASE frames' = <<Block(program)>>
    <3>1. Block(program) \in Frames /\ ~Block(program).loop
      BY <1>1, NewFrames
    <3>2. frames' \in Seq(Frames) /\ DOMAIN frames' = {1} /\ frames'[1] = Block(program)
      BY <2>3, <3>1
    <3> QED
      BY <2>1, <3>1, <3>2 DEF BodyTypeOK, LoopsTyped
  <2> QED
    BY <1>3, <2>2, <2>3 DEF Compile
<1>4. ASSUME NEW k \in SimpleKinds, Simple(k) PROVE BodyTypeOK'
  <2>1. AtStatement(k) /\ frames' = Rest /\ UNCHANGED <<phase, program>>
    BY <1>4 DEF Simple, GoOn
  <2>2. Rest \in Seq(Frames) /\ LoopsTyped(Rest)
    BY <1>1, <2>1, RestMoved, LoopSteps
  <2> QED
    BY <1>2, <2>1, <2>2
<1>5. CASE Declare
  <2>1. frames' \in Seq(Frames) /\ Moved(frames, frames', {Current.t})
    BY <1>5, DeclareMoved
  <2>2. LoopsTyped(frames')
    BY <1>1, <2>1, LoopSteps
  <2> QED
    BY <1>2, <1>5, <2>1, <2>2 DEF Declare, GoOn
<1>6. CASE Assign
  <2>1. frames' \in Seq(Frames) /\ Moved(frames, frames', {})
    BY <1>6, AssignMoved
  <2>2. LoopsTyped(frames')
    BY <1>1, <2>1, LoopSteps
  <2> QED
    BY <1>2, <1>6, <2>1, <2>2 DEF Assign, GoOn
<1>7. ASSUME NEW k \in {"block", "if", "match"}, AtStatement(k),
             NEW inner \in Inner(Current), GoOn(Append(Rest, Block(inner)))
      PROVE  BodyTypeOK'
  <2>1. Rest \in Seq(Frames) /\ LoopsTyped(Rest)
    BY <1>1, <1>7, RestMoved, LoopSteps
  <2>2. inner \in Seq(Statements)
    BY <1>7, CurrentFacts, EnteredBlocks
  <2>3. Block(inner) \in Frames /\ ~Block(inner).loop
    BY <2>2, NewFrames
  <2>4. Append(Rest, Block(inner)) \in Seq(Frames) /\ LoopsTyped(Append(Rest, Block(inner)))
    BY <2>1, <2>3, PushFacts, LoopSteps
  <2> QED
    BY <1>2, <1>7, <2>4 DEF GoOn
<1>8. ASSUME NEW k \in {"while", "for"}, AtStatement(k), GoOn(Append(Rest, Loop(Current)))
      PROVE  BodyTypeOK'
  <2>1. Rest \in Seq(Frames) /\ LoopsTyped(Rest)
    BY <1>1, <1>8, RestMoved, LoopSteps
  <2>2. Current \in Statements /\ Current.k = k
    BY <1>8, CurrentFacts
  <2>3. Loop(Current) \in Frames /\ LoopFrame(Loop(Current))
    BY <2>2, NewFrames DEF LoopFrame
  <2>4. Append(Rest, Loop(Current)) \in Seq(Frames) /\ LoopsTyped(Append(Rest, Loop(Current)))
    BY <2>1, <2>3, PushFacts, LoopSteps
  <2> QED
    BY <1>2, <1>8, <2>4 DEF GoOn
<1>9. CASE AtLoop /\ GoOn(Append(frames, Block(Current.body)))
  <2>1. Current.body \in Seq(Statements)
    BY <1>9, LoopFacts, EnteredBlocks
  <2>2. Block(Current.body) \in Frames /\ ~Block(Current.body).loop
    BY <2>1, NewFrames
  <2>3. /\ Append(frames, Block(Current.body)) \in Seq(Frames)
        /\ LoopsTyped(Append(frames, Block(Current.body)))
    BY <1>1, <2>2, PushFacts, LoopSteps
  <2> QED
    BY <1>2, <1>9, <2>3 DEF GoOn
<1>10. CASE EndBlock \/ Iterate(FALSE) \/ Return \/ Break \/ Continue
  <2>1. PICK m \in 0 .. Len(frames) : frames' = SubSeq(frames, 1, m)
    BY <1>10, DroppingSteps
  <2>2. frames' \in Seq(Frames) /\ LoopsTyped(frames')
    BY <1>1, <2>1, PrefixFacts, LoopSteps
  <2> QED
    BY <1>2, <1>10, <2>2, DroppingSteps
<1>11. CASE UNCHANGED bodyVars
  BY <1>1, <1>2, <1>11 DEF bodyVars
<1> QED
  BY <1>3, <1>4, <1>5, <1>6, <1>7, <1>8, <1>9, <1>10, <1>11, Steps

\* The frames that are left to execute are blocks and loops of the program.
THEOREM BodyTypeCorrect == BodySpec => []BodyTypeOK
BY InitTyped, StepTyped, PTL DEF BodySpec

-------------------------------------------------------------------------------
(* The invariant is inductive.                                             *)

\* The next statement does not read a variable without a value.
LEMMA NotRead ==
  ASSUME frames \in Seq(Frames), Pending(frames), frames # <<>>, Top.ss # <<>>,
         NEW i \in DOMAIN frames, NEW t \in frames[i].unset
  PROVE  t \notin ReadInStatement(Current)
<1> DEFINE n == Len(frames)
<1>1. /\ n \in Nat /\ n \in 1 .. n /\ i \in 1 .. n
      /\ Top = frames[n] /\ Top.ss \in Seq(Statements)
  BY FrameFacts DEF Top
<1>2. /\ \A k \in i + 1 .. n : t \notin ReadIn(frames[k].ss)
      /\ ~ReadBeforeAssignment(frames[i].ss, t) \/ WillSettle(frames, i, t)
  BY DEF Pending, PendingIn
<1>3. CASE i = n
  <2>1. n + 1 .. n = {}
    <3> HIDE DEF n
    <3> QED
      BY <1>1
  <2>2. ~WillSettle(frames, i, t)
    BY <1>3, <2>1 DEF WillSettle
  <2>3. ~ReadBeforeAssignment(Top.ss, t)
    BY <1>1, <1>2, <1>3, <2>2
  <2> QED
    BY <1>1, <2>3, RestReads DEF Current
<1>4. CASE i # n
  <2>1. n \in i + 1 .. n
    <3> HIDE DEF n
    <3> QED
      BY <1>1, <1>4
  <2>2. t \notin ReadIn(Top.ss)
    BY <1>1, <1>2, <2>1
  <2> QED
    BY <1>1, <2>2, RestFacts DEF Current
<1> QED
  BY <1>3, <1>4

\* What is inside the next statement declares no variable that is in scope,
\* and a block inside it was checked.
LEMMA NotDeclared ==
  ASSUME frames \in Seq(Frames), WellFormed(frames), frames # <<>>, Top.ss # <<>>
  PROVE  /\ Checked(Top)
         /\ \A i \in DOMAIN frames : frames[i].declared \cap DeclaredIn(Current) = {}
         /\ \A inner \in Inner(Current) : CheckDefiniteAssignment(inner)
<1> DEFINE n == Len(frames)
<1>1. /\ n \in Nat /\ n \in 1 .. n /\ DOMAIN frames = 1 .. n
      /\ Top = frames[n] /\ Top.ss \in Seq(Statements)
  BY FrameFacts DEF Top
<1>2. /\ Checked(Top)
      /\ \A i \in 1 .. n : frames[i].declared \cap DeclaredWithin(Top.ss) = {}
  <2>1. \A i \in 1 .. n : n \in i .. n
    <3> HIDE DEF n
    <3> QED
      BY <1>1
  <2> QED
    BY <1>1, <2>1 DEF WellFormed
<1>3. DeclaredIn(Current) \subseteq DeclaredWithin(Top.ss)
  BY <1>1, RestFacts DEF Current
<1>4. Current \in Elements(Top.ss)
  BY <1>1, TailFacts DEF Current
<1>5. CheckDefiniteAssignment(Top.ss)
  BY <1>2 DEF Checked
<1>6. \A inner \in Inner(Current) : CheckDefiniteAssignment(inner)
  BY <1>1, <1>4, <1>5, NestedFacts
<1> QED
  BY <1>1, <1>2, <1>3, <1>6

\* A block inside the next statement, as the innermost frame.
LEMMA NestedBlock ==
  ASSUME NoShadowing, frames \in Seq(Frames), WellFormed(frames), frames # <<>>, Top.ss # <<>>,
         NEW inner \in Inner(Current)
  PROVE  /\ Block(inner) \in Frames /\ ~Block(inner).loop
         /\ Block(inner).declared = {} /\ Block(inner).unset = {} /\ Block(inner).ss = inner
         /\ Checked(Block(inner))
         /\ DeclaredWithin(inner) \subseteq DeclaredIn(Current)
         /\ ReadIn(inner) \subseteq ReadInStatement(Current)
<1>1. Top.ss \in Seq(Statements) /\ Current \in Elements(Top.ss) /\ Current \in Statements
  <2>1. Top.ss \in Seq(Statements)
    BY FrameFacts DEF Top
  <2> QED
    BY <2>1, TailFacts DEF Current
<1>2. /\ inner \in Blocks
      /\ ReadIn(inner) \subseteq ReadInStatement(Current)
      /\ DeclaredWithin(inner) \subseteq DeclaredIn(Current)
      /\ CheckDefiniteAssignment(inner)
  BY <1>1, NestedFacts, NotDeclared
<1>3. Unshadowed(inner) /\ inner \in Seq(Statements)
  BY <1>2, InnerFacts DEF NoShadowing
<1>4. /\ Block(inner) \in Frames /\ ~Block(inner).loop /\ Block(inner).ss = inner
      /\ Block(inner).declared = {} /\ Block(inner).unset = {}
  BY <1>3, NewFrames
<1> QED
  BY <1>2, <1>3, <1>4 DEF Checked

\* A loop, as the innermost frame.
LEMMA NestedLoop ==
  ASSUME BodyTypeOK, WellFormed(frames), NEW k \in {"while", "for"}, AtStatement(k)
  PROVE  /\ Loop(Current) \in Frames
         /\ Loop(Current).declared = {} /\ Loop(Current).unset = {}
         /\ Loop(Current).ss = <<Current>>
         /\ Checked(Loop(Current))
         /\ DeclaredWithin(<<Current>>) = DeclaredIn(Current)
         /\ ReadIn(<<Current>>) = ReadInStatement(Current)
<1>1. /\ Current \in Statements /\ Current.k = k /\ Top.ss # <<>> /\ frames # <<>>
      /\ Current \in Elements(Top.ss) /\ frames \in Seq(Frames)
  BY CurrentFacts DEF BodyTypeOK
<1> DEFINE s == Current
           ss == <<s>>
<1>2. DOMAIN ss = {1} /\ ss[1] = s /\ Elements(ss) = {s}
  BY DEF Elements
<1> HIDE DEF ss, s
<1>3. DeclaredWithin(ss) = DeclaredIn(s) /\ ReadIn(ss) = ReadInStatement(s)
  BY <1>2 DEF DeclaredWithin, ReadIn
<1>4. Unshadowed(ss)
  BY <1>2 DEF Unshadowed
<1>5. CheckDefiniteAssignment(ss)
  <2>1. DeclarationsAssigned(ss)
    BY <1>1, <1>2 DEF DeclarationsAssigned, s
  <2>2. InnerBlocks(ss) = Inner(s)
    BY <1>2 DEF InnerBlocks
  <2>3. \A inner \in Inner(s) : CheckDefiniteAssignment(inner) /\ BlocksOf(inner) = BlocksIn[inner]
    BY <1>1, NotDeclared, WithinFacts DEF s
  <2> QED
    BY <2>1, <2>2, <2>3 DEF CheckDefiniteAssignment, BlocksOf
<1>6. /\ Loop(s) \in Frames /\ Loop(s).ss = ss
      /\ Loop(s).declared = {} /\ Loop(s).unset = {}
  BY <1>1, NewFrames DEF s, ss
<1> QED
  BY <1>3, <1>4, <1>5, <1>6 DEF Checked, s, ss

LEMMA InitInvariant ==
  ASSUME NoShadowing, BodyInit
  PROVE  IInv
<1>1. PICK family \in Families :
         \E one \in family.before, two \in family.middle, three \in family.after :
            program = one \o two \o three
  BY DEF BodyInit
<1>2. Unshadowed(program)
  BY <1>1 DEF NoShadowing
<1>3. DOMAIN frames = {}
  BY DEF BodyInit
<1> QED
  BY <1>2, <1>3, InitTyped DEF IInv, WellFormed, Pending

\* A step to the next statement.
LEMMA StepMoved ==
  ASSUME IInv, NEW k, AtStatement(k), NEW gs \in Seq(Frames), NEW D, Moved(frames, gs, D),
         D = {} \/ (D = {Current.t} /\ k = "decl"),
         \A i \in DOMAIN frames : \A t \in gs[i].unset :
            AnalyzeStatement(Current, t) = "FallsThrough"
  PROVE  WellFormed(gs) /\ Pending(gs)
<1>1. /\ Top.ss \in Seq(Statements) /\ Top.ss # <<>> /\ frames # <<>>
      /\ Current \in Statements /\ Current.k = k
      /\ frames \in Seq(Frames) /\ WellFormed(frames) /\ Pending(frames)
      /\ Top = frames[Len(frames)] /\ Current = Top.ss[1]
  BY CurrentFacts DEF IInv, BodyTypeOK, Top, Current
<1>2. /\ D \subseteq DeclaredIn(Current)
      /\ D \cap DeclaredWithin(Tail(Top.ss)) = {}
      /\ \A t \in D : ~ReadBeforeAssignment(Tail(Top.ss), t)
  <2>1. CASE D = {}
    BY <2>1
  <2>2. CASE D = {Current.t} /\ k = "decl"
    <3>1. Current.t \in DeclaredIn(Current)
      BY <1>1, <2>2 DEF DeclaredIn, Within
    <3>2. CheckDefiniteAssignment(Top.ss) /\ Unshadowed(Top.ss)
      BY <1>1, NotDeclared DEF Checked
    <3>3. Current.t \notin DeclaredWithin(Tail(Top.ss))
      BY <1>1, <2>2, <3>2, RestUnshadowed
    <3>4. ~ReadBeforeAssignment(Tail(Top.ss), Current.t)
      BY <1>1, <2>2, <3>2, RestChecked
    <3> QED
      BY <2>2, <3>1, <3>3, <3>4
  <2> QED
    BY <2>1, <2>2
<1>3. WellFormed(gs)
  BY <1>1, <1>2, MovedWellFormed
<1>4. ASSUME NEW i \in DOMAIN gs, NEW t \in gs[i].unset PROVE PendingIn(gs, i, t)
  <2>1. i \in DOMAIN frames
    BY <1>1, FrameFacts DEF Moved
  <2>2. AnalyzeStatement(Current, t) = "FallsThrough"
    BY <2>1
  <2> QED
    BY <1>1, <1>2, <2>1, <2>2, MovedPending
<1> QED
  BY <1>3, <1>4 DEF Pending

\* A step into a block of the next statement.
LEMMA StepInto ==
  ASSUME NoShadowing, IInv, NEW k \in {"block", "if", "match"}, AtStatement(k),
         NEW inner \in Inner(Current)
  PROVE  WellFormed(Append(Rest, Block(inner))) /\ Pending(Append(Rest, Block(inner)))
<1> DEFINE F == Block(inner)
           hs == Append(Rest, F)
           n == Len(frames)
<1>1. /\ Top.ss # <<>> /\ frames # <<>>
      /\ Current \in Statements /\ Current.k = k
      /\ n \in Nat /\ DOMAIN frames = 1 .. n
      /\ BodyTypeOK /\ frames \in Seq(Frames) /\ WellFormed(frames) /\ Pending(frames)
      /\ Current = frames[n].ss[1]
  BY CurrentFacts DEF IInv, BodyTypeOK, Top, Current
<1>2. /\ Rest \in Seq(Frames) /\ Len(Rest) = n /\ DOMAIN Rest = 1 .. n
      /\ Moved(frames, Rest, {})
      /\ \A i \in 1 .. n : Rest[i].unset = frames[i].unset /\ Rest[i].declared = frames[i].declared
  BY <1>1, RestMoved
<1>3. /\ F \in Frames /\ ~F.loop /\ F.declared = {} /\ F.unset = {} /\ F.ss = inner
      /\ Checked(F)
      /\ DeclaredWithin(inner) \subseteq DeclaredIn(Current)
      /\ ReadIn(inner) \subseteq ReadInStatement(Current)
  BY <1>1, NestedBlock
<1>4. WellFormed(Rest)
  BY <1>1, <1>2, MovedWellFormed
<1> HIDE DEF F
<1>5. WellFormed(hs)
  <2>1. \A i \in 1 .. n : Rest[i].declared \cap DeclaredWithin(F.ss) = {}
    BY <1>1, <1>2, <1>3, NotDeclared
  <2> QED
    BY <1>2, <1>3, <1>4, <2>1, PushWellFormed
<1>6. /\ hs \in Seq(Frames) /\ DOMAIN hs = 1 .. n + 1
      /\ \A i \in 1 .. n : hs[i] = Rest[i]
      /\ hs[n + 1] = F
  BY <1>2, <1>3, PushFacts
<1>7. ASSUME NEW i \in 1 .. n, NEW t \in Rest[i].unset PROVE PendingIn(hs, i, t)
  <2>1. t \in frames[i].unset /\ i \in DOMAIN frames /\ i \in DOMAIN Rest
    BY <1>1, <1>2
  <2>2. t \in Slots
    BY <1>1, <2>1, FrameFacts
  <2>3. t \notin ReadIn(F.ss)
    BY <1>1, <1>3, <2>1, NotRead
  <2>4. CASE AnalyzeStatement(Current, t) = "FallsThrough"
    <3>1. PendingIn(Rest, i, t)
      BY <1>1, <1>2, <2>1, <2>4, MovedPending
    <3> QED
      BY <1>2, <1>3, <2>1, <2>3, <3>1, PushPending
  <2>5. CASE AnalyzeStatement(Current, t) # "FallsThrough"
    <3>1. Current.k \notin {"return", "break", "continue", "assign"}
      BY <1>1
    <3>2. Settles(F.ss, t)
      BY <1>1, <1>3, <2>2, <2>5, <3>1, NestedSettles
    <3>3. ReadIn(F.ss) \subseteq ReadInStatement(frames[n].ss[1])
      BY <1>1, <1>3
    <3> QED
      BY <1>1, <1>2, <1>3, <2>1, <3>2, <3>3, EnterPending
  <2> QED
    BY <2>4, <2>5
<1> HIDE DEF hs, n
<1>8. Pending(hs)
  <2>1. \A i \in 1 .. n + 1 : i # n + 1 => i \in 1 .. n
    BY <1>1
  <2> QED
    BY <1>3, <1>6, <1>7, <2>1 DEF Pending
<1> QED
  BY <1>5, <1>8 DEF hs, F


\* A frame that declares nothing, reads no variable without a value and was
\* checked can be pushed.
LEMMA StepPushed ==
  ASSUME NEW fs \in Seq(Frames), WellFormed(fs), Pending(fs),
         NEW F \in Frames, Checked(F), F.declared = {}, F.unset = {},
         \A i \in DOMAIN fs : fs[i].declared \cap DeclaredWithin(F.ss) = {},
         \A i \in DOMAIN fs : \A t \in fs[i].unset : t \notin ReadIn(F.ss)
  PROVE  WellFormed(Append(fs, F)) /\ Pending(Append(fs, F))
<1> DEFINE n == Len(fs)
           hs == Append(fs, F)
<1>1. WellFormed(hs)
  BY PushWellFormed
<1>2. /\ n \in Nat /\ DOMAIN fs = 1 .. n /\ DOMAIN hs = 1 .. n + 1
      /\ \A i \in 1 .. n : hs[i] = fs[i]
      /\ hs[n + 1] = F
  BY FrameFacts, PushFacts
<1>3. ASSUME NEW i \in 1 .. n, NEW t \in fs[i].unset PROVE PendingIn(hs, i, t)
  <2>1. i \in DOMAIN fs
    BY <1>2
  <2>2. PendingIn(fs, i, t)
    BY <2>1 DEF Pending
  <2> QED
    BY <2>1, <2>2, PushPending
<1> HIDE DEF hs, n
<1>4. \A i \in 1 .. n + 1 : i # n + 1 => i \in 1 .. n
  BY <1>2
<1>5. Pending(hs)
  BY <1>2, <1>3, <1>4 DEF Pending
<1> QED
  BY <1>1, <1>5 DEF hs

\* No step leaves the invariant.
LEMMA StepInvariant ==
  ASSUME NoShadowing, IInv, [BodyNext]_bodyVars
  PROVE  IInv'
<1>1. /\ BodyTypeOK /\ frames \in Seq(Frames) /\ Unshadowed(program) /\ program \in Seq(Statements)
      /\ WellFormed(frames) /\ Pending(frames)
  BY DEF IInv, BodyTypeOK
<1>2. BodyTypeOK'
  BY <1>1, StepTyped
<1>3. ASSUME program' = program, WellFormed(frames'), Pending(frames')
      PROVE  IInv'
  BY <1>1, <1>2, <1>3 DEF IInv
<1>4. ASSUME NEW accepted \in BOOLEAN, Compile(accepted) PROVE IInv'
  <2>1. Unshadowed(program')
    <3>1. DOMAIN program' = {}
      BY <1>4 DEF Compile
    <3> QED
      BY <3>1 DEF Unshadowed
  <2>2. CASE frames' = frames
    BY <1>1, <1>2, <2>1, <2>2 DEF IInv
  <2>3. CASE frames' = <<Block(program)>> /\ CheckDefiniteAssignment(program)
    <3> DEFINE F == Block(program)
    <3>1. /\ Len(frames') = 1 /\ DOMAIN frames' = {1} /\ frames'[1] = F
      BY <2>3
    <3>2. F.declared = {} /\ F.unset = {} /\ F.ss = program
      BY <1>1, NewFrames
    <3>3. Checked(F)
      BY <1>1, <2>3, <3>2 DEF Checked
    <3> HIDE DEF F
    <3>4. WellFormed(frames')
      BY <3>1, <3>2, <3>3 DEF WellFormed
    <3>5. Pending(frames')
      BY <3>1, <3>2 DEF Pending
    <3> QED
      BY <1>2, <2>1, <3>4, <3>5 DEF IInv
  <2> QED
    BY <1>4, <2>2, <2>3 DEF Compile
<1>5. ASSUME NEW k \in SimpleKinds, Simple(k) PROVE IInv'
  <2>1. AtStatement(k) /\ frames' = Rest /\ program' = program
    BY <1>5 DEF Simple, GoOn
  <2>2. Rest \in Seq(Frames) /\ Moved(frames, Rest, {})
    BY <1>1, <2>1, RestMoved
  <2>3. \A t : AnalyzeStatement(Current, t) = "FallsThrough"
    <3>1. Current.k = k
      BY <1>1, <2>1, CurrentFacts
    <3> QED
      BY <3>1 DEF AnalyzeStatement, StatementFlow, SimpleKinds
  <2>4. WellFormed(Rest) /\ Pending(Rest)
    BY <2>1, <2>2, <2>3, StepMoved
  <2> QED
    BY <1>3, <2>1, <2>4
<1>6. CASE Declare
  <2>1. AtStatement("decl") /\ program' = program
    BY <1>6 DEF Declare, GoOn
  <2>2. frames' \in Seq(Frames) /\ Moved(frames, frames', {Current.t})
    BY <1>1, <1>6, DeclareMoved
  <2>3. \A t : AnalyzeStatement(Current, t) = "FallsThrough"
    <3>1. Current.k = "decl"
      BY <1>1, <2>1, CurrentFacts
    <3> QED
      BY <3>1 DEF AnalyzeStatement, StatementFlow
  <2>4. PICK fs \in Seq(Frames) : fs = frames'
    BY <2>2
  <2>5. PICK D : D = {Current.t}
    OBVIOUS
  <2>6. Moved(frames, fs, D)
    BY <2>2, <2>4, <2>5
  <2>7. WellFormed(fs) /\ Pending(fs)
    BY <2>1, <2>3, <2>5, <2>6, StepMoved
  <2> QED
    BY <1>3, <2>1, <2>4, <2>7
<1>7. CASE Assign
  <2>1. AtStatement("assign") /\ program' = program
    BY <1>7 DEF Assign, GoOn
  <2>2. /\ frames' \in Seq(Frames) /\ Moved(frames, frames', {})
        /\ \A i \in DOMAIN frames : Means(Current.t, i) => Current.t \notin frames'[i].unset
    BY <1>1, <1>7, AssignMoved
  <2>3. PICK fs \in Seq(Frames) : fs = frames'
    BY <2>2
  <2>4. /\ Moved(frames, fs, {})
        /\ \A i \in DOMAIN frames : Means(Current.t, i) => Current.t \notin fs[i].unset
    BY <2>2, <2>3
  <2>5. ASSUME NEW i \in DOMAIN frames, NEW t \in fs[i].unset
        PROVE  AnalyzeStatement(Current, t) = "FallsThrough"
    <3>1. t \in frames[i].unset
      BY <1>1, <2>4, <2>5, FrameFacts DEF Moved
    <3>2. Means(t, i)
      <4>1. t \in frames[i].declared
        BY <1>1, <3>1 DEF WellFormed, Checked
      <4> QED
        BY <1>1, <4>1 DEF WellFormed, Means
    <3>3. Current.t # t
      BY <2>4, <2>5, <3>2
    <3>4. Current.k = "assign"
      BY <1>1, <2>1, CurrentFacts
    <3> QED
      BY <3>3, <3>4 DEF AnalyzeStatement, StatementFlow
  <2>6. WellFormed(fs) /\ Pending(fs)
    BY <2>1, <2>4, <2>5, StepMoved
  <2> QED
    BY <1>3, <2>1, <2>3, <2>6
<1>8. ASSUME NEW k \in {"block", "if", "match"}, AtStatement(k),
             NEW inner \in Inner(Current), GoOn(Append(Rest, Block(inner)))
      PROVE  IInv'
  <2>1. WellFormed(Append(Rest, Block(inner))) /\ Pending(Append(Rest, Block(inner)))
    BY <1>8, StepInto
  <2> QED
    BY <1>3, <1>8, <2>1 DEF GoOn
<1>9. ASSUME NEW k \in {"while", "for"}, AtStatement(k), GoOn(Append(Rest, Loop(Current)))
      PROVE  IInv'
  <2>1. /\ Current.k = k /\ Top.ss # <<>> /\ frames # <<>> /\ DOMAIN frames = 1 .. Len(frames)
    BY <1>1, <1>9, CurrentFacts
  <2>2. /\ Rest \in Seq(Frames) /\ Moved(frames, Rest, {})
        /\ DOMAIN Rest = DOMAIN frames
        /\ \A i \in DOMAIN frames : Rest[i].unset = frames[i].unset /\ Rest[i].declared = frames[i].declared
    BY <1>1, <1>9, <2>1, RestMoved
  <2>3. \A t : AnalyzeStatement(Current, t) = "FallsThrough"
    BY <2>1 DEF AnalyzeStatement, StatementFlow
  <2>4. WellFormed(Rest) /\ Pending(Rest)
    BY <1>9, <2>2, <2>3, StepMoved
  <2> DEFINE F == Loop(Current)
  <2>5. /\ F \in Frames /\ Checked(F) /\ F.declared = {} /\ F.unset = {}
        /\ DeclaredWithin(F.ss) = DeclaredIn(Current)
        /\ ReadIn(F.ss) = ReadInStatement(Current)
    BY <1>1, <1>9, NestedLoop
  <2> HIDE DEF F
  <2>6. \A i \in DOMAIN Rest : Rest[i].declared \cap DeclaredWithin(F.ss) = {}
    BY <1>1, <2>1, <2>2, <2>5, NotDeclared
  <2>7. \A i \in DOMAIN Rest : \A t \in Rest[i].unset : t \notin ReadIn(F.ss)
    BY <1>1, <2>1, <2>2, <2>5, NotRead
  <2>8. WellFormed(Append(Rest, F)) /\ Pending(Append(Rest, F))
    BY <2>2, <2>4, <2>5, <2>6, <2>7, StepPushed
  <2> QED
    BY <1>3, <1>9, <2>8 DEF GoOn, F
<1>10. CASE AtLoop /\ GoOn(Append(frames, Block(Current.body)))
  <2>1. /\ Current.body \in Inner(Current)
        /\ Top.ss # <<>> /\ frames # <<>>
    BY <1>1, <1>10, LoopFacts DEF AtLoop, Running
  <2> DEFINE F == Block(Current.body)
  <2>2. /\ F \in Frames /\ Checked(F) /\ F.declared = {} /\ F.unset = {}
        /\ DeclaredWithin(F.ss) \subseteq DeclaredIn(Current)
        /\ ReadIn(F.ss) \subseteq ReadInStatement(Current)
    BY <1>1, <2>1, NestedBlock
  <2> HIDE DEF F
  <2>3. \A i \in DOMAIN frames : frames[i].declared \cap DeclaredWithin(F.ss) = {}
    BY <1>1, <2>1, <2>2, NotDeclared
  <2>4. \A i \in DOMAIN frames : \A t \in frames[i].unset : t \notin ReadIn(F.ss)
    BY <1>1, <2>1, <2>2, NotRead
  <2>5. WellFormed(Append(frames, F)) /\ Pending(Append(frames, F))
    BY <1>1, <2>2, <2>3, <2>4, StepPushed
  <2> QED
    BY <1>3, <1>10, <2>5 DEF GoOn, F
<1>11. CASE EndBlock \/ Iterate(FALSE) \/ Return \/ Break \/ Continue
  <2>1. program' = program
    BY <1>1, <1>11, DroppingSteps
  <2>2. PICK m \in 0 .. Len(frames) :
           /\ frames' = SubSeq(frames, 1, m)
           /\ \A i \in 1 .. m : \A k \in m + 1 .. Len(frames) :
                frames[i].unset # {} => \/ frames[k].ss = <<>>
                                        \/ \E j \in i + 1 .. k : frames[j].loop
    BY <1>1, <1>11, DroppingSteps
  <2>3. WellFormed(SubSeq(frames, 1, m)) /\ Pending(SubSeq(frames, 1, m))
    BY <1>1, <2>2, PrefixWellFormed, PrefixPending
  <2> QED
    BY <1>3, <2>1, <2>2, <2>3
<1>12. CASE UNCHANGED bodyVars
  BY <1>1, <1>2, <1>12 DEF bodyVars, IInv
<1> QED
  BY <1>1, <1>4, <1>5, <1>6, <1>7, <1>8, <1>9, <1>10, <1>11, <1>12, Steps

\* Whatever the conditions are, what is left to execute of an accepted body
\* assigns each variable that has no value before it reads it (see Pending).
THEOREM InductiveInvariant ==
  ASSUME NoShadowing
  PROVE  BodySpec => []IInv
<1>1. BodyInit => IInv
  BY InitInvariant
<1>2. IInv /\ [BodyNext]_bodyVars => IInv'
  BY StepInvariant
<1> QED
  BY <1>1, <1>2, PTL DEF BodySpec

LEMMA InvariantImpliesReadsAreSet == IInv => ReadsAreSet
<1> SUFFICES ASSUME IInv, NEW i \in DOMAIN frames, NEW t \in frames[i].unset, ReadingNext(t)
             PROVE  FALSE
  BY DEF ReadsAreSet
<1>1. frames \in Seq(Frames) /\ Pending(frames)
  BY DEF IInv, BodyTypeOK
<1>2. frames # <<>> /\ Top.ss # <<>> /\ t \in FirstReads(Current)
  BY DEF ReadingNext, Running
<1>3. t \in ReadInStatement(Current)
  BY <1>2 DEF ReadInStatement, Within
<1> QED
  BY <1>1, <1>2, <1>3, NotRead

\* No execution of a body that definite_assignment.rs accepts reads a variable
\* without a value, for every body in which none is shadowed.
THEOREM NoReadBeforeAssignment == BodySpec => []AssignedBeforeRead
<1>1. CASE NoShadowing
  <2>1. BodySpec => []IInv
    BY <1>1, InductiveInvariant
  <2>2. IInv => AssignedBeforeRead
    BY InvariantImpliesReadsAreSet DEF AssignedBeforeRead
  <2> QED
    BY <2>1, <2>2, PTL
<1>2. CASE ~NoShadowing
  <2>1. AssignedBeforeRead
    BY <1>2 DEF AssignedBeforeRead
  <2> QED
    BY <2>1, PTL
<1> QED
  BY <1>1, <1>2

-------------------------------------------------------------------------------
(* Paths.                                                                  *)

Exits == {"end", "return", "break", "continue", "unassigned"}

PathSets == SUBSET (Exits \X BOOLEAN)

LEMMA FromEnds ==
  ASSUME NEW p \in [BOOLEAN -> PathSets], NEW states \in SUBSET BOOLEAN
  PROVE  From(p, states) \in PathSets /\ Ends(From(p, states)) \in SUBSET BOOLEAN
<1>1. From(p, states) \in PathSets
  BY DEF From, PathSets
<1>2. \A q \in Exits \X BOOLEAN : q[2] \in BOOLEAN
  OBVIOUS
<1> QED
  BY <1>1, <1>2 DEF Ends, PathSets

\* The definition of StatesAfter.
LEMMA StatesAfterDefined ==
  ASSUME NEW n \in Nat, NEW through \in [1 .. n -> [BOOLEAN -> PathSets]], NEW from \in BOOLEAN
  PROVE  /\ StatesAfter(through, n, from) \in [0 .. n -> SUBSET BOOLEAN]
         /\ StatesAfter(through, n, from)[0] = {from}
         /\ \A i \in 1 .. n : StatesAfter(through, n, from)[i] =
              Ends(From(through[i], StatesAfter(through, n, from)[i - 1]))
<1> DEFINE D == 0 .. n
           V == SUBSET BOOLEAN
           rank == [d \in D |-> d]
           step(f, i) == IF i = 0 THEN {from} ELSE Ends(From(through[i], f[i - 1]))
           G == [f \in [D -> V] |-> [i \in D |-> step(f, i)]]
           after == StatesAfter(through, n, from)
<1>1. \A i \in D : i # 0 => i - 1 \in D /\ i \in 1 .. n /\ i - 1 < i
  OBVIOUS
<1>2. rank \in [D -> Nat] /\ \A d \in D : rank[d] = d
  OBVIOUS
<1>3. 0 \in D /\ \A i \in 1 .. n : i \in D /\ i # 0
  OBVIOUS
<1>4. after = CHOOSE f : f = [i \in D |-> step(f, i)]
  BY DEF StatesAfter
<1> HIDE DEF D, rank, after
<1>5. ASSUME NEW f \in [D -> V], NEW i \in D PROVE step(f, i) \in V
  <2>1. CASE i = 0
    BY <2>1
  <2>2. CASE i # 0
    <3>1. through[i] \in [BOOLEAN -> PathSets] /\ f[i - 1] \in SUBSET BOOLEAN
      BY <1>1, <2>2
    <3> QED
      BY <2>2, <3>1, FromEnds
  <2> QED
    BY <2>1, <2>2
<1>6. ASSUME NEW f, NEW h, NEW i \in D, \A e \in D : rank[e] < rank[i] => f[e] = h[e]
      PROVE  step(f, i) = step(h, i)
  <2>1. CASE i = 0
    BY <2>1
  <2>2. CASE i # 0
    <3>1. f[i - 1] = h[i - 1]
      BY <1>1, <1>2, <1>6, <2>2
    <3> QED
      BY <2>2, <3>1
  <2> QED
    BY <2>1, <2>2
<1> HIDE DEF step, V
<1>7. G \in [[D -> V] -> [D -> V]]
  BY <1>5
<1>8. \A f, h \in [D -> V] : \A i \in D :
         (\A e \in D : rank[e] < rank[i] => f[e] = h[e]) => G[f][i] = G[h][i]
  BY <1>6
<1>9. V # {}
  BY DEF V
<1>10. \E f \in [D -> V] : f = G[f]
  <2> HIDE DEF G
  <2>1. rank \in [D -> Nat]
    BY <1>2
  <2>2. Recursive(D, rank, V, G)
    BY <2>1, <1>7, <1>8, <1>9 DEF Recursive
  <2>3. HasFixedPoint(D, V, G)
    BY <2>2, Recursion
  <2> QED
    BY <2>3 DEF HasFixedPoint
<1>11. PICK f \in [D -> V] : f = [i \in D |-> step(f, i)]
  BY <1>10
<1>12. after = [i \in D |-> step(after, i)]
  BY <1>4, <1>11
<1>13. after = f
  <2> DEFINE S == {i \in D : after[i] = f[i]}
  <2>1. ASSUME NEW i \in D, \A e \in D : rank[e] < rank[i] => e \in S PROVE i \in S
    <3>1. step(after, i) = step(f, i)
      BY <1>6, <2>1
    <3> QED
      BY <1>11, <1>12, <3>1
  <2>2. D \subseteq S
    <3> HIDE DEF S
    <3> QED
      BY <1>2, <2>1, RankInduction
  <2> QED
    BY <1>11, <1>12, <2>2
<1>14. \A i \in D : after[i] = step(after, i)
  BY <1>12
<1>15. /\ after[0] = {from}
       /\ \A i \in 1 .. n : after[i] = Ends(From(through[i], after[i - 1]))
  BY <1>3, <1>14 DEF step
<1>16. after \in [D -> V]
  BY <1>11, <1>13
<1> QED
  BY <1>15, <1>16 DEF after, D, V


LEMMA RoutesTyped ==
  ASSUME NEW n \in Nat, NEW through \in [1 .. n -> [BOOLEAN -> PathSets]], NEW from \in BOOLEAN
  PROVE  Routes(through, n, from) \in PathSets
<1> DEFINE after == StatesAfter(through, n, from)
<1>1. after \in [0 .. n -> SUBSET BOOLEAN]
  BY StatesAfterDefined
<1>2. ASSUME NEW i \in 1 .. n PROVE From(through[i], after[i - 1]) \in PathSets
  <2>1. i - 1 \in 0 .. n
    OBVIOUS
  <2>2. after[i - 1] \in SUBSET BOOLEAN /\ through[i] \in [BOOLEAN -> PathSets]
    <3> HIDE DEF after
    <3> QED
      BY <1>1, <2>1
  <2> HIDE DEF after
  <2> QED
    BY <2>2, FromEnds
<1>3. after[n] \subseteq BOOLEAN
  <2>1. n \in 0 .. n
    OBVIOUS
  <2> HIDE DEF after
  <2> QED
    BY <1>1, <2>1
<1>4. Routes(through, n, from) =
        {<<"end", b>> : b \in after[n]} \cup
        {p \in UNION {From(through[i], after[i - 1]) : i \in 1 .. n} : p[1] # "end"}
  BY DEF Routes
<1> HIDE DEF after
<1>5. {<<"end", b>> : b \in after[n]} \in PathSets
  BY <1>3 DEF PathSets, Exits
<1>6. UNION {From(through[i], after[i - 1]) : i \in 1 .. n} \in PathSets
  BY <1>2 DEF PathSets
<1> QED
  BY <1>4, <1>5, <1>6 DEF PathSets

\* Paths through blocks, of a block, a variable, and whether it is assigned.
PathTables == [Slots -> [BOOLEAN -> PathSets]]

\* The paths through the blocks inside s.
Once(paths, s, t, from) == UNION {paths[inner][t][from] : inner \in Inner(s)}

\* The paths through s, from from.
ThroughFrom(paths, s, t, from) ==
  IF t \in FirstReads(s) /\ ~from THEN {<<"unassigned", FALSE>>}
  ELSE CASE s.k \in {"if", "match", "block"} -> Once(paths, s, t, from)
         [] s.k \in {"while", "for"} ->
              {<<"end", from>>} \cup
              {<<IF p[1] \in {"break", "continue"} THEN "end" ELSE p[1], p[2]>>
                 : p \in Once(paths, s, t, from)}
         [] s.k \in {"return", "break", "continue"} -> {<<s.k, from>>}
         [] s.k = "assign" -> {<<"end", from \/ s.t = t>>}
         [] OTHER -> {<<"end", from>>}

LEMMA ThroughIs ==
  ASSUME NEW paths, NEW s, NEW t
  PROVE  Through(paths, s, t) = [from \in BOOLEAN |-> ThroughFrom(paths, s, t, from)]
BY DEF Through, ThroughFrom, Once

LEMMA ThroughTyped ==
  ASSUME NEW paths \in [Blocks -> PathTables], NEW s \in Statements, NEW t \in Slots
  PROVE  Through(paths, s, t) \in [BOOLEAN -> PathSets]
<1> SUFFICES ASSUME NEW from \in BOOLEAN PROVE ThroughFrom(paths, s, t, from) \in PathSets
  BY ThroughIs
<1> DEFINE once == Once(paths, s, t, from)
<1>1. once \subseteq Exits \X BOOLEAN
  <2>1. \A inner \in Inner(s) : paths[inner][t][from] \in PathSets
    BY InnerFacts DEF PathTables
  <2> QED
    BY <2>1 DEF Once, PathSets
<1> HIDE DEF once
<1>2. {<<IF p[1] \in {"break", "continue"} THEN "end" ELSE p[1], p[2]>> : p \in once}
        \subseteq Exits \X BOOLEAN
  <2>1. ASSUME NEW p \in Exits \X BOOLEAN
        PROVE  <<IF p[1] \in {"break", "continue"} THEN "end" ELSE p[1], p[2]>> \in Exits \X BOOLEAN
    <3>1. p[1] \in Exits /\ p[2] \in BOOLEAN
      OBVIOUS
    <3>2. (IF p[1] \in {"break", "continue"} THEN "end" ELSE p[1]) \in Exits
      BY <3>1 DEF Exits
    <3> QED
      BY <3>1, <3>2
  <2> QED
    BY <1>1, <2>1
<1>3. \A b \in BOOLEAN : <<"end", b>> \in Exits \X BOOLEAN
  BY DEF Exits
<1>4. CASE t \in FirstReads(s) /\ ~from
  <2>1. ThroughFrom(paths, s, t, from) = {<<"unassigned", FALSE>>}
    BY <1>4 DEF ThroughFrom
  <2>2. <<"unassigned", FALSE>> \in Exits \X BOOLEAN
    BY DEF Exits
  <2> QED
    BY <2>1, <2>2 DEF PathSets
<1>5. CASE ~(t \in FirstReads(s) /\ ~from)
  <2>1. CASE s.k \in {"if", "match", "block"}
    <3>1. ThroughFrom(paths, s, t, from) = once
      BY <1>5, <2>1 DEF ThroughFrom, once
    <3> QED
      BY <1>1, <3>1 DEF PathSets
  <2>2. CASE s.k \in {"while", "for"}
    <3>1. ThroughFrom(paths, s, t, from) =
            {<<"end", from>>} \cup
            {<<IF p[1] \in {"break", "continue"} THEN "end" ELSE p[1], p[2]>> : p \in once}
      BY <1>5, <2>2 DEF ThroughFrom, once
    <3> QED
      BY <1>2, <1>3, <3>1 DEF PathSets
  <2>3. CASE s.k \in {"return", "break", "continue"}
    <3>1. ThroughFrom(paths, s, t, from) = {<<s.k, from>>}
      BY <1>5, <2>3 DEF ThroughFrom
    <3>2. s.k \in Exits
      BY <2>3 DEF Exits
    <3> QED
      BY <3>1, <3>2 DEF PathSets
  <2>4. CASE s.k = "assign"
    <3>1. ThroughFrom(paths, s, t, from) = {<<"end", from \/ s.t = t>>}
      BY <1>5, <2>4 DEF ThroughFrom
    <3>2. (from \/ s.t = t) \in BOOLEAN
      OBVIOUS
    <3> QED
      BY <1>3, <3>1, <3>2 DEF PathSets
  <2>5. CASE s.k \notin {"if", "match", "block", "while", "for", "return", "break", "continue", "assign"}
    <3>1. ThroughFrom(paths, s, t, from) = {<<"end", from>>}
      BY <1>5, <2>5 DEF ThroughFrom
    <3> QED
      BY <1>3, <3>1 DEF PathSets
  <2> QED
    BY <2>1, <2>2, <2>3, <2>4, <2>5
<1> QED
  BY <1>4, <1>5

LEMMA ThroughLocal ==
  ASSUME NEW f, NEW h, NEW s, \A inner \in Inner(s) : f[inner] = h[inner], NEW t
  PROVE  Through(f, s, t) = Through(h, s, t)
<1>1. ASSUME NEW from \in BOOLEAN PROVE ThroughFrom(f, s, t, from) = ThroughFrom(h, s, t, from)
  <2>1. {f[inner][t][from] : inner \in Inner(s)} = {h[inner][t][from] : inner \in Inner(s)}
    OBVIOUS
  <2>2. Once(f, s, t, from) = Once(h, s, t, from)
    BY <2>1 DEF Once
  <2> QED
    BY <2>2 DEF ThroughFrom
<1> QED
  BY <1>1, ThroughIs

LEMMA BlockRoutesTyped ==
  ASSUME NEW paths \in [Blocks -> PathTables], NEW ss \in Seq(Statements), NEW t \in Slots,
         NEW from \in BOOLEAN
  PROVE  BlockRoutes(paths, ss, t, from) \in PathSets
<1> DEFINE n == Len(ss)
           through == [i \in DOMAIN ss |-> Through(paths, ss[i], t)]
<1>1. n \in Nat /\ DOMAIN ss = 1 .. n /\ \A i \in 1 .. n : ss[i] \in Statements
  OBVIOUS
<1>2. through \in [1 .. n -> [BOOLEAN -> PathSets]]
  BY <1>1, ThroughTyped
<1>3. BlockRoutes(paths, ss, t, from) = Routes(through, n, from)
  BY DEF BlockRoutes
<1> HIDE DEF n, through
<1> QED
  BY <1>1, <1>2, <1>3, RoutesTyped

BlockTable(paths, ss) == [t \in Slots |-> [from \in BOOLEAN |-> BlockRoutes(paths, ss, t, from)]]

\* The definition of Paths.
LEMMA PathsDefined ==
  /\ Paths \in [Blocks -> PathTables]
  /\ \A ss \in Blocks : \A t \in Slots : \A from \in BOOLEAN :
       Paths[ss][t][from] = BlockRoutes(Paths, ss, t, from)
<1> DEFINE V == PathTables
           G == [f \in [Blocks -> V] |-> [ss \in Blocks |-> BlockTable(f, ss)]]
<1>1. ASSUME NEW f \in [Blocks -> V], NEW ss \in Blocks PROVE BlockTable(f, ss) \in V
  <2>1. \A t \in Slots : \A from \in BOOLEAN : BlockRoutes(f, ss, t, from) \in PathSets
    BY InnerFacts, BlockRoutesTyped
  <2> QED
    BY <2>1 DEF BlockTable, PathTables
<1>2. ASSUME NEW f, NEW h, NEW ss \in Blocks,
             \A inner \in InnerBlocks(ss) : f[inner] = h[inner]
      PROVE  BlockTable(f, ss) = BlockTable(h, ss)
  <2>1. ASSUME NEW s \in Elements(ss), NEW t PROVE Through(f, s, t) = Through(h, s, t)
    <3>1. \A inner \in Inner(s) : f[inner] = h[inner]
      BY <1>2 DEF InnerBlocks
    <3> QED
      BY <3>1, ThroughLocal
  <2>2. ASSUME NEW t
        PROVE  [i \in DOMAIN ss |-> Through(f, ss[i], t)] = [i \in DOMAIN ss |-> Through(h, ss[i], t)]
    BY <2>1 DEF Elements
  <2>3. \A t \in Slots : \A from \in BOOLEAN : BlockRoutes(f, ss, t, from) = BlockRoutes(h, ss, t, from)
    BY <2>2 DEF BlockRoutes
  <2> QED
    BY <2>3 DEF BlockTable
<1>3. \E f \in [Blocks -> V] : f = [ss \in Blocks |-> BlockTable(f, ss)]
  <2>1. G \in [[Blocks -> V] -> [Blocks -> V]]
    <3> HIDE DEF V
    <3> QED
      BY <1>1
  <2>2. \A f, h \in [Blocks -> V] : \A ss \in Blocks :
           (\A inner \in InnerBlocks(ss) : f[inner] = h[inner]) => G[f][ss] = G[h][ss]
    <3> HIDE DEF V
    <3> QED
      BY <1>2
  <2>3. V # {}
    <3>1. [t \in Slots |-> [from \in BOOLEAN |-> {}]] \in V
      BY DEF PathTables, PathSets
    <3> QED
      BY <3>1
  <2>4. \E f \in [Blocks -> V] : f = G[f]
    <3> HIDE DEF G, V
    <3>1. BlockRecursive(V, G)
      BY <2>1, <2>2, <2>3 DEF BlockRecursive
    <3>2. HasFixedPoint(Blocks, V, G)
      BY <3>1, BlockRecursion
    <3> QED
      BY <3>2 DEF HasFixedPoint
  <2> HIDE DEF V
  <2> QED
    BY <2>4
<1>4. Paths = CHOOSE f : f = [ss \in Blocks |-> BlockTable(f, ss)]
  BY DEF Paths, BlockTable
<1>5. Paths = [ss \in Blocks |-> BlockTable(Paths, ss)]
  BY <1>3, <1>4
<1>6. Paths \in [Blocks -> V]
  <2>1. PICK f \in [Blocks -> V] : f = [ss \in Blocks |-> BlockTable(f, ss)]
    BY <1>3
  <2> DEFINE S == {ss \in Blocks : f[ss] = Paths[ss]}
  <2>2. ASSUME NEW ss \in Blocks, InnerBlocks(ss) \subseteq S PROVE ss \in S
    <3>1. BlockTable(f, ss) = BlockTable(Paths, ss)
      <4>1. \A inner \in InnerBlocks(ss) : f[inner] = Paths[inner]
        BY <2>2
      <4> QED
        BY <1>2, <4>1
    <3>2. f[ss] = BlockTable(f, ss)
      BY <2>1
    <3>3. Paths[ss] = BlockTable(Paths, ss)
      BY <1>5
    <3> QED
      BY <3>1, <3>2, <3>3
  <2>3. Blocks \subseteq S
    <3> HIDE DEF S
    <3> QED
      BY <2>2, StructuralInduction
  <2> HIDE DEF V
  <2> QED
    BY <1>5, <2>1, <2>3
<1>7. \A ss \in Blocks : Paths[ss] = BlockTable(Paths, ss)
  BY <1>5
<1> QED
  BY <1>6, <1>7 DEF BlockTable


\* When every one of the first m statements can be passed without an
\* assignment, so can all of them.
LEMMA StatesPass ==
  ASSUME NEW n \in Nat, NEW through \in [1 .. n -> [BOOLEAN -> PathSets]], NEW m \in 0 .. n,
         \A i \in 1 .. m : <<"end", FALSE>> \in through[i][FALSE]
  PROVE  FALSE \in StatesAfter(through, n, FALSE)[m]
<1> DEFINE after == StatesAfter(through, n, FALSE)
           T == {k \in 0 .. m : FALSE \in after[k]}
<1>1. /\ after[0] = {FALSE}
      /\ \A i \in 1 .. n : after[i] = Ends(From(through[i], after[i - 1]))
  BY StatesAfterDefined
<1> HIDE DEF after
<1>2. m \in Nat /\ m \in 0 .. m
  OBVIOUS
<1>3. 0 \in T
  <2>1. 0 \in 0 .. m
    BY <1>2
  <2>2. FALSE \in after[0]
    BY <1>1
  <2> QED
    BY <2>1, <2>2
<1>4. ASSUME NEW k \in 0 .. m, k \in T, k # m PROVE k + 1 \in T
  <2>1. k + 1 \in 1 .. m /\ k + 1 \in 1 .. n /\ k + 1 \in 0 .. m /\ (k + 1) - 1 = k
    BY <1>4
  <2>2. PICK p : p = <<"end", FALSE>>
    OBVIOUS
  <2>3. p \in through[k + 1][FALSE] /\ p[1] = "end" /\ p[2] = FALSE
    BY <2>1, <2>2
  <2>4. FALSE \in after[k]
    BY <1>4
  <2>5. p \in From(through[k + 1], after[k])
    BY <2>3, <2>4 DEF From
  <2>6. FALSE \in Ends(From(through[k + 1], after[k]))
    BY <2>3, <2>5 DEF Ends
  <2>7. after[k + 1] = Ends(From(through[k + 1], after[k]))
    BY <1>1, <2>1
  <2> QED
    BY <2>1, <2>6, <2>7
<1>5. 0 .. m \subseteq T
  <2> HIDE DEF T
  <2> QED
    BY <1>2, <1>3, <1>4, Induction
<1> QED
  BY <1>2, <1>5 DEF after

\* A statement that falls through can be passed without an assignment, when
\* the blocks inside it that fall through can.
LEMMA StatementPasses ==
  ASSUME NEW s \in Statements, NEW t \in Slots,
         AnalyzeStatement(s, t) = "FallsThrough", t \notin FirstReads(s),
         \A inner \in Inner(s) :
            AnalyzeBlock[inner][t] = "FallsThrough" => <<"end", FALSE>> \in Paths[inner][t][FALSE]
  PROVE  <<"end", FALSE>> \in Through(Paths, s, t)[FALSE]
<1> SUFFICES <<"end", FALSE>> \in ThroughFrom(Paths, s, t, FALSE)
  BY ThroughIs
<1>1. ASSUME NEW inner \in Inner(s), AnalyzeBlock[inner][t] = "FallsThrough"
      PROVE  <<"end", FALSE>> \in Once(Paths, s, t, FALSE)
  BY <1>1 DEF Once
<1>2. CASE s.k \in {"if", "match", "block"}
  <2>1. ThroughFrom(Paths, s, t, FALSE) = Once(Paths, s, t, FALSE)
    BY <1>2 DEF ThroughFrom
  <2>2. CASE s.k = "block"
    <3>1. s.body \in Inner(s) /\ AnalyzeBlock[s.body][t] = "FallsThrough"
      BY <2>2 DEF Inner, AnalyzeStatement, StatementFlow
    <3> QED
      BY <1>1, <2>1, <3>1
  <2>3. CASE s.k \in {"if", "match"}
    <3> DEFINE flows == {AnalyzeBlock[inner][t] : inner \in Inner(s)}
    <3>1. CombineBranches(flows) = "FallsThrough"
      BY <2>3 DEF AnalyzeStatement, StatementFlow
    <3>2. flows \subseteq Flows
      BY AnalyzeBlockDefined, InnerFacts
    <3>3. "FallsThrough" \in flows
      <4> HIDE DEF flows
      <4> QED
        BY <3>1, <3>2 DEF CombineBranches, Flows
    <3> QED
      BY <1>1, <2>1, <3>3
  <2> QED
    BY <1>2, <2>2, <2>3
<1>3. CASE s.k \in {"while", "for"}
  BY <1>3 DEF ThroughFrom
<1>4. CASE s.k \in {"return", "break", "continue"}
  BY <1>4 DEF AnalyzeStatement, StatementFlow
<1>5. CASE s.k = "assign"
  <2>1. s.t # t
    BY <1>5 DEF AnalyzeStatement, StatementFlow
  <2>2. ThroughFrom(Paths, s, t, FALSE) = {<<"end", FALSE \/ s.t = t>>}
    BY <1>5 DEF ThroughFrom
  <2>3. (FALSE \/ s.t = t) = FALSE
    BY <2>1
  <2> QED
    BY <2>2, <2>3
<1>6. CASE s.k \notin {"if", "match", "block", "while", "for", "return", "break", "continue", "assign"}
  BY <1>6 DEF ThroughFrom
<1> QED
  BY <1>2, <1>3, <1>4, <1>5, <1>6

\* The paths through the statements of a sequence.
ThroughEach(ss, t) == [i \in DOMAIN ss |-> Through(Paths, ss[i], t)]

LEMMA ThroughAll ==
  ASSUME NEW ss \in Seq(Statements), NEW t \in Slots
  PROVE  /\ Len(ss) \in Nat /\ DOMAIN ss = 1 .. Len(ss)
         /\ ThroughEach(ss, t) \in [1 .. Len(ss) -> [BOOLEAN -> PathSets]]
         /\ \A i \in 1 .. Len(ss) : /\ ThroughEach(ss, t)[i] = Through(Paths, ss[i], t)
                                    /\ ss[i] \in Statements
         /\ BlockRoutes(Paths, ss, t, FALSE) = Routes(ThroughEach(ss, t), Len(ss), FALSE)
<1>1. Len(ss) \in Nat /\ DOMAIN ss = 1 .. Len(ss) /\ \A i \in 1 .. Len(ss) : ss[i] \in Statements
  OBVIOUS
<1>2. \A i \in 1 .. Len(ss) : ThroughEach(ss, t)[i] = Through(Paths, ss[i], t)
  BY <1>1 DEF ThroughEach
<1>3. \A i \in 1 .. Len(ss) : Through(Paths, ss[i], t) \in [BOOLEAN -> PathSets]
  BY <1>1, PathsDefined, ThroughTyped
<1>4. ThroughEach(ss, t) \in [1 .. Len(ss) -> [BOOLEAN -> PathSets]]
  BY <1>1, <1>3 DEF ThroughEach
<1>5. BlockRoutes(Paths, ss, t, FALSE) = Routes(ThroughEach(ss, t), Len(ss), FALSE)
  BY DEF BlockRoutes, ThroughEach
<1> QED
  BY <1>1, <1>2, <1>4, <1>5

\* t is not read in ss.
Quiet(ss, t) == \A b \in BlocksIn[ss] : \A s \in Elements(b) : t \notin FirstReads(s)

\* A block that does not read t and falls through can be passed without an
\* assignment to t.
LEMMA BlockPasses ==
  ASSUME NEW t \in Slots
  PROVE  \A ss \in Blocks : Quiet(ss, t) /\ AnalyzeBlock[ss][t] = "FallsThrough"
                              => <<"end", FALSE>> \in Paths[ss][t][FALSE]
<1> DEFINE S == {ss \in Blocks : Quiet(ss, t) /\ AnalyzeBlock[ss][t] = "FallsThrough"
                                   => <<"end", FALSE>> \in Paths[ss][t][FALSE]}
<1>1. ASSUME NEW ss \in Blocks, InnerBlocks(ss) \subseteq S,
             Quiet(ss, t), AnalyzeBlock[ss][t] = "FallsThrough"
      PROVE  <<"end", FALSE>> \in Paths[ss][t][FALSE]
  <2>1. BlocksIn[ss] = {ss} \cup UNION {BlocksIn[inner] : inner \in InnerBlocks(ss)}
    BY BlocksInDefined
  <2>2. \A s \in Elements(ss) : t \notin FirstReads(s)
    BY <1>1, <2>1 DEF Quiet
  <2>3. \A inner \in InnerBlocks(ss) : Quiet(inner, t)
    BY <1>1, <2>1 DEF Quiet
  <2>4. \A s \in Elements(ss) : AnalyzeStatement(s, t) = "FallsThrough"
    BY <1>1, BlockSettles
  <2>5. ss \in Seq(Statements) /\ Elements(ss) \subseteq Statements
    BY InnerFacts
  <2>6. ASSUME NEW s \in Elements(ss) PROVE <<"end", FALSE>> \in Through(Paths, s, t)[FALSE]
    <3>1. \A inner \in Inner(s) : inner \in S /\ Quiet(inner, t)
      BY <1>1, <2>3 DEF InnerBlocks
    <3> QED
      BY <2>2, <2>4, <2>5, <3>1, StatementPasses
  <2>7. PICK n : n = Len(ss)
    OBVIOUS
  <2>8. PICK through : through = ThroughEach(ss, t)
    OBVIOUS
  <2>9. /\ n \in Nat /\ DOMAIN ss = 1 .. n
        /\ through \in [1 .. n -> [BOOLEAN -> PathSets]]
        /\ \A i \in 1 .. n : through[i] = Through(Paths, ss[i], t)
        /\ BlockRoutes(Paths, ss, t, FALSE) = Routes(through, n, FALSE)
    BY <2>5, <2>7, <2>8, ThroughAll
  <2>10. \A i \in 1 .. n : <<"end", FALSE>> \in through[i][FALSE]
    BY <2>6, <2>9 DEF Elements
  <2>11. FALSE \in StatesAfter(through, n, FALSE)[n]
    <3>1. n \in 0 .. n
      BY <2>9
    <3> QED
      BY <2>9, <2>10, <3>1, StatesPass
  <2>12. <<"end", FALSE>> \in Routes(through, n, FALSE)
    BY <2>11 DEF Routes
  <2> QED
    BY <2>9, <2>12, PathsDefined
<1>2. \A ss \in Blocks : InnerBlocks(ss) \subseteq S => ss \in S
  BY <1>1
<1>3. Blocks \subseteq S
  <2> HIDE DEF S
  <2> QED
    BY <1>2, StructuralInduction
<1> QED
  BY <1>3

\* A sequence of statements that reads t too early, and not in a block inside
\* it, has a path that does.
LEMMA ReadHasPath ==
  ASSUME NEW ss \in Seq(Statements), NEW t \in Slots,
         ReadAtTopOnly(ss, t), ReadBeforeAssignment(ss, t)
  PROVE  SomePathReadsFirst(ss, t)
<1>1. PICK n : n = Len(ss)
  OBVIOUS
<1>2. PICK through : through = ThroughEach(ss, t)
  OBVIOUS
<1>3. /\ n \in Nat /\ DOMAIN ss = 1 .. n
      /\ through \in [1 .. n -> [BOOLEAN -> PathSets]]
      /\ \A i \in 1 .. n : through[i] = Through(Paths, ss[i], t) /\ ss[i] \in Statements
      /\ BlockRoutes(Paths, ss, t, FALSE) = Routes(through, n, FALSE)
  BY <1>1, <1>2, ThroughAll
<1> DEFINE R == {j \in 1 .. n : t \in FirstReads(ss[j])}
           after == StatesAfter(through, n, FALSE)
<1>4. \A i \in 1 .. n : \A inner \in Inner(ss[i]) : inner \in InnerBlocks(ss)
  BY <1>3 DEF InnerBlocks, Elements
<1>5. PICK l \in 1 .. n : /\ t \in ReadInStatement(ss[l])
                          /\ \A i \in 1 .. l - 1 : AnalyzeStatement(ss[i], t) = "FallsThrough"
  BY <1>3 DEF ReadBeforeAssignment
<1>6. l \in R
  <2>1. PICK w \in Within(ss[l]) : t \in FirstReads(w)
    BY <1>5 DEF ReadInStatement
  <2>2. CASE w # ss[l]
    <3>1. PICK inner \in Inner(ss[l]) : \E b \in BlocksIn[inner] : w \in Elements(b)
      BY <2>2 DEF Within
    <3>2. inner \in InnerBlocks(ss)
      BY <1>4
    <3> QED
      BY <2>1, <3>1, <3>2 DEF ReadAtTopOnly
  <2> QED
    BY <2>1, <2>2
<1>7. PICK j \in R : \A k \in R : ~(k < j)
  <2>1. R \in SUBSET Nat
    BY <1>3
  <2> HIDE DEF R
  <2> QED
    BY <1>6, <2>1, Smallest
<1>8. j \in 1 .. n /\ j - 1 \in 0 .. n /\ \A i \in 1 .. j - 1 : i \in 1 .. n /\ i < j /\ i \in 1 .. l - 1
  <2>1. ~(l < j)
    BY <1>6, <1>7
  <2>2. j \in 1 .. n
    BY <1>7
  <2> HIDE DEF R
  <2> QED
    BY <1>3, <2>1, <2>2
<1>9. ASSUME NEW i \in 1 .. j - 1 PROVE <<"end", FALSE>> \in through[i][FALSE]
  <2>1. i \in 1 .. n /\ i \notin R /\ AnalyzeStatement(ss[i], t) = "FallsThrough"
    BY <1>5, <1>7, <1>8
  <2>2. \A inner \in Inner(ss[i]) : inner \in Blocks /\ Quiet(inner, t)
    BY <1>3, <1>4, <2>1, InnerFacts DEF ReadAtTopOnly, Quiet
  <2>3. ss[i] \in Statements /\ t \notin FirstReads(ss[i])
    BY <1>3, <2>1
  <2>4. \A inner \in Inner(ss[i]) :
           AnalyzeBlock[inner][t] = "FallsThrough" => <<"end", FALSE>> \in Paths[inner][t][FALSE]
    BY <2>2, BlockPasses
  <2> QED
    BY <1>3, <2>1, <2>3, <2>4, StatementPasses
<1>10. FALSE \in after[j - 1]
  BY <1>3, <1>8, <1>9, StatesPass
<1>11. <<"unassigned", FALSE>> \in through[j][FALSE]
  <2>1. t \in FirstReads(ss[j])
    BY <1>7
  <2>2. ThroughFrom(Paths, ss[j], t, FALSE) = {<<"unassigned", FALSE>>}
    BY <2>1 DEF ThroughFrom
  <2> QED
    BY <1>3, <1>8, <2>2, ThroughIs
<1> HIDE DEF after, R
<1>12. <<"unassigned", FALSE>> \in Routes(through, n, FALSE)
  <2>1. PICK p : p = <<"unassigned", FALSE>>
    OBVIOUS
  <2>2. p[1] # "end"
    BY <2>1
  <2>3. p \in From(through[j], after[j - 1])
    BY <1>10, <1>11, <2>1 DEF From
  <2>4. p \in Routes(through, n, FALSE)
    BY <1>8, <2>2, <2>3 DEF Routes, after
  <2> QED
    BY <2>1, <2>4
<1>13. PICK p : p = <<"unassigned", FALSE>>
  OBVIOUS
<1>14. p[1] = "unassigned" /\ p \in BlockRoutes(Paths, ss, t, FALSE)
  BY <1>3, <1>12, <1>13
<1> QED
  BY <1>14 DEF SomePathReadsFirst

\* What is after a statement is a sequence of statements.
LEMMA AfterTyped ==
  ASSUME NEW ss \in Seq(Statements), NEW i \in DOMAIN ss
  PROVE  After(ss, i) \in Seq(Statements)
<1> DEFINE n == Len(ss)
<1>1. n \in Nat /\ i \in 1 .. n /\ \A j \in 1 .. n : ss[j] \in Statements
  OBVIOUS
<1>2. After(ss, i) = SubSeq(ss, i + 1, n)
  BY DEF After
<1> HIDE DEF n
<1>3. i + 1 \in Int /\ n \in Int /\ \A j \in i + 1 .. n : ss[j] \in Statements
  <2>1. \A j \in i + 1 .. n : j \in 1 .. n
    BY <1>1
  <2> QED
    BY <1>1, <2>1
<1> QED
  BY <1>2, <1>3, SubSeqProperties

\* For a variable that is only read in the block that declares it, definite
\* assignment refuses a body only when a path through its statements reads the
\* variable too early (check_definite_assignment, semantics/statements.rs).
THEOREM NoneRefusedWithoutAPath == BodySpec => []RefusedForAPath
<1>1. BodyTypeOK => RefusedForAPath
  <2> SUFFICES ASSUME BodyTypeOK, NEW ss \in BlocksOf(program), NEW i \in DOMAIN ss,
                      ss[i].k = "decl",
                      ReadAtTopOnly(After(ss, i), ss[i].t),
                      ReadBeforeAssignment(After(ss, i), ss[i].t)
               PROVE  SomePathReadsFirst(After(ss, i), ss[i].t)
    BY DEF RefusedForAPath
  <2>1. ss \in Seq(Statements)
    <3>1. program \in Seq(Statements)
      BY DEF BodyTypeOK
    <3>2. CASE ss = program
      BY <3>1, <3>2
    <3>3. CASE ss # program
      <4>1. PICK inner \in InnerBlocks(program) : ss \in BlocksIn[inner]
        BY <3>3 DEF BlocksOf
      <4>2. inner \in Blocks
        BY <3>1, InnerFacts
      <4>3. ss \in Blocks
        BY <4>1, <4>2, BlocksInDefined
      <4> QED
        BY <4>3, InnerFacts
    <3> QED
      BY <3>2, <3>3
  <2>2. ss[i].t \in Slots
    <3>1. ss[i] \in Statements
      BY <2>1
    <3> QED
      BY <3>1, PartsAreKnown
  <2> QED
    BY <2>1, <2>2, AfterTyped, ReadHasPath
<1> QED
  BY <1>1, BodyTypeCorrect, PTL

=============================================================================
