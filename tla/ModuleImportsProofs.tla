-------------------------- MODULE ModuleImportsProofs --------------------------
(***************************************************************************)
(* Proofs about the imports of modules, for every set of files and paths    *)
(* and every program.                                                       *)
(***************************************************************************)
EXTENDS ModuleImports, FiniteSetTheorems, SequenceTheorems, TLAPS

(* Where an analyzer stands: at a module of an import statement, or after   *)
(* the last one.                                                            *)
Standing(a) == a.next <= Len(Statements(a)) => a.part <= Len(Asked(a).parts)

(* What an analyzer that has an inner one waits for.                        *)
Waiting(a, b) ==
  /\ a.next <= Len(Statements(a))
  /\ Asked(a).parts[a.part].path = b.path

Placed ==
  /\ frames[1].file = Main
  /\ \A i \in 1 .. Len(frames) : Standing(frames[i])
  /\ \A i \in 2 .. Len(frames) : Waiting(frames[i - 1], frames[i])

(* Files whose AST resolve_import_path finds in the caches.                 *)
CachedFile(f) == canonicalCache[f] # NoPath /\ compiledModules[canonicalCache[f]] # NoFile

IsPart(path, file) == \E p \in AllParts : p.path = path /\ p.file = file

(* The caches have what was asked for, and a compiled module can be found.  *)
Caches ==
  /\ \A f \in Files : canonicalCache[f] # NoPath => IsPart(canonicalCache[f], f)
  /\ \A p \in Paths : compiledModules[p] # NoFile =>
       IsPart(p, compiledModules[p]) /\ CachedFile(compiledModules[p])

(* All that a cached file imports is cached, it has no errors and does not  *)
(* import itself.                                                           *)
Fine(f) == program.status[f] = "fine" /\ \A r \in Range(program.imports[f]) : r.clash = 0

Finished ==
  \A f \in Files : CachedFile(f) =>
    /\ \A g \in Imports(f) : CachedFile(g)
    /\ ~Leads(f, f)
    /\ Fine(f)

(* The analyzers are nested along imports, in files that were parsed.       *)
Chain ==
  /\ \A i \in 2 .. Len(frames) :
       /\ IsPart(frames[i].path, frames[i].file)
       /\ program.status[frames[i].file] \in {"fine", "illtyped"}
  /\ \A i, j \in 1 .. Len(frames) : i < j => Leads(frames[i].file, frames[j].file)

(* A file that is analysed and not cached is being imported, under a path   *)
(* of its own, and is what canonical_cache has the path for, unless it is   *)
(* analysed again further in or some analysis in it failed.                 *)
Marked ==
  \A i \in 2 .. Len(frames) : ~CachedFile(frames[i].file) =>
    /\ frames[i].path \in beingImported
    /\ \A j \in i + 1 .. Len(frames) :
         ~CachedFile(frames[j].file) => frames[i].path # frames[j].path
    /\ \/ canonicalCache[frames[i].file] = frames[i].path
       \/ \E j \in i + 1 .. Len(frames) : frames[j].file = frames[i].file
       \/ \E j \in i .. Len(frames) : frames[j].failed

(* As long as an analyzer has not failed, what it has imported is cached.   *)
Done(a) ==
  /\ \A k \in 1 .. Len(Statements(a)) : k < a.next =>
       /\ Statements(a)[k].clash = 0
       /\ \A m \in 1 .. Len(Statements(a)[k].parts) : CachedFile(Statements(a)[k].parts[m].file)
  /\ a.next <= Len(Statements(a)) =>
       /\ Asked(a).clash = 0 \/ a.part <= Asked(a).clash
       /\ \A m \in 1 .. Len(Asked(a).parts) : m < a.part => CachedFile(Asked(a).parts[m].file)

Progress == \A a \in Range(frames) : ~a.failed => Done(a)

(* Programs that have to be accepted.                                       *)
Acceptable == Sound /\ NoFileAstray

(* Programs in which no path stays marked as being imported.                *)
Unmarking ==
  \/ Acceptable
  \/ /\ \A f \in Files : program.status[f] # "unparsable"
     /\ \A r \in AllRequests : r.dir \/ r.clash = 0

Marks == Unmarking => beingImported \subseteq {frames[i].path : i \in 2 .. Len(frames)}

(* An acceptable program never fails.                                       *)
Verdict ==
  /\ Acceptable => \A i \in 1 .. Len(frames) : ~frames[i].failed
  /\ result = "accepted" => Sound /\ \A i \in 1 .. Len(frames) : ~frames[i].failed
  /\ result = "rejected" => ~Acceptable

(* An analyzer knows the file it is in, or it is in a module with another   *)
(* path and has made its file up.                                           *)
Astray(a) ==
  /\ a.home = MadeUp[a.path]
  /\ IsPart(a.path, a.file)
  /\ \E q \in Paths : q # a.path /\ IsPart(q, a.file)

AtHome(a) == a.home = a.file \/ Astray(a)

(* A path under which a file was parsed is known with the file.             *)
Homes ==
  /\ \A p \in Paths : moduleFileIds[p] # NoFile => IsPart(p, moduleFileIds[p])
  /\ \A f \in Files : canonicalCache[f] # NoPath => moduleFileIds[canonicalCache[f]] # NoFile
  /\ \A a \in Range(frames) : AtHome(a)

Nesting ==
  Caches /\ Finished /\ Chain /\ Marked /\ Progress /\ Marks /\ Verdict /\ CyclesAreReal

Core == TypeOK /\ Placed /\ (OneFilePerPath => Nesting)

IInv == Core /\ (OneFilePerPath => Homes)

-----------------------------------------------------------------------------


USE ImportsAssumption

(* A number up to a bound is the bound or below it.                         *)
LEMMA Below ==
  ASSUME NEW n \in Nat, NEW i \in 1 .. n
  PROVE  i = n \/ i < n
OBVIOUS

(***************************************************************************)
(* Induction, for sets of numbers: a set that has 0 and every successor     *)
(* has every number up to m, or what it has of them would be finite and     *)
(* closed under a one-to-one map that misses 0.                             *)
(***************************************************************************)
LEMMA Induction ==
  ASSUME NEW m \in Nat, NEW T, 0 \in T, \A n \in 0 .. m : n \in T /\ n # m => n + 1 \in T
  PROVE  0 .. m \subseteq T
<1> SUFFICES ASSUME NEW k \in 0 .. m, k \notin T PROVE FALSE
  OBVIOUS
<1> DEFINE L == {n \in 0 .. k : n \in T}
           f == [n \in L |-> n + 1]
<1>1. IsFiniteSet(L)
  <2>1. IsFiniteSet(0 .. k)
    BY FS_Interval
  <2> QED
    BY <2>1, FS_Subset
<1>2. \A n \in L : n + 1 \in L
  BY SMT
<1>3. f \in Injection(L, L)
  BY <1>2 DEF Injection, IsInjective
<1>4. f \in Surjection(L, L)
  <2> HIDE DEF L, f
  <2> QED
    BY <1>1, <1>3, FS_Injection
<1>5. 0 \in L
  OBVIOUS
<1>6. PICK n \in L : f[n] = 0
  BY <1>4, <1>5 DEF Surjection
<1> QED
  BY <1>6

(***************************************************************************)
(* Absorb.                                                                  *)
(***************************************************************************)
Absorbing(deps, others) ==
  CHOOSE after : after = [i \in 0 .. Len(others) |->
                            IF i = 0 THEN deps
                            ELSE IF others[i] \in Range(after[i - 1]) THEN after[i - 1]
                            ELSE Append(after[i - 1], others[i])]

LEMMA AbsorbDefined ==
  ASSUME NEW deps \in Seq(Paths), NEW others \in Seq(Paths)
  PROVE  \E after \in [0 .. Len(others) -> Seq(Paths)] :
            /\ Absorb(deps, others) = after[Len(others)]
            /\ after[0] = deps
            /\ \A i \in 1 .. Len(others) :
                 after[i] = IF others[i] \in Range(after[i - 1]) THEN after[i - 1]
                            ELSE Append(after[i - 1], others[i])
<1> DEFINE n == Len(others)
           Step(g, i) == IF i = 0 THEN deps
                         ELSE IF others[i] \in Range(g[i - 1]) THEN g[i - 1]
                         ELSE Append(g[i - 1], others[i])
           T == {m \in 0 .. n : \E g \in [0 .. m -> Seq(Paths)] : \A i \in 0 .. m : g[i] = Step(g, i)}
<1>0. n \in Nat /\ \A i \in 1 .. n : others[i] \in Paths
  BY LenProperties, ElementOfSeq
<1>1. 0 \in T
  <2> DEFINE g == [i \in 0 .. 0 |-> deps]
  <2>1. g \in [0 .. 0 -> Seq(Paths)] /\ \A i \in 0 .. 0 : g[i] = Step(g, i)
    OBVIOUS
  <2>2. 0 \in 0 .. n
    BY <1>0
  <2> HIDE DEF g, Step
  <2> QED
    BY <2>1, <2>2
<1>2. ASSUME NEW m \in 0 .. n, m \in T, m # n PROVE m + 1 \in T
  <2>1. PICK g \in [0 .. m -> Seq(Paths)] : \A i \in 0 .. m : g[i] = Step(g, i)
    BY <1>2
  <2> DEFINE next == IF others[m + 1] \in Range(g[m]) THEN g[m] ELSE Append(g[m], others[m + 1])
             h == [i \in 0 .. m + 1 |-> IF i = m + 1 THEN next ELSE g[i]]
  <2>2. next \in Seq(Paths)
    <3>1. others[m + 1] \in Paths /\ g[m] \in Seq(Paths)
      BY <1>0, <1>2
    <3> QED
      BY <3>1, AppendProperties
  <2>3. h \in [0 .. m + 1 -> Seq(Paths)]
    BY <2>2
  <2>4. \A i \in 0 .. m : h[i] = g[i]
    OBVIOUS
  <2>5. h[m + 1] = Step(h, m + 1)
    BY <2>4
  <2>6. ASSUME NEW i \in 0 .. m PROVE h[i] = Step(h, i)
    <3>1. h[i] = g[i] /\ (i # 0 => i - 1 \in 0 .. m)
      BY <2>4
    <3>2. i # 0 => h[i - 1] = g[i - 1]
      BY <2>4, <3>1
    <3>3. g[i] = Step(g, i)
      BY <2>1
    <3> HIDE DEF h, next
    <3>4. Step(h, i) = Step(g, i)
      <4>1. CASE i = 0
        BY <4>1
      <4>2. CASE i # 0
        BY <3>2, <4>2
      <4> QED
        BY <4>1, <4>2
    <3> HIDE DEF Step
    <3> QED
      BY <3>1, <3>3, <3>4
  <2>7. \A i \in 0 .. m + 1 : h[i] = Step(h, i)
    <3>1. \A i \in 0 .. m + 1 : i \in 0 .. m \/ i = m + 1
      BY <1>0
    <3> HIDE DEF h, next, Step
    <3> QED
      BY <2>5, <2>6, <3>1
  <2>8. m + 1 \in 0 .. n
    BY <1>0, <1>2
  <2> HIDE DEF h, next, Step
  <2>9. \E q \in [0 .. m + 1 -> Seq(Paths)] : \A i \in 0 .. m + 1 : q[i] = Step(q, i)
    <3> HIDE DEF T
    <3> QED
      BY <2>3, <2>7
  <2> QED
    BY <2>8, <2>9, Zenon
<1>3. n \in T
  <2>1. n \in Nat /\ \A m \in 0 .. n : m \in T /\ m # n => m + 1 \in T
    <3> HIDE DEF T, n
    <3> QED
      BY <1>0, <1>2
  <2>2. 0 .. n \subseteq T
    <3> HIDE DEF T, n
    <3> QED
      BY <1>1, <2>1, Induction
  <2>3. n \in 0 .. n
    BY <2>1
  <2> QED
    BY <2>2, <2>3, Zenon
<1>4. PICK g \in [0 .. n -> Seq(Paths)] : \A i \in 0 .. n : g[i] = Step(g, i)
  BY <1>3
<1>5. g = [i \in 0 .. n |-> Step(g, i)]
  BY <1>4
<1> DEFINE after == Absorbing(deps, others)
<1>6. after = [i \in 0 .. n |-> Step(after, i)]
  BY <1>5 DEF Absorbing
<1>7. Absorb(deps, others) = after[n]
  BY DEF Absorb, Absorbing
<1> HIDE DEF after, T
<1>8. after = [i \in 0 .. n |-> after[i]]
  BY <1>6
<1>9. after[0] = deps
  BY <1>0, <1>6
<1>10. ASSUME NEW i \in 1 .. n
       PROVE  after[i] = IF others[i] \in Range(after[i - 1]) THEN after[i - 1]
                         ELSE Append(after[i - 1], others[i])
  <2>1. i \in 0 .. n /\ i # 0
    BY <1>0
  <2>2. after[i] = Step(after, i)
    <3> HIDE DEF Step
    <3> QED
      BY <1>6, <2>1
  <2> QED
    BY <2>1, <2>2
<1> DEFINE U == {i \in 0 .. n : after[i] \in Seq(Paths)}
<1>11. 0 \in U
  BY <1>0, <1>9
<1>12. \A i \in 0 .. n : i \in U /\ i # n => i + 1 \in U
  <2> SUFFICES ASSUME NEW i \in 0 .. n, i \in U, i # n PROVE i + 1 \in U
    OBVIOUS
  <2> HIDE DEF Step
  <2>1. i + 1 \in 1 .. n /\ i + 1 \in 0 .. n /\ i + 1 - 1 = i
    BY <1>0
  <2>2. after[i] \in Seq(Paths) /\ others[i + 1] \in Paths
    BY <1>0, <2>1
  <2>3. PICK j : j = i + 1
    OBVIOUS
  <2>4. j \in 1 .. n /\ j - 1 = i
    BY <2>1, <2>3
  <2>5. after[j] = IF others[j] \in Range(after[j - 1]) THEN after[j - 1]
                   ELSE Append(after[j - 1], others[j])
    <3> HIDE DEF n, after, U
    <3> QED
      BY <1>10, <2>4
  <2>6. after[j] = after[i] \/ after[j] = Append(after[i], others[j])
    BY <2>4, <2>5
  <2>7. after[j] \in Seq(Paths)
    <3>1. after[i] \in Seq(Paths) /\ others[j] \in Paths
      BY <2>2, <2>3
    <3>2. Append(after[i], others[j]) \in Seq(Paths)
      BY <3>1, AppendProperties
    <3> QED
      BY <2>6, <3>1, <3>2
  <2> QED
    BY <2>1, <2>3, <2>7
<1>13. 0 .. n \subseteq U
  <2> HIDE DEF U, n, Step
  <2> QED
    BY <1>0, <1>11, <1>12, Induction
<1>14. \A i \in 0 .. n : after[i] \in Seq(Paths)
  BY <1>13, Zenon
<1>15. after \in [0 .. n -> Seq(Paths)]
  <2> HIDE DEF U, Step
  <2> QED
    BY <1>8, <1>14
<1> HIDE DEF U, Step
<1> QED
  BY <1>7, <1>9, <1>10, <1>15

LEMMA Absorbed ==
  ASSUME NEW deps \in Seq(Paths), NEW others \in Seq(Paths)
  PROVE  Absorb(deps, others) \in Seq(Paths)
<1>1. Len(others) \in 0 .. Len(others)
  BY LenProperties
<1>2. PICK after \in [0 .. Len(others) -> Seq(Paths)] : Absorb(deps, others) = after[Len(others)]
  BY AbsorbDefined
<1> QED
  BY <1>1, <1>2

(***************************************************************************)
(* Programs.                                                                *)
(***************************************************************************)
LEMMA Statuses ==
  ASSUME TypeOK
  PROVE  /\ program.status \in [Files -> Status] /\ program.status[Main] \in {"fine", "illtyped"}
         /\ \A f \in Files : program.imports[f] \in Seq(Request)
  BY DEF TypeOK, IsProgram

(* An import statement of a file.                                           *)
LEMMA Imported ==
  ASSUME TypeOK, NEW f \in Files, NEW i \in 1 .. Len(program.imports[f])
  PROVE  LET r == program.imports[f][i]
         IN  /\ r \in Request /\ r \in Range(program.imports[f]) /\ r \in AllRequests
             /\ r.parts \in Seq(Part) /\ Len(r.parts) \in Nat \ {0}
             /\ r.clash \in Nat /\ r.clash <= Len(r.parts) /\ r.dir \in BOOLEAN
             /\ ~r.dir => Len(r.parts) = 1
             /\ \A m \in 1 .. Len(r.parts) :
                  /\ r.parts[m].path \in Paths /\ r.parts[m].file \in Files
                  /\ r.parts[m] \in PartsOf(f) /\ r.parts[m].file \in Imports(f)
                  /\ IsPart(r.parts[m].path, r.parts[m].file)
<1> DEFINE r == program.imports[f][i]
<1>1. /\ program.imports[f] \in Seq(Request) /\ i \in DOMAIN program.imports[f]
  BY Statuses, LenProperties
<1>2. r \in Request /\ r \in Range(program.imports[f]) /\ r \in AllRequests
  <2>1. r \in Request
    BY <1>1, ElementOfSeq
  <2>2. r \in Range(program.imports[f])
    BY <1>1 DEF Range
  <2> QED
    BY <2>1, <2>2 DEF AllRequests
<1>3. /\ r.parts # <<>> /\ r.clash <= Len(r.parts)
      /\ ~r.dir => Len(r.parts) = 1
  BY <1>1 DEF TypeOK, IsProgram
<1>4. r.parts \in Seq(Part) /\ r.clash \in Nat /\ r.dir \in BOOLEAN
  BY <1>2 DEF Request
<1>5. Len(r.parts) \in Nat \ {0} /\ DOMAIN r.parts = 1 .. Len(r.parts)
  BY <1>3, <1>4, EmptySeq, LenProperties
<1>6. ASSUME NEW m \in 1 .. Len(r.parts)
      PROVE  /\ r.parts[m].path \in Paths /\ r.parts[m].file \in Files
             /\ r.parts[m] \in PartsOf(f) /\ r.parts[m].file \in Imports(f)
             /\ IsPart(r.parts[m].path, r.parts[m].file)
  <2>1. r.parts[m] \in Part /\ r.parts[m] \in Range(r.parts)
    <3>1. r.parts[m] \in Part
      BY <1>4, <1>5, ElementOfSeq
    <3> QED
      BY <3>1, <1>5 DEF Range
  <2>2. r.parts[m].path \in Paths /\ r.parts[m].file \in Files
    BY <2>1 DEF Part
  <2>3. r.parts[m] \in AllParts
    BY <1>2, <2>1 DEF AllParts
  <2>4. r.parts[m] \in PartsOf(f)
    BY <1>2, <2>1 DEF PartsOf
  <2> QED
    BY <2>2, <2>3, <2>4 DEF Imports, IsPart
<1> HIDE DEF r
<1>7. /\ r \in Request /\ r \in Range(program.imports[f]) /\ r \in AllRequests
      /\ r.parts \in Seq(Part) /\ Len(r.parts) \in Nat \ {0}
      /\ r.clash \in Nat /\ r.clash <= Len(r.parts) /\ r.dir \in BOOLEAN
      /\ ~r.dir => Len(r.parts) = 1
      /\ \A m \in 1 .. Len(r.parts) :
           /\ r.parts[m].path \in Paths /\ r.parts[m].file \in Files
           /\ r.parts[m] \in PartsOf(f) /\ r.parts[m].file \in Imports(f)
           /\ IsPart(r.parts[m].path, r.parts[m].file)
  BY <1>2, <1>3, <1>4, <1>5, <1>6
<1> QED
  BY <1>7 DEF r

(* The files a file imports are those of its import statements.             *)
LEMMA ImportsOf ==
  ASSUME TypeOK, NEW f \in Files
  PROVE  /\ Imports(f) \subseteq Files
         /\ \A g \in Imports(f) :
              \E i \in 1 .. Len(program.imports[f]) :
                \E m \in 1 .. Len(program.imports[f][i].parts) :
                  program.imports[f][i].parts[m].file = g
         /\ \A r \in Range(program.imports[f]) :
              \E i \in 1 .. Len(program.imports[f]) : r = program.imports[f][i]
<1>1. program.imports[f] \in Seq(Request)
  BY Statuses
<1>2. \A r \in Range(program.imports[f]) :
        \E i \in 1 .. Len(program.imports[f]) : r = program.imports[f][i]
  BY <1>1, LenProperties DEF Range
<1>3. ASSUME NEW g \in Imports(f)
      PROVE  \E i \in 1 .. Len(program.imports[f]) :
               \E m \in 1 .. Len(program.imports[f][i].parts) :
                 program.imports[f][i].parts[m].file = g
  <2>1. PICK r \in Range(program.imports[f]) : \E p \in Range(r.parts) : p.file = g
    BY <1>3 DEF Imports, PartsOf
  <2>2. PICK i \in 1 .. Len(program.imports[f]) : r = program.imports[f][i]
    BY <1>2
  <2>3. r.parts \in Seq(Part)
    BY <2>2, Imported
  <2>4. \A p \in Range(r.parts) : \E m \in 1 .. Len(r.parts) : p = r.parts[m]
    BY <2>3, LenProperties DEF Range
  <2> QED
    BY <2>1, <2>2, <2>4
<1>4. ASSUME NEW g \in Imports(f) PROVE g \in Files
  <2>1. PICK i \in 1 .. Len(program.imports[f]) :
           \E m \in 1 .. Len(program.imports[f][i].parts) : program.imports[f][i].parts[m].file = g
    BY <1>3
  <2>2. \A m \in 1 .. Len(program.imports[f][i].parts) : program.imports[f][i].parts[m].file \in Files
    BY Imported
  <2> QED
    BY <2>1, <2>2
<1> QED
  BY <1>2, <1>3, <1>4

LEMMA Led ==
  ASSUME TypeOK
  PROVE  /\ \A f \in Files : \A g \in Imports(f) : Leads(f, g)
         /\ \A f, h \in Files : Leads(f, h) => \A g \in Imports(h) : Leads(f, g)
         /\ \A f \in Files : \A C \in SUBSET Files :
              (/\ Imports(f) \subseteq C
               /\ \A h \in C : Imports(h) \subseteq C)
              => \A g : Leads(f, g) => g \in C
  BY DEF Leads

LEMMA SameProgram ==
  ASSUME program' = program
  PROVE  /\ \A f : Imports(f)' = Imports(f) /\ PartsOf(f)' = PartsOf(f)
         /\ \A f, g : Leads(f, g)' <=> Leads(f, g)
         /\ \A p, f : IsPart(p, f)' <=> IsPart(p, f)
         /\ \A f : Fine(f)' <=> Fine(f)
         /\ OneFilePerPath' <=> OneFilePerPath
         /\ Sound' <=> Sound
         /\ Acceptable' <=> Acceptable
         /\ Unmarking' <=> Unmarking
<1>1. \A f : Imports(f)' = Imports(f) /\ PartsOf(f)' = PartsOf(f)
  BY DEF Imports, PartsOf
<1>2. \A f, g : Leads(f, g)' <=> Leads(f, g)
  BY DEF Leads, Imports, PartsOf
<1>3. AllRequests' = AllRequests /\ AllParts' = AllParts
  BY DEF AllRequests, AllParts
<1>4. \A p, f : IsPart(p, f)' <=> IsPart(p, f)
  BY <1>3 DEF IsPart
<1>5. \A f : Fine(f)' <=> Fine(f)
  BY DEF Fine
<1>6. OneFilePerPath' <=> OneFilePerPath
  BY <1>3 DEF OneFilePerPath, PartsOf
<1>7. Sound' <=> Sound
  BY DEF Sound, Analysable, Leads, Imports, PartsOf
<1>8. Acceptable' <=> Acceptable
  BY <1>3, <1>7 DEF Acceptable, NoFileAstray, PartsOf
<1>9. Unmarking' <=> Unmarking
  BY <1>3, <1>8 DEF Unmarking
<1> QED
  BY <1>1, <1>2, <1>4, <1>5, <1>6, <1>7, <1>8, <1>9

(***************************************************************************)
(* Analyzers.                                                               *)
(***************************************************************************)
LEMMA Fields ==
  ASSUME NEW a \in Frame
  PROVE  /\ a.path \in Paths \cup {NoPath} /\ a.file \in Files /\ a.home \in Files
         /\ a.next \in Nat \ {0}
         /\ a.part \in Nat \ {0} /\ a.failed \in BOOLEAN /\ a.deps \in Seq(Paths)
  BY DEF Frame

LEMMA NoDeps == <<>> \in Seq(Paths)
  BY EmptySeq

(* One field of an analyzer changes.                                        *)
LEMMA Changing ==
  ASSUME NEW a \in Frame
  PROVE  /\ \A n \in Nat \ {0} :
              LET b == [a EXCEPT !.next = n]
              IN  /\ b \in Frame /\ b.path = a.path /\ b.file = a.file /\ b.failed = a.failed
                  /\ b.next = n /\ b.part = a.part
         /\ \A n \in Nat \ {0} :
              LET b == [a EXCEPT !.part = n]
              IN  /\ b \in Frame /\ b.path = a.path /\ b.file = a.file /\ b.failed = a.failed
                  /\ b.next = a.next /\ b.part = n
         /\ LET b == [a EXCEPT !.pass = "body"]
            IN  /\ b \in Frame /\ b.path = a.path /\ b.file = a.file /\ b.failed = a.failed
                /\ b.next = a.next /\ b.part = a.part
         /\ \A d \in Seq(Paths) :
              LET b == [a EXCEPT !.deps = d]
              IN  /\ b \in Frame /\ b.path = a.path /\ b.file = a.file /\ b.failed = a.failed
                  /\ b.next = a.next /\ b.part = a.part
  BY DEF Frame

LEMMA GoneWrong ==
  ASSUME NEW a \in Frame
  PROVE  LET b == [a EXCEPT !.failed = TRUE]
         IN  /\ b \in Frame /\ b.path = a.path /\ b.file = a.file /\ b.failed = TRUE
             /\ b.part = a.part
  BY DEF Frame

LEMMA Succeeding ==
  ASSUME NEW a \in Frame
  PROVE  LET b == Succeeded(a)
         IN  /\ b \in Frame /\ b.path = a.path /\ b.file = a.file /\ b.failed = a.failed
             /\ b.next = a.next + 1 /\ b.part = 1
<1> DEFINE b == [a EXCEPT !.next = a.next + 1]
<1>1. a.next + 1 \in Nat \ {0}
  BY Fields
<1>2. b \in Frame /\ b.path = a.path /\ b.file = a.file /\ b.failed = a.failed /\ b.next = a.next + 1
  BY <1>1, Changing
<1>3. Succeeded(a) = [b EXCEPT !.part = 1] /\ 1 \in Nat \ {0}
  BY DEF Succeeded
<1> HIDE DEF b
<1>4. LET c == [b EXCEPT !.part = 1]
      IN  /\ c \in Frame /\ c.path = b.path /\ c.file = b.file /\ c.failed = b.failed
          /\ c.next = b.next /\ c.part = 1
  BY <1>2, <1>3, Changing
<1> QED
  BY <1>2, <1>3, <1>4

LEMMA HoistEnding ==
  ASSUME NEW a \in Frame
  PROVE  LET b == [a EXCEPT !.pass = "body", !.failed = TRUE]
         IN  /\ b \in Frame /\ b.path = a.path /\ b.file = a.file /\ b.failed = TRUE
             /\ b.part = a.part
<1> DEFINE b == [a EXCEPT !.pass = "body"]
<1>1. b \in Frame /\ b.path = a.path /\ b.file = a.file /\ b.part = a.part
  BY Changing
<1>2. [a EXCEPT !.pass = "body", !.failed = TRUE] = [b EXCEPT !.failed = TRUE]
  OBVIOUS
<1> HIDE DEF b
<1> QED
  BY <1>1, <1>2, GoneWrong

LEMMA Failing ==
  ASSUME NEW a \in Frame
  PROVE  LET b == Failed(a)
         IN  b \in Frame /\ b.path = a.path /\ b.file = a.file /\ b.failed = TRUE /\ b.part = 1
<1>1. CASE a.pass = "hoist"
  <2> DEFINE b == [a EXCEPT !.part = 1]
  <2>1. b \in Frame /\ b.path = a.path /\ b.file = a.file /\ b.part = 1
    <3>1. 1 \in Nat \ {0}
      OBVIOUS
    <3> QED
      BY <3>1, Changing
  <2>2. Failed(a) = [b EXCEPT !.pass = "body", !.failed = TRUE]
    BY <1>1 DEF Failed
  <2> HIDE DEF b
  <2> QED
    BY <2>1, <2>2, HoistEnding
<1>2. CASE a.pass # "hoist"
  <2> DEFINE b == Succeeded(a)
  <2>1. Failed(a) = [b EXCEPT !.failed = TRUE]
    BY <1>2 DEF Failed
  <2>2. b \in Frame /\ b.path = a.path /\ b.file = a.file /\ b.part = 1
    BY Succeeding
  <2> HIDE DEF b
  <2> QED
    BY <2>1, <2>2, GoneWrong
<1> QED
  BY <1>1, <1>2

LEMMA Stack ==
  ASSUME TypeOK
  PROVE  /\ Len(frames) \in Nat \ {0}
         /\ \A i \in 1 .. Len(frames) : frames[i] \in Frame
         /\ Top \in Frame /\ Top = frames[Len(frames)]
         /\ Len(frames) > 1 => Caller \in Frame /\ Caller = frames[Len(frames) - 1]
<1>1. frames \in Seq(Frame) /\ frames # <<>>
  BY DEF TypeOK
<1>2. Len(frames) \in Nat \ {0} /\ DOMAIN frames = 1 .. Len(frames)
  BY <1>1, LenProperties, EmptySeq
<1>3. \A i \in 1 .. Len(frames) : frames[i] \in Frame
  BY <1>1, <1>2, ElementOfSeq
<1> QED
  BY <1>2, <1>3 DEF Top, Caller

LEMMA TopReplaced ==
  ASSUME TypeOK, NEW b \in Frame
  PROVE  /\ WithTop(b) \in Seq(Frame) /\ Len(WithTop(b)) = Len(frames)
         /\ \A i \in 1 .. Len(frames) :
              WithTop(b)[i] = IF i = Len(frames) THEN b ELSE frames[i]
<1>1. frames \in Seq(Frame) /\ Len(frames) \in 1 .. Len(frames)
  BY Stack DEF TypeOK
<1> QED
  BY <1>1, ExceptSeq DEF WithTop

LEMMA CallerReplaced ==
  ASSUME TypeOK, Len(frames) > 1, NEW b \in Frame
  PROVE  /\ WithCaller(b) \in Seq(Frame) /\ Len(WithCaller(b)) = Len(frames) - 1
         /\ \A i \in 1 .. Len(frames) - 1 :
              WithCaller(b)[i] = IF i = Len(frames) - 1 THEN b ELSE frames[i]
<1>1. /\ frames \in Seq(Frame) /\ Len(frames) \in Nat
      /\ \A i \in 1 .. Len(frames) : frames[i] \in Frame
  BY Stack DEF TypeOK
<1>2. /\ Front(frames) \in Seq(Frame) /\ Len(Front(frames)) = Len(frames) - 1
      /\ \A i \in 1 .. Len(frames) - 1 : Front(frames)[i] = frames[i]
  <2> DEFINE n == Len(frames)
  <2>1. 1 \in 1 .. n + 1 /\ n - 1 \in 0 .. n
    BY <1>1
  <2>2. /\ SubSeq(frames, 1, n - 1) \in Seq(Frame)
        /\ Len(SubSeq(frames, 1, n - 1)) = IF 1 <= n - 1 THEN (n - 1) - 1 + 1 ELSE 0
        /\ \A i \in 1 .. (n - 1) - 1 + 1 : SubSeq(frames, 1, n - 1)[i] = frames[1 + i - 1]
    BY <1>1, <2>1, SubSeqProperties
  <2>3. \A i \in 1 .. n - 1 : 1 + i - 1 = i /\ i \in 1 .. (n - 1) - 1 + 1
    BY <1>1
  <2> QED
    BY <1>1, <2>2, <2>3 DEF Front
<1>3. Len(frames) - 1 \in 1 .. Len(Front(frames))
  BY <1>1, <1>2
<1> QED
  BY <1>1, <1>2, <1>3, ExceptSeq DEF WithCaller

LEMMA Indexed ==
  ASSUME NEW S, NEW s \in Seq(S)
  PROVE  /\ Len(s) \in Nat /\ DOMAIN s = 1 .. Len(s)
         /\ \A x : x \in Range(s) <=> \E i \in 1 .. Len(s) : s[i] = x
  BY LenProperties DEF Range

LEMMA Elements ==
  ASSUME TypeOK
  PROVE  /\ Top \in Range(frames) /\ (Len(frames) > 1 => Caller \in Range(frames))
         /\ \A b \in Frame : \A a \in Range(WithTop(b)) : a \in Range(frames) \/ a = b
         /\ \A b \in Frame : \A a \in Range(Append(frames, b)) : a \in Range(frames) \/ a = b
         /\ Len(frames) > 1 =>
              \A b \in Frame : \A a \in Range(WithCaller(b)) : a \in Range(frames) \/ a = b
<1> DEFINE n == Len(frames)
<1>1. /\ frames \in Seq(Frame) /\ n \in Nat \ {0} /\ Top = frames[n]
      /\ n > 1 => Caller = frames[n - 1]
  BY Stack DEF TypeOK
<1>2. \A x : x \in Range(frames) <=> \E i \in 1 .. n : frames[i] = x
  BY <1>1, Indexed
<1>3. Top \in Range(frames) /\ (n > 1 => Caller \in Range(frames))
  <2>1. n \in 1 .. n /\ (n > 1 => n - 1 \in 1 .. n)
    BY <1>1
  <2> QED
    BY <1>1, <1>2, <2>1
<1>4. ASSUME NEW b \in Frame, NEW a \in Range(WithTop(b)) PROVE a \in Range(frames) \/ a = b
  <2>1. /\ WithTop(b) \in Seq(Frame) /\ Len(WithTop(b)) = n
        /\ \A i \in 1 .. n : WithTop(b)[i] = IF i = n THEN b ELSE frames[i]
    BY TopReplaced
  <2>2. PICK i \in 1 .. n : WithTop(b)[i] = a
    BY <1>4, <2>1, Indexed
  <2> QED
    BY <1>2, <2>1, <2>2
<1>5. ASSUME NEW b \in Frame, NEW a \in Range(Append(frames, b)) PROVE a \in Range(frames) \/ a = b
  <2>1. /\ Append(frames, b) \in Seq(Frame) /\ Len(Append(frames, b)) = n + 1
        /\ \A i \in 1 .. n : Append(frames, b)[i] = frames[i]
        /\ Append(frames, b)[n + 1] = b
    BY <1>1, AppendProperties
  <2> DEFINE t == Append(frames, b)
  <2> HIDE DEF t
  <2>2. PICK i \in 1 .. n + 1 : t[i] = a
    <3>1. t \in Seq(Frame) /\ Len(t) = n + 1 /\ a \in Range(t)
      BY <1>5, <2>1 DEF t
    <3>2. \E i \in 1 .. Len(t) : t[i] = a
      BY <3>1, Indexed
    <3> QED
      BY <3>1, <3>2
  <2>3. i \in 1 .. n \/ i = n + 1
    BY <1>1
  <2> QED
    BY <1>2, <2>1, <2>2, <2>3 DEF t
<1>6. ASSUME n > 1, NEW b \in Frame, NEW a \in Range(WithCaller(b)) PROVE a \in Range(frames) \/ a = b
  <2>1. /\ WithCaller(b) \in Seq(Frame) /\ Len(WithCaller(b)) = n - 1
        /\ \A i \in 1 .. n - 1 : WithCaller(b)[i] = IF i = n - 1 THEN b ELSE frames[i]
    BY <1>6, CallerReplaced
  <2>2. PICK i \in 1 .. n - 1 : WithCaller(b)[i] = a
    BY <1>6, <2>1, Indexed
  <2>3. i \in 1 .. n
    BY <1>1
  <2> QED
    BY <1>2, <2>1, <2>2, <2>3
<1> QED
  BY <1>3, <1>4, <1>5, <1>6

(* What the innermost analyzer imports next.                                *)
LEMMA Wants ==
  ASSUME IInv, Importing
  PROVE  /\ result = "running"
         /\ Top.next \in 1 .. Len(Statements(Top))
         /\ Top.part \in 1 .. Len(Asked(Top).parts)
         /\ Wanted.path = Asked(Top).parts[Top.part].path
         /\ Wanted.path \in Paths /\ Wanted.file \in Files
         /\ Wanted.file = Denotes[Top.home][Wanted.path]
<1>1. TypeOK /\ Standing(Top)
  BY Stack DEF IInv, Core, Placed
<1>2. Top \in Frame /\ Top.file \in Files /\ Top.home \in Files
  BY <1>1, Stack, Fields
<1>3. Top.next \in 1 .. Len(Statements(Top))
  <2>1. Len(Statements(Top)) \in Nat
    BY <1>1, <1>2, Statuses, LenProperties DEF Statements
  <2> QED
    BY <1>2, <2>1, Fields DEF Importing
<1>4. Top.part \in 1 .. Len(Asked(Top).parts)
  <2>1. Len(Asked(Top).parts) \in Nat
    BY <1>1, <1>2, <1>3, Imported DEF Asked, Statements
  <2> QED
    BY <1>1, <1>2, <1>3, <2>1, Fields DEF Standing
<1>5. Asked(Top).parts[Top.part].path \in Paths
  BY <1>1, <1>2, <1>3, <1>4, Imported DEF Asked, Statements
<1>6. Wanted.path = Asked(Top).parts[Top.part].path /\ Wanted.file = Denotes[Top.home][Wanted.path]
  BY DEF Wanted, Text
<1>7. Denotes[Top.home][Wanted.path] \in Files
  BY <1>2, <1>5, <1>6, LookupAssumption
<1> QED
  BY <1>3, <1>4, <1>5, <1>6, <1>7 DEF Importing

(* The part it imports: an analyzer that has made its file up finds it or   *)
(* nothing, and finds it where no file is astray.                           *)
LEMMA WantsPart ==
  ASSUME IInv, Importing, OneFilePerPath
  PROVE  \E t \in PartsOf(Top.file) :
            /\ t.path = Wanted.path /\ t.file \in Files /\ t.file \in Imports(Top.file)
            /\ IsPart(t.path, t.file)
            /\ Wanted.file = t.file \/ program.status[Wanted.file] = "missing"
            /\ NoFileAstray => Wanted.file = t.file
<1> DEFINE f == Top.file
           t == Asked(Top).parts[Top.part]
<1>1. TypeOK /\ Top \in Range(frames) /\ Top \in Frame /\ f \in Files
  BY Elements, Stack, Fields DEF IInv, Core
<1>2. /\ Top.next \in 1 .. Len(program.imports[f])
      /\ Top.part \in 1 .. Len(program.imports[f][Top.next].parts)
      /\ t = program.imports[f][Top.next].parts[Top.part]
  BY Wants DEF Asked, Statements
<1>3. t \in PartsOf(f) /\ t.file \in Files /\ t.file \in Imports(f) /\ IsPart(t.path, t.file)
  BY <1>1, <1>2, Imported
<1>4. t.file = Denotes[f][t.path]
  <2>1. program.imports[f] \in Seq(Request) /\ program.imports[f][Top.next].parts \in Seq(Part)
    BY <1>1, <1>2, Statuses, Imported
  <2>2. /\ Top.next \in DOMAIN program.imports[f]
        /\ Top.part \in DOMAIN program.imports[f][Top.next].parts
    BY <1>2, <2>1, LenProperties
  <2>3. \A i \in DOMAIN program.imports[f] : \A m \in DOMAIN program.imports[f][i].parts :
          program.imports[f][i].parts[m].file = Denotes[f][program.imports[f][i].parts[m].path]
    BY <1>1 DEF TypeOK, IsProgram
  <2> DEFINE k == Top.next
             m == Top.part
  <2>4. t = program.imports[f][k].parts[m]
    BY <1>2
  <2>5. k \in DOMAIN program.imports[f] /\ m \in DOMAIN program.imports[f][k].parts
    BY <2>2
  <2> HIDE DEF f, t, k, m
  <2>6. program.imports[f][k].parts[m].file = Denotes[f][program.imports[f][k].parts[m].path]
    BY <2>3, <2>5
  <2> QED
    BY <2>4, <2>6
<1>5. t.path = Wanted.path /\ Wanted.file = Denotes[Top.home][t.path]
  BY Wants
<1>6. AtHome(Top)
  BY <1>1 DEF IInv, Homes
<1> HIDE DEF t
<1>7. CASE Top.home = f
  BY <1>3, <1>4, <1>5, <1>7
<1>8. CASE Astray(Top)
  <2>1. PICK p \in AllParts : p.path = Top.path /\ p.file = f
    BY <1>8 DEF Astray, IsPart
  <2>2. Wanted.file = Denotes[MadeUp[p.path]][t.path]
    BY <1>5, <1>8, <2>1 DEF Astray
  <2>3. Wanted.file = t.file \/ program.status[Wanted.file] = "missing"
    BY <1>3, <2>1, <2>2 DEF OneFilePerPath
  <2>4. ASSUME NoFileAstray PROVE Wanted.file = t.file
    <3>1. PICK q \in AllParts : q.path # p.path /\ q.file = f
      BY <1>8, <2>1 DEF Astray, IsPart
    <3> QED
      BY <1>3, <2>1, <2>2, <2>4, <3>1 DEF NoFileAstray
  <2> QED
    BY <1>3, <1>5, <2>3, <2>4
<1> QED
  BY <1>6, <1>7, <1>8 DEF AtHome

LEMMA WantsReal ==
  ASSUME IInv, Importing, OneFilePerPath, Exists
  PROVE  Wanted.file \in Imports(Top.file) /\ IsPart(Wanted.path, Wanted.file)
  BY WantsPart DEF Exists

(* An analyzer at its first module stands well.                             *)
LEMMA FirstPart ==
  ASSUME TypeOK, NEW a \in Frame, a.part = 1
  PROVE  Standing(a)
<1>1. a.file \in Files /\ a.next \in Nat \ {0}
  BY Fields
<1>2. Len(Statements(a)) \in Nat
  BY <1>1, Statuses, LenProperties DEF Statements
<1>3. ASSUME a.next <= Len(Statements(a)) PROVE a.part <= Len(Asked(a).parts)
  <2>1. a.next \in 1 .. Len(program.imports[a.file])
    BY <1>1, <1>2, <1>3 DEF Statements
  <2>2. Len(Asked(a).parts) \in Nat \ {0}
    BY <1>1, <2>1, Imported DEF Asked, Statements
  <2> QED
    BY <2>2
<1> QED
  BY <1>3 DEF Standing

(***************************************************************************)
(* A step that ends with the failure of an analyzer, the m-th, which is the *)
(* innermost then.                                                          *)
(***************************************************************************)
LEMMA CachesKept ==
  ASSUME UNCHANGED <<program, canonicalCache, compiledModules>>
  PROVE  /\ \A f : CachedFile(f)' <=> CachedFile(f)
         /\ \A a : Done(a)' <=> Done(a)
         /\ Caches => Caches'
         /\ Finished => Finished'
<1>1. \A f : CachedFile(f)' <=> CachedFile(f)
  BY DEF CachedFile
<1>2. Caches => Caches'
  BY <1>1, SameProgram DEF Caches
<1>3. Finished => Finished'
  BY <1>1, SameProgram DEF Finished
<1>4. ASSUME NEW a PROVE Done(a)' <=> Done(a)
  BY DEF Done, Asked, Statements, CachedFile
<1> QED
  BY <1>1, <1>2, <1>3, <1>4

LEMMA Fails ==
  ASSUME IInv, result = "running", NEW m \in 1 .. Len(frames), NEW b \in Frame,
         b.path = frames[m].path, b.file = frames[m].file, b.failed = TRUE, b.part = 1,
         frames' \in Seq(Frame), Len(frames') = m, frames'[m] = b,
         \A i \in 1 .. m - 1 : frames'[i] = frames[i],
         UNCHANGED <<program, canonicalCache, compiledModules, moduleFileIds, result>>,
         beingImported' \subseteq Paths, cycles' \subseteq Files \X Files,
         OneFilePerPath =>
           /\ ~Acceptable
           /\ \A i \in 2 .. m :
                ~CachedFile(frames[i].file) => frames[i].path \in beingImported'
           /\ Unmarking => beingImported' \subseteq {frames[i].path : i \in 2 .. m}
           /\ CyclesAreReal'
  PROVE  Core'
<1>1. /\ TypeOK /\ Placed
      /\ Len(frames) \in Nat \ {0} /\ \A i \in 1 .. Len(frames) : frames[i] \in Frame
      /\ m \in Nat \ {0} /\ 1 .. m \subseteq 1 .. Len(frames) /\ 2 .. m \subseteq 2 .. Len(frames)
      /\ 2 .. m \subseteq 1 .. m
  BY Stack DEF IInv, Core
<1>2. /\ \A i \in 1 .. m : frames'[i].path = frames[i].path /\ frames'[i].file = frames[i].file
      /\ \A i \in 1 .. m : i # m => frames'[i] = frames[i]
      /\ \A i \in 2 .. m : i - 1 \in 1 .. m /\ i - 1 # m /\ frames'[i - 1] = frames[i - 1]
  <2>1. \A i \in 1 .. m : i = m \/ i \in 1 .. m - 1
    BY <1>1
  <2>2. \A i \in 2 .. m : i - 1 \in 1 .. m /\ i - 1 # m
    BY <1>1
  <2> QED
    BY <2>1, <2>2
<1>3. TypeOK'
  <2>1. frames' # <<>>
    BY <1>1, EmptySeq
  <2> QED
    BY <1>1, <2>1 DEF TypeOK
<1>4. Placed'
  <2>1. frames'[1].file = Main
    BY <1>1, <1>2 DEF Placed
  <2>2. ASSUME NEW i \in 1 .. m PROVE Standing(frames[i])'
    <3>1. CASE i = m
      <4>1. Standing(b)
        BY <1>1, FirstPart
      <4> QED
        BY <3>1, <4>1 DEF Standing, Asked, Statements
    <3>2. CASE i # m
      <4>1. Standing(frames[i])
        BY <1>1 DEF Placed
      <4> QED
        BY <1>2, <3>2, <4>1 DEF Standing, Asked, Statements
    <3> QED
      BY <3>1, <3>2
  <2>3. ASSUME NEW i \in 2 .. m PROVE Waiting(frames[i - 1], frames[i])'
    <3>1. Waiting(frames[i - 1], frames[i])
      BY <1>1 DEF Placed
    <3>2. frames'[i - 1] = frames[i - 1] /\ frames'[i].path = frames[i].path
      BY <1>1, <1>2
    <3> QED
      BY <3>1, <3>2 DEF Waiting, Asked, Statements
  <2> QED
    BY <2>1, <2>2, <2>3 DEF Placed
<1>5. ASSUME OneFilePerPath PROVE Nesting'
  <2>1. Nesting
    BY <1>5 DEF IInv, Core
  <2>2. Caches' /\ Finished'
    BY <2>1, CachesKept DEF Nesting
  <2>3. Chain'
    <3>1. Chain
      BY <2>1 DEF Nesting
    <3> QED
      BY <1>1, <1>2, <3>1, SameProgram DEF Chain
  <2>4. Marked'
    <3>1. Marked
      BY <2>1 DEF Nesting
    <3>0. \A i \in 1 .. m : CachedFile(frames[i].file)' <=> CachedFile(frames[i].file)
      BY <1>2 DEF CachedFile
    <3> SUFFICES ASSUME NEW i \in 2 .. m, ~CachedFile(frames[i].file)
                 PROVE  /\ frames'[i].path \in beingImported'
                        /\ \A j \in i + 1 .. m :
                             ~CachedFile(frames[j].file) => frames'[i].path # frames'[j].path
                        /\ \E j \in i .. m : frames'[j].failed
      <4>1. \A i \in 2 .. m : i \in 1 .. m /\ \A j \in i + 1 .. m : j \in 1 .. m
        BY <1>1
      <4> QED
        BY <1>1, <3>0, <4>1 DEF Marked
    <3>2. i \in 1 .. m /\ i \in 2 .. Len(frames)
      BY <1>1
    <3>3. frames'[i].path \in beingImported'
      BY <1>2, <1>5, <3>2
    <3>4. ASSUME NEW j \in i + 1 .. m, ~CachedFile(frames[j].file)
          PROVE  frames'[i].path # frames'[j].path
      <4>1. j \in 1 .. m /\ j \in i + 1 .. Len(frames)
        BY <1>1
      <4> QED
        BY <1>2, <3>1, <3>2, <3>4, <4>1 DEF Marked
    <3>5. m \in i .. m /\ frames'[m].failed
      BY <1>1
    <3> QED
      BY <3>3, <3>4, <3>5
  <2>5. Progress'
    <3>1. Progress
      BY <2>1 DEF Nesting
    <3>2. ASSUME NEW a \in Range(frames'), ~a.failed PROVE Done(a)'
      <4>1. PICK i \in 1 .. m : a = frames'[i]
        BY LenProperties DEF Range
      <4>2. i # m /\ a = frames[i] /\ i \in DOMAIN frames
        <5>1. DOMAIN frames = 1 .. Len(frames)
          BY <1>1, LenProperties DEF TypeOK
        <5> QED
          BY <1>1, <1>2, <3>2, <4>1, <5>1
      <4>3. Done(a)
        BY <3>1, <3>2, <4>2 DEF Progress, Range
      <4> QED
        BY <4>3, CachesKept
    <3> QED
      BY <3>2 DEF Progress
  <2>6. Marks'
    <3>1. {frames'[i].path : i \in 2 .. m} = {frames[i].path : i \in 2 .. m}
      BY <1>1, <1>2
    <3> QED
      BY <1>5, <3>1, SameProgram DEF Marks
  <2>7. Verdict'
    BY <1>5, SameProgram DEF Verdict
  <2> QED
    BY <1>5, <2>2, <2>3, <2>4, <2>5, <2>6, <2>7 DEF Nesting
<1>6. OneFilePerPath' => OneFilePerPath
  BY SameProgram
<1> QED
  BY <1>3, <1>4, <1>5, <1>6 DEF IInv, Core

(***************************************************************************)
(* What the compiler reaches.                                               *)
(***************************************************************************)
LEMMA Reached ==
  ASSUME TypeOK, Placed, Chain
  PROVE  \A i \in 1 .. Len(frames) : frames[i].file \in Analysable
<1> TAKE i \in 1 .. Len(frames)
<1>1. frames[1].file = Main /\ frames[i].file \in Files
  BY Stack, Fields DEF Placed
<1>2. i = 1 \/ (1 \in 1 .. Len(frames) /\ 1 < i)
  BY Stack
<1>3. CASE i = 1
  BY <1>1, <1>3 DEF Analysable
<1>4. CASE 1 \in 1 .. Len(frames) /\ 1 < i
  BY <1>1, <1>4 DEF Analysable, Chain
<1> QED
  BY <1>2, <1>3, <1>4

LEMMA Leading ==
  ASSUME IInv, OneFilePerPath, NEW g \in Files, g \in Imports(Top.file)
  PROVE  /\ g \in Analysable
         /\ \A i \in 1 .. Len(frames) : Leads(frames[i].file, g)
<1>1. TypeOK /\ Placed /\ Chain
  BY DEF IInv, Core, Nesting
<1>2. /\ Len(frames) \in Nat /\ Len(frames) \in 1 .. Len(frames) /\ Top = frames[Len(frames)]
      /\ \A i \in 1 .. Len(frames) : frames[i].file \in Files
  BY <1>1, Stack, Fields
<1>3. ASSUME NEW i \in 1 .. Len(frames) PROVE Leads(frames[i].file, g)
  <2>1. CASE i = Len(frames)
    BY <1>1, <1>2, <2>1, Led
  <2>2. CASE i # Len(frames)
    <3>1. i < Len(frames)
      BY <1>2, <2>2, Below
    <3>2. Leads(frames[i].file, Top.file)
      BY <1>1, <1>2, <3>1 DEF Chain
    <3> QED
      BY <1>1, <1>2, <3>2, Led
  <2> QED
    BY <2>1, <2>2
<1>4. 1 \in 1 .. Len(frames) /\ frames[1].file = Main
  BY <1>1, <1>2 DEF Placed
<1>5. Leads(Main, g)
  BY <1>3, <1>4
<1> QED
  BY <1>3, <1>5 DEF Analysable

LEMMA WantedReached ==
  ASSUME IInv, OneFilePerPath, Importing, Exists
  PROVE  /\ Wanted.file \in Analysable
         /\ \A i \in 1 .. Len(frames) : Leads(frames[i].file, Wanted.file)
  BY Wants, WantsReal, Leading

(* Every failure of the innermost analyzer at an import.                    *)
LEMMA ImportFails ==
  ASSUME IInv, Importing, frames' = WithTop(Failed(Top)),
         UNCHANGED <<program, canonicalCache, compiledModules, moduleFileIds, result>>,
         beingImported \subseteq beingImported', beingImported' \subseteq Paths,
         cycles' \subseteq Files \X Files,
         OneFilePerPath =>
           /\ ~Acceptable
           /\ Unmarking => beingImported' = beingImported
           /\ CyclesAreReal'
  PROVE  Core'
<1>1. TypeOK /\ Top \in Frame /\ Top = frames[Len(frames)] /\ Len(frames) \in Nat \ {0}
  BY Stack DEF IInv, Core
<1> DEFINE n == Len(frames)
           b == Failed(Top)
<1>2. b \in Frame /\ b.path = frames[n].path /\ b.file = frames[n].file /\ b.failed = TRUE /\ b.part = 1
  BY <1>1, Failing
<1>3. /\ frames' \in Seq(Frame) /\ Len(frames') = n /\ frames'[n] = b
      /\ \A i \in 1 .. n - 1 : frames'[i] = frames[i]
  <2> HIDE DEF b
  <2>1. frames' = WithTop(b)
    BY DEF b
  <2>2. n \in 1 .. n /\ \A i \in 1 .. n - 1 : i \in 1 .. n /\ i # n
    BY <1>1
  <2>3. /\ WithTop(b) \in Seq(Frame) /\ Len(WithTop(b)) = n
        /\ \A i \in 1 .. n : WithTop(b)[i] = IF i = n THEN b ELSE frames[i]
    BY <1>1, <1>2, TopReplaced
  <2> QED
    BY <2>1, <2>2, <2>3
<1>4. OneFilePerPath =>
        /\ ~Acceptable
        /\ \A i \in 2 .. n : ~CachedFile(frames[i].file) => frames[i].path \in beingImported'
        /\ Unmarking => beingImported' \subseteq {frames[i].path : i \in 2 .. n}
        /\ CyclesAreReal'
  <2> SUFFICES ASSUME OneFilePerPath
               PROVE  /\ \A i \in 2 .. n :
                           ~CachedFile(frames[i].file) => frames[i].path \in beingImported'
                      /\ Unmarking => beingImported' \subseteq {frames[i].path : i \in 2 .. n}
    BY DEF n
  <2>1. Marked /\ Marks
    BY DEF IInv, Core, Nesting
  <2>2. \A i \in 2 .. n : ~CachedFile(frames[i].file) => frames[i].path \in beingImported'
    BY <2>1 DEF Marked
  <2>3. Unmarking => beingImported' \subseteq {frames[i].path : i \in 2 .. n}
    BY <2>1 DEF Marks
  <2> QED
    BY <2>2, <2>3
<1>5. n \in 1 .. n /\ result = "running"
  BY <1>1 DEF Importing
<1> HIDE DEF b, n
<1> QED
  BY <1>2, <1>3, <1>4, <1>5, Fails DEF n

LEMMA MissingStep ==
  ASSUME IInv, ImportMissing
  PROVE  Core'
<1>1. /\ Importing /\ frames' = WithTop(Failed(Top)) /\ program.status[Wanted.file] = "missing"
      /\ UNCHANGED <<program, canonicalCache, compiledModules, moduleFileIds, result>>
      /\ UNCHANGED <<beingImported, cycles>>
  BY DEF ImportMissing, Exists
<1>2. beingImported' \subseteq Paths /\ cycles' \subseteq Files \X Files
  BY <1>1 DEF IInv, Core, TypeOK
<1>3. ASSUME OneFilePerPath PROVE ~Acceptable
  <2>1. PICK t \in PartsOf(Top.file) :
          /\ t.file \in Files /\ t.file \in Imports(Top.file)
          /\ NoFileAstray => Wanted.file = t.file
    BY <1>1, <1>3, WantsPart
  <2>2. t.file \in Analysable
    BY <1>3, <2>1, Leading
  <2> QED
    BY <1>1, <2>1, <2>2 DEF Sound, Acceptable
<1>4. OneFilePerPath => CyclesAreReal'
  BY <1>1, SameProgram DEF IInv, Core, Nesting, CyclesAreReal, AllRequests
<1> QED
  BY <1>1, <1>2, <1>3, <1>4, ImportFails

LEMMA CircularStep ==
  ASSUME IInv, ImportCircular
  PROVE  Core'
<1>1. /\ Importing /\ Exists /\ frames' = WithTop(Failed(Top)) /\ Wanted.path \in beingImported
      /\ UNCHANGED <<program, canonicalCache, compiledModules, moduleFileIds, result>>
      /\ beingImported' = beingImported
      /\ cycles' = cycles \cup {<<Top.file, Wanted.file>>}
  BY DEF ImportCircular
<1>2. TypeOK
  BY DEF IInv, Core
<1>3. beingImported' \subseteq Paths /\ cycles' \subseteq Files \X Files
  BY <1>1, <1>2, Stack, Fields, Wants DEF TypeOK
<1>4. ASSUME OneFilePerPath, Unmarking
      PROVE  /\ Wanted.file = Top.file \/ Leads(Wanted.file, Top.file)
             /\ Leads(Wanted.file, Wanted.file)
  <2>1. Marks /\ Chain
    BY <1>4 DEF IInv, Core, Nesting
  <2>2. PICK i \in 2 .. Len(frames) : frames[i].path = Wanted.path
    BY <1>1, <1>4, <2>1 DEF Marks
  <2>3. Wanted.file = frames[i].file
    BY <1>1, <1>4, <2>1, <2>2, WantsReal DEF Chain, IsPart, OneFilePerPath
  <2>4. /\ i \in 1 .. Len(frames) /\ Len(frames) \in 1 .. Len(frames) /\ Len(frames) \in Nat
        /\ Top = frames[Len(frames)]
    BY <1>2, Stack
  <2>5. Leads(Wanted.file, Wanted.file)
    BY <1>1, <1>4, <2>3, <2>4, WantedReached
  <2>6. i = Len(frames) \/ i < Len(frames)
    BY <2>4, Below
  <2> QED
    BY <2>1, <2>3, <2>4, <2>5, <2>6 DEF Chain
<1>5. ASSUME OneFilePerPath PROVE ~Acceptable
  BY <1>1, <1>4, <1>5, WantedReached DEF Sound, Acceptable, Unmarking
<1>6. ASSUME OneFilePerPath PROVE CyclesAreReal'
  <2>1. CyclesAreReal
    BY <1>6 DEF IInv, Core, Nesting
  <2> SUFFICES ASSUME \A f \in Files : program.status[f] # "unparsable",
                      \A r \in AllRequests : r.dir \/ r.clash = 0,
                      NEW c \in cycles'
               PROVE  c[1] = c[2] \/ Leads(c[2], c[1])
    BY <1>1, <1>6, SameProgram DEF CyclesAreReal, AllRequests
  <2>2. CASE c \in cycles
    BY <1>6, <2>1, <2>2 DEF CyclesAreReal
  <2>3. CASE c = <<Top.file, Wanted.file>>
    BY <1>4, <1>6, <2>3 DEF Unmarking
  <2> QED
    BY <1>1, <2>2, <2>3
<1> QED
  BY <1>1, <1>3, <1>5, <1>6, ImportFails

LEMMA UnparsableStep ==
  ASSUME IInv, ImportUnparsable
  PROVE  Core'
<1>1. /\ Importing /\ Exists /\ frames' = WithTop(Failed(Top))
      /\ program.status[Wanted.file] = "unparsable"
      /\ UNCHANGED <<program, canonicalCache, compiledModules, moduleFileIds, result>>
      /\ beingImported' = beingImported \cup {Wanted.path}
      /\ cycles' = cycles
  BY DEF ImportUnparsable
<1>2. Wanted.path \in Paths /\ Wanted.file \in Files
  BY <1>1, Wants
<1>3. beingImported' \subseteq Paths /\ cycles' \subseteq Files \X Files
  BY <1>1, <1>2 DEF IInv, Core, TypeOK
<1>4. ASSUME OneFilePerPath PROVE ~Acceptable
  BY <1>1, <1>4, WantedReached DEF Sound, Acceptable
<1>5. OneFilePerPath => ~Unmarking
  BY <1>1, <1>2, <1>4 DEF Unmarking
<1>6. OneFilePerPath => CyclesAreReal'
  BY <1>1, <1>2 DEF CyclesAreReal
<1> QED
  BY <1>1, <1>3, <1>4, <1>5, <1>6, ImportFails

(* A declaration of the innermost file cannot be collected.                 *)
LEMMA HoistFailsStep ==
  ASSUME IInv, HoistFails
  PROVE  Core'
<1>1. /\ result = "running" /\ Top.part = 1 /\ program.status[Top.file] = "illtyped"
      /\ frames' = WithTop([Top EXCEPT !.pass = "body", !.failed = TRUE])
      /\ UNCHANGED <<program, canonicalCache, compiledModules, moduleFileIds, result>>
      /\ UNCHANGED <<beingImported, cycles>>
  BY DEF HoistFails
<1> DEFINE n == Len(frames)
           b == [Top EXCEPT !.pass = "body", !.failed = TRUE]
<1>2. TypeOK /\ Top \in Frame /\ Top = frames[n] /\ n \in Nat \ {0} /\ n \in 1 .. n
  BY Stack DEF IInv, Core
<1>3. b \in Frame /\ b.path = frames[n].path /\ b.file = frames[n].file /\ b.failed = TRUE /\ b.part = 1
  BY <1>1, <1>2, HoistEnding
<1>4. /\ frames' \in Seq(Frame) /\ Len(frames') = n /\ frames'[n] = b
      /\ \A i \in 1 .. n - 1 : frames'[i] = frames[i]
  <2>1. frames' = WithTop(b)
    BY <1>1
  <2> HIDE DEF b
  <2>2. \A i \in 1 .. n - 1 : i \in 1 .. n /\ i # n
    BY <1>2
  <2> QED
    BY <1>2, <1>3, <2>1, <2>2, TopReplaced
<1>5. beingImported' \subseteq Paths /\ cycles' \subseteq Files \X Files
  BY <1>1, <1>2 DEF TypeOK
<1>6. ASSUME OneFilePerPath
      PROVE  /\ ~Acceptable
             /\ \A i \in 2 .. n : ~CachedFile(frames[i].file) => frames[i].path \in beingImported'
             /\ Unmarking => beingImported' \subseteq {frames[i].path : i \in 2 .. n}
             /\ CyclesAreReal'
  <2>1. Placed /\ Chain /\ Marked /\ Marks /\ CyclesAreReal
    BY <1>6 DEF IInv, Core, Nesting
  <2>2. ~Acceptable
    BY <1>1, <1>2, <2>1, Reached DEF Sound, Acceptable
  <2>3. \A i \in 2 .. n : ~CachedFile(frames[i].file) => frames[i].path \in beingImported'
    BY <1>1, <2>1 DEF Marked
  <2>4. Unmarking => beingImported' \subseteq {frames[i].path : i \in 2 .. n}
    BY <1>1, <2>1 DEF Marks
  <2>5. CyclesAreReal'
    BY <1>1, <2>1, SameProgram DEF CyclesAreReal, AllRequests
  <2> QED
    BY <2>2, <2>3, <2>4, <2>5
<1> HIDE DEF b, n
<1> QED
  BY <1>1, <1>2, <1>3, <1>4, <1>5, <1>6, Fails DEF n

(***************************************************************************)
(* An inner analyzer gives up: its importer fails.                          *)
(***************************************************************************)
LEMMA CallerFails ==
  ASSUME IInv, result = "running", Len(frames) > 1, NEW a \in Frame,
         a.path = Caller.path, a.file = Caller.file, frames' = WithCaller(Failed(a)),
         UNCHANGED <<program, canonicalCache, compiledModules, moduleFileIds, cycles, result>>,
         beingImported \ {Top.path} \subseteq beingImported', beingImported' \subseteq beingImported,
         OneFilePerPath =>
           /\ ~Acceptable
           /\ Unmarking => beingImported' = beingImported \ {Top.path}
  PROVE  Core'
<1> DEFINE n == Len(frames)
           m == n - 1
           b == Failed(a)
<1>0. /\ TypeOK /\ n \in Nat \ {0} /\ n > 1 /\ Caller = frames[m] /\ Top = frames[n]
  BY Stack DEF IInv, Core
<1>1. /\ TypeOK /\ n \in Nat \ {0} /\ m \in Nat \ {0} /\ m \in 1 .. n /\ n \in 2 .. n
      /\ Caller = frames[m] /\ Top = frames[n]
      /\ \A i \in 2 .. m : i \in 2 .. n /\ n \in i + 1 .. n
      /\ \A i \in 2 .. n : i = n \/ i \in 2 .. m
  <2> HIDE DEF n
  <2> QED
    BY <1>0
<1>2. b \in Frame /\ b.path = frames[m].path /\ b.file = frames[m].file /\ b.failed = TRUE /\ b.part = 1
  BY <1>1, Failing
<1>3. /\ frames' \in Seq(Frame) /\ Len(frames') = m /\ frames'[m] = b
      /\ \A i \in 1 .. m - 1 : frames'[i] = frames[i]
  <2> HIDE DEF b
  <2>1. frames' = WithCaller(b)
    BY DEF b
  <2>2. m \in 1 .. m /\ \A i \in 1 .. m - 1 : i \in 1 .. m /\ i # m
    BY <1>1
  <2>3. /\ WithCaller(b) \in Seq(Frame) /\ Len(WithCaller(b)) = m
        /\ \A i \in 1 .. m : WithCaller(b)[i] = IF i = m THEN b ELSE frames[i]
    BY <1>1, <1>2, CallerReplaced
  <2> QED
    BY <2>1, <2>2, <2>3
<1>4. beingImported' \subseteq Paths /\ cycles' \subseteq Files \X Files
  BY <1>1 DEF TypeOK
<1>5. ASSUME OneFilePerPath
      PROVE  /\ ~Acceptable
             /\ \A i \in 2 .. m : ~CachedFile(frames[i].file) => frames[i].path \in beingImported'
             /\ Unmarking => beingImported' \subseteq {frames[i].path : i \in 2 .. m}
             /\ CyclesAreReal'
  <2>1. Chain /\ Marked /\ Marks /\ CyclesAreReal
    BY <1>5 DEF IInv, Core, Nesting
  <2>2. ASSUME NEW i \in 2 .. m, ~CachedFile(frames[i].file) PROVE frames[i].path \in beingImported'
    <3>1. frames[i].path \in beingImported /\ i \in 2 .. n /\ n \in i + 1 .. n
      BY <1>1, <2>1, <2>2 DEF Marked
    <3>2. frames[i].path # frames[n].path
      <4>1. CASE CachedFile(frames[n].file)
        <5>1. frames[i].file # frames[n].file
          BY <2>2, <4>1
        <5>2. IsPart(frames[i].path, frames[i].file) /\ IsPart(frames[n].path, frames[n].file)
          <6> HIDE DEF n, m
          <6>1. n \in 2 .. n
            BY <1>1
          <6> QED
            BY <2>1, <3>1, <6>1 DEF Chain, n
        <5> HIDE DEF n
        <5> QED
          BY <1>5, <5>1, <5>2 DEF IsPart, OneFilePerPath
      <4>2. CASE ~CachedFile(frames[n].file)
        BY <2>1, <2>2, <3>1, <4>2 DEF Marked
      <4> QED
        BY <4>1, <4>2
    <3> QED
      BY <1>1, <3>1, <3>2
  <2>3. ASSUME Unmarking PROVE beingImported' \subseteq {frames[i].path : i \in 2 .. m}
    <3>1. beingImported' = beingImported \ {frames[n].path}
      BY <1>1, <1>5, <2>3
    <3>2. beingImported \subseteq {frames[i].path : i \in 2 .. n}
      BY <2>1, <2>3 DEF Marks
    <3> QED
      BY <1>1, <3>1, <3>2
  <2>4. CyclesAreReal'
    BY <1>5, <2>1, SameProgram DEF CyclesAreReal, AllRequests
  <2> QED
    BY <1>5, <2>2, <2>3, <2>4
<1> HIDE DEF b, m, n
<1> QED
  BY <1>1, <1>2, <1>3, <1>4, <1>5, Fails DEF n

(* The importer of the innermost analyzer, and what it waits for.           *)
LEMMA Waits ==
  ASSUME IInv, Len(frames) > 1
  PROVE  /\ Len(frames) \in 2 .. Len(frames) /\ Len(frames) - 1 \in 1 .. Len(frames)
         /\ Caller \in Frame /\ Top \in Frame
         /\ Caller.file \in Files /\ Top.file \in Files
         /\ Caller.next \in 1 .. Len(Statements(Caller))
         /\ Caller.part \in 1 .. Len(Asked(Caller).parts)
         /\ Top.path = Asked(Caller).parts[Caller.part].path /\ Top.path \in Paths
         /\ Asked(Caller) \in Range(program.imports[Caller.file])
         /\ Asked(Caller) \in AllRequests
<1> DEFINE n == Len(frames)
<1>1. TypeOK /\ Placed
  BY DEF IInv, Core
<1>2. /\ n \in 2 .. n /\ n - 1 \in 1 .. n
      /\ Caller \in Frame /\ Top \in Frame /\ Caller = frames[n - 1] /\ Top = frames[n]
  BY <1>1, Stack
<1>3. Caller.file \in Files /\ Top.file \in Files /\ Caller.next \in Nat \ {0} /\ Caller.part \in Nat \ {0}
  BY <1>2, Fields
<1>4. Waiting(Caller, Top) /\ Standing(Caller)
  BY <1>1, <1>2 DEF Placed
<1>5. Caller.next \in 1 .. Len(Statements(Caller))
  <2>1. Len(Statements(Caller)) \in Nat
    BY <1>1, <1>3, Statuses, LenProperties DEF Statements
  <2> QED
    BY <1>3, <1>4, <2>1 DEF Waiting
<1>6. Caller.part \in 1 .. Len(Asked(Caller).parts)
  <2>1. Len(Asked(Caller).parts) \in Nat
    BY <1>1, <1>3, <1>5, Imported DEF Asked, Statements
  <2> QED
    BY <1>3, <1>4, <1>5, <2>1 DEF Standing
<1>7. Top.path = Asked(Caller).parts[Caller.part].path
  BY <1>4 DEF Waiting
<1> HIDE DEF n
<1>8. /\ Asked(Caller).parts[Caller.part].path \in Paths
      /\ Asked(Caller) \in Range(program.imports[Caller.file]) /\ Asked(Caller) \in AllRequests
  BY <1>1, <1>3, <1>5, <1>6, Imported DEF Asked, Statements
<1> QED
  BY <1>2, <1>3, <1>5, <1>6, <1>7, <1>8 DEF n

(* An analyzer with errors shows that the program is not sound.             *)
LEMMA ErrorsAreUnsound ==
  ASSUME IInv, OneFilePerPath, HasErrors(Top)
  PROVE  ~Acceptable
<1>1. /\ TypeOK /\ Placed /\ Chain /\ Verdict
      /\ Len(frames) \in 1 .. Len(frames) /\ Top = frames[Len(frames)]
  BY Stack DEF IInv, Core, Nesting
<1>2. CASE Top.failed
  BY <1>1, <1>2 DEF Verdict
<1>3. CASE program.status[Top.file] = "illtyped"
  BY <1>1, <1>3, Reached DEF Sound, Acceptable
<1> QED
  BY <1>2, <1>3 DEF HasErrors

LEMMA RejectedStep ==
  ASSUME IInv, ModuleRejected
  PROVE  Core'
<1>1. /\ result = "running" /\ Len(frames) > 1 /\ HasErrors(Top)
      /\ beingImported' = beingImported \ {Top.path}
      /\ frames' = WithCaller(Failed(Caller))
      /\ UNCHANGED <<program, canonicalCache, compiledModules, moduleFileIds, cycles, result>>
  BY DEF ModuleRejected, Analysed
<1>2. Caller \in Frame
  BY <1>1, Waits
<1>3. OneFilePerPath => ~Acceptable
  BY <1>1, ErrorsAreUnsound
<1> QED
  BY <1>1, <1>2, <1>3, CallerFails

LEMMA ClashUnsound ==
  ASSUME IInv, OneFilePerPath, Len(frames) > 1, Asked(Caller).clash # 0
  PROVE  ~Acceptable
<1>1. TypeOK /\ Placed /\ Chain /\ Caller = frames[Len(frames) - 1]
  BY Stack DEF IInv, Core, Nesting
<1>2. Caller.file \in Analysable
  BY <1>1, Reached, Waits
<1> QED
  BY <1>2, Waits DEF Sound, Acceptable

LEMMA ClashStep ==
  ASSUME IInv, NamesClash
  PROVE  Core'
<1> DEFINE d == Absorb(Caller.deps, Top.deps)
           a == [Caller EXCEPT !.deps = d]
<1>1. /\ result = "running" /\ Len(frames) > 1 /\ ~Asked(Caller).dir /\ Asked(Caller).clash = 1
      /\ frames' = WithCaller(Failed(a)) /\ beingImported' = beingImported
      /\ UNCHANGED <<program, canonicalCache, compiledModules, moduleFileIds, cycles, result>>
  BY DEF NamesClash, Analysed
<1>2. a \in Frame /\ a.path = Caller.path /\ a.file = Caller.file
  <2>1. Caller \in Frame /\ Caller.deps \in Seq(Paths) /\ Top.deps \in Seq(Paths)
    BY <1>1, Waits, Fields
  <2>2. d \in Seq(Paths)
    BY <2>1, Absorbed
  <2> HIDE DEF d
  <2> QED
    BY <2>1, <2>2, Changing
<1>3. OneFilePerPath => ~Acceptable
  BY <1>1, ClashUnsound
<1>4. OneFilePerPath => ~Unmarking
  BY <1>1, <1>3, Waits DEF Unmarking
<1> HIDE DEF a
<1> QED
  BY <1>1, <1>2, <1>3, <1>4, CallerFails

(***************************************************************************)
(* Imports that begin.                                                      *)
(***************************************************************************)

(* What an analyzer has imported stays cached.                              *)
LEMMA DoneGrows ==
  ASSUME TypeOK, UNCHANGED program, \A f \in Files : CachedFile(f) => CachedFile(f)',
         NEW a \in Frame, Done(a)
  PROVE  Done(a)'
<1>0. PICK s : s = program.imports[a.file]
  OBVIOUS
<1>1. a.file \in Files /\ a.next \in Nat \ {0}
  BY Fields
<1>2. /\ Len(s) \in Nat
      /\ \A k \in 1 .. Len(s) : \A m \in 1 .. Len(s[k].parts) : s[k].parts[m].file \in Files
  BY <1>0, <1>1, Statuses, Imported, LenProperties
<1>3. Statements(a) = s /\ Statements(a)' = s
  BY <1>0 DEF Statements
<1>4. /\ \A k \in 1 .. Len(s) : k < a.next =>
           /\ s[k].clash = 0
           /\ \A m \in 1 .. Len(s[k].parts) : CachedFile(s[k].parts[m].file)
      /\ a.next <= Len(s) =>
           /\ s[a.next].clash = 0 \/ a.part <= s[a.next].clash
           /\ \A m \in 1 .. Len(s[a.next].parts) : m < a.part => CachedFile(s[a.next].parts[m].file)
  BY <1>3 DEF Done, Asked
<1>5. /\ \A k \in 1 .. Len(s) : k < a.next =>
           /\ s[k].clash = 0
           /\ \A m \in 1 .. Len(s[k].parts) : CachedFile(s[k].parts[m].file)'
      /\ a.next <= Len(s) =>
           /\ s[a.next].clash = 0 \/ a.part <= s[a.next].clash
           /\ \A m \in 1 .. Len(s[a.next].parts) : m < a.part => CachedFile(s[a.next].parts[m].file)'
  <2>1. a.next <= Len(s) => a.next \in 1 .. Len(s)
    BY <1>1, <1>2
  <2> QED
    BY <1>2, <1>4, <2>1
<1> QED
  BY <1>3, <1>5 DEF Done, Asked, CachedFile

LEMMA Fresh ==
  ASSUME TypeOK, NEW a \in Frame, a.next = 1, a.part = 1
  PROVE  Done(a)
<1> DEFINE s == Statements(a)
<1>1. a.file \in Files
  BY Fields
<1>2. Len(s) \in Nat /\ \A k \in 1 .. Len(s) : s[k].clash \in Nat
  BY <1>1, Statuses, Imported, LenProperties DEF Statements
<1>3. 1 <= Len(s) => s[1].clash = 0 \/ 1 <= s[1].clash
  BY <1>2
<1> HIDE DEF s
<1>4. /\ \A k \in 1 .. Len(s) : ~(k < 1)
      /\ \A m \in 1 .. Len(s[1].parts) : ~(m < 1)
  BY SMT
<1> QED
  BY <1>3, <1>4 DEF Done, Asked, s

(* An import that begins: its analyzer is pushed.                           *)
LEMMA Enters ==
  ASSUME IInv, Importing, Exists, NEW f \in Files, NEW home \in Files,
         frames' = Append(frames, Analyzer(Wanted.path, f, home)),
         UNCHANGED <<program, compiledModules, cycles, result>>,
         moduleFileIds' \in [Paths -> Files \cup {NoFile}],
         beingImported \subseteq beingImported',
         beingImported' \subseteq beingImported \cup {Wanted.path},
         canonicalCache' \in [Files -> Paths \cup {NoPath}],
         OneFilePerPath =>
           /\ f = Wanted.file
           /\ program.status[f] \in {"fine", "illtyped"}
           /\ \A g \in Files : CachedFile(g)' <=> CachedFile(g)
           /\ \A g \in Files : canonicalCache'[g] = canonicalCache[g]
                                 \/ (g = f /\ canonicalCache'[g] = Wanted.path)
           /\ \/ CachedFile(f)
              \/ /\ Wanted.path \notin beingImported /\ Wanted.path \in beingImported'
                 /\ canonicalCache'[f] = Wanted.path
  PROVE  Core'
<1> DEFINE n == Len(frames)
           b == Analyzer(Wanted.path, f, home)
<1>1. /\ TypeOK /\ Placed /\ frames \in Seq(Frame) /\ n \in Nat \ {0}
      /\ \A i \in 1 .. n : frames[i] \in Frame
      /\ Top = frames[n] /\ Top \in Frame
  BY Stack DEF IInv, Core, TypeOK
<1>2. /\ b \in Frame /\ b.path = Wanted.path /\ b.file = f /\ b.next = 1 /\ b.part = 1
      /\ b.failed = FALSE
  BY Wants, NoDeps DEF Analyzer, Frame
<1> HIDE DEF b
<1>3. /\ frames' \in Seq(Frame) /\ Len(frames') = n + 1 /\ frames'[n + 1] = b
      /\ \A i \in 1 .. n : frames'[i] = frames[i]
  BY <1>1, <1>2, AppendProperties DEF b
<1> HIDE DEF n
<1>4. /\ \A i \in 1 .. n + 1 : i \in 1 .. n \/ i = n + 1
      /\ \A i \in 2 .. n + 1 : (i \in 2 .. n /\ i \in 1 .. n /\ i # n + 1) \/ i = n + 1
      /\ \A i \in 2 .. n : i - 1 \in 1 .. n /\ i \in 1 .. n /\ i \in 2 .. n + 1
      /\ 1 \in 1 .. n /\ n \in 1 .. n
  BY <1>1
<1>5. TypeOK'
  <2>1. frames' # <<>>
    BY <1>1, <1>3, EmptySeq
  <2>2. beingImported' \subseteq Paths
    BY <1>1, Wants DEF TypeOK
  <2> QED
    BY <1>1, <1>3, <2>1, <2>2 DEF TypeOK
<1>6. Placed'
  <2>1. frames'[1].file = Main
    BY <1>1, <1>3, <1>4 DEF Placed
  <2>2. Standing(b)
    BY <1>1, <1>2, FirstPart
  <2>3. ASSUME NEW i \in 1 .. n + 1 PROVE Standing(frames[i])'
    <3>1. CASE i \in 1 .. n
      <4>1. Standing(frames[i])
        BY <1>1, <3>1 DEF Placed, n
      <4> QED
        BY <1>3, <3>1, <4>1 DEF Standing, Asked, Statements
    <3>2. CASE i = n + 1
      BY <1>3, <2>2, <3>2 DEF Standing, Asked, Statements
    <3> QED
      BY <1>4, <3>1, <3>2
  <2>4. ASSUME NEW i \in 2 .. n + 1 PROVE Waiting(frames[i - 1], frames[i])'
    <3>1. CASE i \in 2 .. n
      <4>1. Waiting(frames[i - 1], frames[i])
        BY <1>1, <3>1 DEF Placed, n
      <4>2. frames'[i - 1] = frames[i - 1] /\ frames'[i] = frames[i]
        BY <1>3, <1>4, <3>1
      <4> QED
        BY <4>1, <4>2 DEF Waiting, Asked, Statements
    <3>2. CASE i = n + 1
      <4>1. Waiting(Top, b)
        BY <1>1, <1>2, Wants DEF Waiting, Importing
      <4>2. frames'[i - 1] = Top /\ frames'[i] = b
        BY <1>1, <1>3, <1>4, <3>2
      <4> QED
        BY <4>1, <4>2 DEF Waiting, Asked, Statements
    <3> QED
      BY <1>4, <3>1, <3>2
  <2> QED
    BY <1>3, <2>1, <2>3, <2>4 DEF Placed
<1>7. ASSUME OneFilePerPath PROVE Nesting'
  <2>1. /\ Caches /\ Finished /\ Chain /\ Marked /\ Progress /\ Marks /\ Verdict /\ CyclesAreReal
        /\ f = Wanted.file
        /\ \A g \in Files : CachedFile(g)' <=> CachedFile(g)
    BY <1>7 DEF IInv, Core, Nesting
  <2>2. Caches'
    <3>1. ASSUME NEW g \in Files, canonicalCache'[g] # NoPath PROVE IsPart(canonicalCache'[g], g)
      <4>1. CASE canonicalCache'[g] = canonicalCache[g]
        BY <2>1, <3>1, <4>1 DEF Caches
      <4>2. CASE g = f /\ canonicalCache'[g] = Wanted.path
        BY <1>7, <2>1, <4>2, WantsReal
      <4> QED
        BY <1>7, <4>1, <4>2
    <3>2. ASSUME NEW p \in Paths, NEW g, g = compiledModules[p], g # NoFile
          PROVE  IsPart(p, g) /\ CachedFile(g)'
      <4>1. g \in Files
        BY <1>1, <3>2 DEF TypeOK
      <4> QED
        BY <2>1, <3>2, <4>1 DEF Caches
    <3> QED
      BY <3>1, <3>2 DEF Caches, IsPart, AllParts, AllRequests, CachedFile
  <2>3. Finished'
    <3>1. ASSUME NEW g \in Files, CachedFile(g)'
          PROVE  /\ \A h \in Imports(g) : CachedFile(h)'
                 /\ ~Leads(g, g)
                 /\ Fine(g)
      <4>1. CachedFile(g)
        BY <2>1, <3>1
      <4>2. \A h \in Imports(g) : h \in Files /\ CachedFile(h)
        BY <1>1, <2>1, <4>1, ImportsOf DEF Finished
      <4> QED
        BY <2>1, <4>1, <4>2 DEF Finished
    <3> QED
      BY <3>1, SameProgram DEF Finished
  <2>4. Chain'
    <3>1. ASSUME NEW i \in 2 .. n + 1
          PROVE  /\ IsPart(frames'[i].path, frames'[i].file)
                 /\ program.status[frames'[i].file] \in {"fine", "illtyped"}
      <4>1. CASE i \in 2 .. n
        BY <1>3, <1>4, <2>1, <4>1 DEF Chain, n
      <4>2. CASE i = n + 1
        BY <1>2, <1>3, <1>7, <2>1, <4>2, WantsReal
      <4> QED
        BY <1>4, <4>1, <4>2
    <3>2. ASSUME NEW i \in 1 .. n + 1, NEW j \in 1 .. n + 1, i < j
          PROVE  Leads(frames'[i].file, frames'[j].file)
      <4>1. i \in 1 .. n
        BY <1>1, <3>2
      <4>2. CASE j \in 1 .. n
        BY <1>3, <2>1, <3>2, <4>1, <4>2 DEF Chain, n
      <4>3. CASE j = n + 1
        BY <1>2, <1>3, <1>7, <2>1, <4>1, <4>3, WantedReached DEF n
      <4> QED
        BY <1>4, <4>2, <4>3
    <3> QED
      BY <1>3, <3>1, <3>2, SameProgram DEF Chain
  <2>5. Marked'
    <3>0. \A i \in 1 .. n + 1 : CachedFile(frames[i].file)' <=> CachedFile(frames'[i].file)
      <4>1. \A i \in 1 .. n + 1 : frames'[i].file \in Files
        BY <1>1, <1>2, <1>3, <1>4, Fields
      <4> QED
        BY <2>1, <4>1 DEF CachedFile
    <3> SUFFICES ASSUME NEW i \in 2 .. Len(frames'), ~CachedFile(frames[i].file)'
                 PROVE  /\ frames'[i].path \in beingImported'
                        /\ \A j \in i + 1 .. Len(frames') :
                             ~CachedFile(frames[j].file)' => frames'[i].path # frames'[j].path
                        /\ \/ canonicalCache'[frames'[i].file] = frames'[i].path
                           \/ \E j \in i + 1 .. Len(frames') : frames'[j].file = frames'[i].file
                           \/ \E j \in i .. Len(frames') : frames'[j].failed
      BY DEF Marked
    <3>4. /\ i \in 2 .. n + 1 /\ i \in 1 .. n + 1
          /\ \A j \in i + 1 .. n + 1 : j \in 1 .. n + 1
      BY <1>1, <1>3
    <3>5. ~CachedFile(frames'[i].file)
      BY <3>0, <3>4
    <3>6. \A j \in i + 1 .. n + 1 : ~CachedFile(frames[j].file)' => ~CachedFile(frames'[j].file)
      BY <3>0, <3>4
    <3> SUFFICES /\ frames'[i].path \in beingImported'
                 /\ \A j \in i + 1 .. n + 1 :
                      ~CachedFile(frames'[j].file) => frames'[i].path # frames'[j].path
                 /\ \/ canonicalCache'[frames'[i].file] = frames'[i].path
                    \/ \E j \in i + 1 .. n + 1 : frames'[j].file = frames'[i].file
                    \/ \E j \in i .. n + 1 : frames'[j].failed
      BY <1>3, <3>6
    <3>1. CASE i = n + 1
      <4>1. \A j \in i + 1 .. n + 1 : FALSE
        BY <1>1, <3>1
      <4>2. frames'[i].path \in beingImported' /\ canonicalCache'[frames'[i].file] = frames'[i].path
        BY <1>2, <1>3, <1>7, <3>1
      <4> QED
        BY <4>1, <4>2
    <3>2. CASE i \in 2 .. n
      <4>1. /\ i \in 1 .. n /\ frames'[i] = frames[i] /\ frames[i].file \in Files
            /\ n + 1 \in i + 1 .. n + 1
            /\ \A j \in i + 1 .. n + 1 : j = n + 1 \/ (j \in i + 1 .. n /\ j \in 1 .. n)
            /\ \A j \in i + 1 .. n : j \in i + 1 .. n + 1 /\ j \in 1 .. n
            /\ \A j \in i .. n : j \in i .. n + 1 /\ j \in 1 .. n
        BY <1>1, <1>3, <1>4, <3>2, Fields
      <4>2. /\ frames[i].path \in beingImported
            /\ \A j \in i + 1 .. n :
                 ~CachedFile(frames[j].file) => frames[i].path # frames[j].path
            /\ \/ canonicalCache[frames[i].file] = frames[i].path
               \/ \E j \in i + 1 .. n : frames[j].file = frames[i].file
               \/ \E j \in i .. n : frames[j].failed
        BY <2>1, <3>2, <4>1 DEF Marked, n
      <4>3. frames'[i].path \in beingImported'
        BY <4>1, <4>2
      <4>4. ASSUME NEW j \in i + 1 .. n + 1, ~CachedFile(frames'[j].file)
            PROVE  frames'[i].path # frames'[j].path
        <5>1. CASE j = n + 1
          BY <1>2, <1>3, <1>7, <4>1, <4>2, <4>4, <5>1
        <5>2. CASE j \in i + 1 .. n /\ j \in 1 .. n
          <6>1. frames'[j] = frames[j]
            BY <1>3, <5>2
          <6>2. ~CachedFile(frames[j].file)
            BY <4>4, <6>1
          <6>3. frames[i].path # frames[j].path
            BY <4>2, <5>2, <6>2
          <6> QED
            BY <4>1, <6>1, <6>3
        <5> QED
          BY <4>1, <5>1, <5>2
      <4>5. \/ canonicalCache'[frames'[i].file] = frames'[i].path
            \/ \E j \in i + 1 .. n + 1 : frames'[j].file = frames'[i].file
            \/ \E j \in i .. n + 1 : frames'[j].failed
        <5>1. CASE canonicalCache[frames[i].file] = frames[i].path
          <6>1. CASE frames[i].file = f
            <7>1. frames'[n + 1].file = frames'[i].file
              BY <1>2, <1>3, <4>1, <6>1
            <7>2. n + 1 \in i + 1 .. n + 1
              BY <4>1
            <7> QED
              BY <7>1, <7>2
          <6>2. CASE frames[i].file # f
            BY <1>7, <4>1, <5>1, <6>2
          <6> QED
            BY <6>1, <6>2
        <5>2. CASE \E j \in i + 1 .. n : frames[j].file = frames[i].file
          BY <1>3, <4>1, <5>2
        <5>3. CASE \E j \in i .. n : frames[j].failed
          BY <1>3, <4>1, <5>3
        <5> QED
          BY <4>2, <5>1, <5>2, <5>3
      <4> QED
        BY <4>3, <4>4, <4>5
    <3> QED
      BY <1>4, <3>1, <3>2, <3>4
  <2>6. Progress'
    <3> SUFFICES ASSUME NEW a \in Range(frames'), ~a.failed PROVE Done(a)'
      BY DEF Progress
    <3>1. a = b \/ a \in Range(frames)
      <4>1. DOMAIN frames = 1 .. n
        BY <1>1, LenProperties DEF n
      <4>2. DOMAIN frames' = 1 .. n + 1
        BY <1>3, LenProperties
      <4> QED
        BY <1>3, <1>4, <4>1, <4>2 DEF Range
    <3>2. \A x \in Range(frames) : x \in Frame
      BY <1>1, LenProperties DEF Range, n
    <3>3. a \in Frame /\ Done(a)
      <4>1. CASE a = b
        BY <1>1, <1>2, <4>1, Fresh
      <4>2. CASE a \in Range(frames)
        BY <2>1, <3>2, <4>2 DEF Progress
      <4> QED
        BY <3>1, <4>1, <4>2
    <3> QED
      BY <1>1, <2>1, <3>3, DoneGrows
  <2>7. Marks'
    <3>1. ASSUME Unmarking PROVE beingImported' \subseteq {frames'[i].path : i \in 2 .. n + 1}
      <4>1. beingImported \subseteq {frames[i].path : i \in 2 .. n}
        BY <2>1, <3>1 DEF Marks, n
      <4>2. \A i \in 2 .. n : frames'[i].path = frames[i].path /\ i \in 2 .. n + 1
        BY <1>3, <1>4
      <4>3. n + 1 \in 2 .. n + 1 /\ frames'[n + 1].path = Wanted.path
        BY <1>1, <1>2, <1>3
      <4> DEFINE S == {frames'[i].path : i \in 2 .. n + 1}
      <4>4. \A i \in 2 .. n + 1 : frames'[i].path \in S
        OBVIOUS
      <4>5. beingImported \subseteq S
        <5> SUFFICES ASSUME NEW p \in beingImported PROVE p \in S
          BY Zenon
        <5>1. PICK i \in 2 .. n : frames[i].path = p
          BY <4>1
        <5> HIDE DEF S
        <5> QED
          BY <4>2, <4>4, <5>1
      <4>6. Wanted.path \in S
        BY <4>3, <4>4
      <4>7. beingImported' \subseteq S
        <5> HIDE DEF S
        <5> QED
          BY <4>5, <4>6
      <4> QED
        BY <4>7, Zenon
    <3> QED
      BY <1>3, <3>1, SameProgram DEF Marks
  <2>8. Verdict'
    <3>1. ASSUME Acceptable, NEW i \in 1 .. n + 1 PROVE ~frames'[i].failed
      <4>1. CASE i \in 1 .. n
        BY <1>3, <2>1, <3>1, <4>1 DEF Verdict, n
      <4>2. CASE i = n + 1
        BY <1>2, <1>3, <4>2
      <4> QED
        BY <1>4, <4>1, <4>2
    <3>2. result = "running"
      BY DEF Importing
    <3> QED
      BY <1>3, <3>1, <3>2, SameProgram DEF Verdict
  <2>9. CyclesAreReal'
    BY <1>7, <2>1, SameProgram DEF CyclesAreReal, AllRequests
  <2> QED
    BY <2>2, <2>3, <2>4, <2>5, <2>6, <2>7, <2>8, <2>9 DEF Nesting
<1> QED
  BY <1>5, <1>6, <1>7, SameProgram DEF IInv, Core

(* A cached AST is that of the file that is asked for.                      *)
LEMMA CachedIsWanted ==
  ASSUME IInv, ImportCached
  PROVE  LET q == canonicalCache[Wanted.file]
             f == compiledModules[q]
         IN  /\ q \in Paths /\ f \in Files /\ CachedFile(Wanted.file)
             /\ OneFilePerPath => f = Wanted.file /\ IsPart(q, f) /\ program.status[f] = "fine"
<1> DEFINE q == canonicalCache[Wanted.file]
           f == compiledModules[q]
<1>1. Importing /\ q # NoPath /\ f # NoFile
  BY DEF ImportCached, Cached
<1>2. TypeOK
  BY DEF IInv, Core
<1>3. Wanted.file \in Files /\ q \in Paths /\ f \in Files
  BY <1>1, <1>2, Wants DEF TypeOK
<1>4. CachedFile(Wanted.file)
  BY <1>1 DEF CachedFile
<1>5. ASSUME OneFilePerPath PROVE f = Wanted.file /\ IsPart(q, f) /\ program.status[f] = "fine"
  <2>1. Caches /\ Finished
    BY <1>5 DEF IInv, Core, Nesting
  <2>2. IsPart(q, Wanted.file) /\ IsPart(q, f)
    BY <1>1, <1>3, <2>1 DEF Caches
  <2>3. f = Wanted.file
    BY <1>5, <2>2 DEF IsPart, OneFilePerPath
  <2> QED
    BY <1>3, <1>4, <2>1, <2>2, <2>3 DEF Finished, Fine
<1> HIDE DEF f, q
<1>6. /\ q \in Paths /\ f \in Files /\ CachedFile(Wanted.file)
      /\ OneFilePerPath => f = Wanted.file /\ IsPart(q, f) /\ program.status[f] = "fine"
  BY <1>3, <1>4, <1>5
<1> QED
  BY <1>6 DEF f, q

LEMMA HomeKnown ==
  ASSUME TypeOK, NEW p \in Paths
  PROVE  Home(p) \in Files
  BY LookupAssumption DEF TypeOK, Home

LEMMA CachedStep ==
  ASSUME IInv, ImportCached
  PROVE  Core'
<1> DEFINE f == compiledModules[canonicalCache[Wanted.file]]
           h == Home(Wanted.path)
<1>1. /\ Importing /\ Exists /\ frames' = Append(frames, Analyzer(Wanted.path, f, h))
      /\ UNCHANGED <<program, beingImported, canonicalCache, compiledModules, moduleFileIds,
                     cycles, result>>
  BY DEF ImportCached
<1>2. TypeOK
  BY DEF IInv, Core
<1>3. /\ f \in Files /\ CachedFile(Wanted.file)
      /\ OneFilePerPath => f = Wanted.file /\ program.status[f] = "fine"
  BY CachedIsWanted
<1>4. Wanted.path \in Paths /\ h \in Files
  BY <1>1, <1>2, Wants, HomeKnown
<1>5. /\ canonicalCache' \in [Files -> Paths \cup {NoPath}]
      /\ moduleFileIds' \in [Paths -> Files \cup {NoFile}]
  BY <1>1, <1>2 DEF TypeOK
<1>6. \A g \in Files : CachedFile(g)' <=> CachedFile(g)
  BY <1>1, CachesKept
<1> HIDE DEF f, h
<1> QED
  BY <1>1, <1>3, <1>4, <1>5, <1>6, Enters

LEMMA ParsedStep ==
  ASSUME IInv, ImportParsed
  PROVE  Core'
<1> DEFINE f == Wanted.file
           p == Wanted.path
<1>1. /\ Importing /\ Exists /\ frames' = Append(frames, Analyzer(p, f, f))
      /\ UNCHANGED <<program, compiledModules, cycles, result>>
      /\ moduleFileIds' = [moduleFileIds EXCEPT ![p] = f]
      /\ program.status[f] # "missing" /\ program.status[f] # "unparsable"
      /\ ~CachedFile(f) /\ p \notin beingImported
      /\ beingImported' = beingImported \cup {p}
      /\ canonicalCache' = [canonicalCache EXCEPT ![f] = p]
  BY DEF ImportParsed, Exists, Cached, CachedFile
<1>2. TypeOK
  BY DEF IInv, Core
<1>3. f \in Files /\ p \in Paths /\ (OneFilePerPath => IsPart(p, f))
  BY <1>1, Wants, WantsReal
<1> HIDE DEF f, p
<1>4. /\ canonicalCache' \in [Files -> Paths \cup {NoPath}]
      /\ moduleFileIds' \in [Paths -> Files \cup {NoFile}]
      /\ canonicalCache'[f] = p /\ \A g \in Files : g # f => canonicalCache'[g] = canonicalCache[g]
  BY <1>1, <1>2, <1>3 DEF TypeOK
<1>5. program.status[f] \in {"fine", "illtyped"}
  <2>1. program.status[f] \in Status
    BY <1>2, <1>3, Statuses
  <2> QED
    BY <1>1, <2>1 DEF Status
<1>6. ASSUME OneFilePerPath PROVE \A g \in Files : CachedFile(g)' <=> CachedFile(g)
  <2>1. Caches
    BY <1>6 DEF IInv, Core, Nesting
  <2>2. compiledModules[p] = NoFile
    <3>1. SUFFICES ASSUME compiledModules[p] # NoFile PROVE FALSE
      OBVIOUS
    <3>2. IsPart(p, compiledModules[p]) /\ CachedFile(compiledModules[p])
      BY <1>3, <2>1, <3>1 DEF Caches
    <3>3. compiledModules[p] = f
      BY <1>3, <1>6, <3>2 DEF IsPart, OneFilePerPath
    <3> QED
      BY <1>1, <3>2, <3>3
  <2>3. TAKE g \in Files
  <2>4. CASE g = f
    BY <1>1, <1>4, <2>2, <2>4 DEF CachedFile
  <2>5. CASE g # f
    BY <1>1, <1>4, <2>5 DEF CachedFile
  <2> QED
    BY <2>4, <2>5
<1>7. OneFilePerPath =>
        /\ f = Wanted.file
        /\ program.status[f] \in {"fine", "illtyped"}
        /\ \A g \in Files : CachedFile(g)' <=> CachedFile(g)
        /\ \A g \in Files : canonicalCache'[g] = canonicalCache[g]
                              \/ (g = f /\ canonicalCache'[g] = Wanted.path)
        /\ \/ CachedFile(f)
           \/ /\ Wanted.path \notin beingImported /\ Wanted.path \in beingImported'
              /\ canonicalCache'[f] = Wanted.path
  <2>1. f = Wanted.file /\ p = Wanted.path
    BY DEF f, p
  <2> QED
    BY <1>1, <1>3, <1>4, <1>5, <1>6, <2>1
<1>8. p = Wanted.path
  BY DEF p
<1> QED
  BY <1>1, <1>3, <1>4, <1>7, <1>8, Enters

(***************************************************************************)
(* A module that was imported.                                              *)
(***************************************************************************)

(* All imports of a file that was analysed without a failure are cached.    *)
LEMMA ImportsDone ==
  ASSUME TypeOK, NEW a \in Frame, Done(a), a.next > Len(Statements(a))
  PROVE  /\ \A g \in Imports(a.file) : CachedFile(g)
         /\ \A r \in Range(program.imports[a.file]) : r.clash = 0
<1>1. a.file \in Files /\ a.next \in Nat \ {0}
  BY Fields
<1> DEFINE s == program.imports[a.file]
<1>2. Len(s) \in Nat
  BY <1>1, Statuses, LenProperties
<1>3. Statements(a) = s /\ \A k \in 1 .. Len(s) : k < a.next
  BY <1>1, <1>2 DEF Statements
<1>4. \A k \in 1 .. Len(s) :
        s[k].clash = 0 /\ \A m \in 1 .. Len(s[k].parts) : CachedFile(s[k].parts[m].file)
  BY <1>3 DEF Done
<1>5. /\ \A g \in Imports(a.file) :
           \E k \in 1 .. Len(s) : \E m \in 1 .. Len(s[k].parts) : s[k].parts[m].file = g
      /\ \A r \in Range(s) : \E k \in 1 .. Len(s) : r = s[k]
  BY <1>1, ImportsOf
<1> HIDE DEF s
<1>6. \A g \in Imports(a.file) : CachedFile(g)
  BY <1>4, <1>5
<1>7. \A r \in Range(s) : r.clash = 0
  BY <1>4, <1>5
<1> QED
  BY <1>6, <1>7 DEF s

(* What leads out of a file all imports of which are cached is cached.      *)
LEMMA CachedClosed ==
  ASSUME TypeOK, Finished, NEW f \in Files, \A g \in Imports(f) : CachedFile(g)
  PROVE  /\ \A g : Leads(f, g) => g \in Files /\ CachedFile(g)
         /\ ~Leads(f, f)
<1> DEFINE C == {g \in Files : CachedFile(g)}
<1>1. C \in SUBSET Files /\ Imports(f) \subseteq C
  BY ImportsOf
<1>2. \A h \in C : Imports(h) \subseteq C
  BY ImportsOf DEF Finished
<1>3. \A g : Leads(f, g) => g \in C
  <2> HIDE DEF C
  <2> QED
    BY <1>1, <1>2, Led
<1> QED
  BY <1>3 DEF Finished

(* What the importer records of the module does not move it.                *)
LEMMA Recording ==
  ASSUME IInv, Len(frames) > 1
  PROVE  /\ Recorded \in Frame /\ Recorded.path = Caller.path /\ Recorded.file = Caller.file
         /\ Recorded.next = Caller.next /\ Recorded.part = Caller.part
         /\ Recorded.failed = Caller.failed
<1> DEFINE found == IF Asked(Caller).dir THEN <<>> ELSE Top.deps
           d == Absorb(Absorb(Caller.deps, found), <<Top.path>>)
<1>1. /\ Caller \in Frame /\ Caller.deps \in Seq(Paths) /\ found \in Seq(Paths)
      /\ <<Top.path>> \in Seq(Paths)
  BY Waits, Fields
<1>2. d \in Seq(Paths)
  <2> HIDE DEF found
  <2>1. Absorb(Caller.deps, found) \in Seq(Paths)
    BY <1>1, Absorbed
  <2> QED
    BY <1>1, <2>1, Absorbed
<1>3. Recorded = [Caller EXCEPT !.deps = d]
  BY DEF Recorded
<1> HIDE DEF d
<1> QED
  BY <1>1, <1>2, <1>3, Changing

(* How the importer goes on.                                                *)
GoesOn ==
  LET asked == Asked(Caller)
  IN  IF asked.clash = Caller.part THEN Failed(Recorded)
      ELSE IF Caller.part < Len(asked.parts) THEN [Recorded EXCEPT !.part = @ + 1]
      ELSE Succeeded(Recorded)

LEMMA Going ==
  ASSUME IInv, Len(frames) > 1
  PROVE  /\ GoesOn \in Frame /\ GoesOn.path = Caller.path /\ GoesOn.file = Caller.file
         /\ Standing(GoesOn)
         /\ \/ Asked(Caller).clash = Caller.part /\ GoesOn.failed = TRUE
            \/ /\ Asked(Caller).clash # Caller.part
               /\ GoesOn.failed = Caller.failed
               /\ \/ /\ Caller.part < Len(Asked(Caller).parts)
                     /\ GoesOn.next = Caller.next /\ GoesOn.part = Caller.part + 1
                  \/ /\ Caller.part = Len(Asked(Caller).parts)
                     /\ GoesOn.next = Caller.next + 1 /\ GoesOn.part = 1
<1> DEFINE R == Recorded
           asked == Asked(Caller)
           c == Caller
           l == Len(asked.parts)
<1>1. /\ R \in Frame /\ R.path = c.path /\ R.file = c.file /\ R.next = c.next
      /\ R.part = c.part /\ R.failed = c.failed
  BY Recording
<1>2. /\ TypeOK /\ c.part \in 1 .. l /\ c.part \in Nat \ {0} /\ l \in Nat
      /\ c.next \in 1 .. Len(Statements(c)) /\ c \in Frame
  <2>1. c \in Frame /\ c.part \in Nat \ {0} /\ TypeOK /\ c.file \in Files
    BY Waits, Fields DEF IInv, Core
  <2>2. c.next \in 1 .. Len(Statements(c)) /\ c.part \in 1 .. l
    BY Waits
  <2>3. l \in Nat
    BY <2>1, <2>2, Imported DEF Asked, Statements
  <2> QED
    BY <2>1, <2>2, <2>3
<1> HIDE DEF R, asked, c, l
<1>3. GoesOn = IF asked.clash = c.part THEN Failed(R)
               ELSE IF c.part < l THEN [R EXCEPT !.part = c.part + 1]
               ELSE Succeeded(R)
  BY <1>1 DEF GoesOn, R, asked, c, l
<1>4. CASE asked.clash = c.part
  <2>1. /\ Failed(R) \in Frame /\ Failed(R).path = R.path /\ Failed(R).file = R.file
        /\ Failed(R).failed = TRUE /\ Failed(R).part = 1
    BY <1>1, Failing
  <2>2. GoesOn = Failed(R)
    BY <1>3, <1>4
  <2>3. Standing(GoesOn)
    BY <1>2, <2>1, <2>2, FirstPart
  <2> QED
    BY <1>1, <1>4, <2>1, <2>2, <2>3 DEF asked, c
<1>5. CASE asked.clash # c.part /\ c.part < l
  <2> DEFINE b == [R EXCEPT !.part = c.part + 1]
  <2>1. c.part + 1 \in Nat \ {0}
    BY <1>2
  <2>2. /\ b \in Frame /\ b.path = R.path /\ b.file = R.file /\ b.failed = R.failed
        /\ b.next = R.next /\ b.part = c.part + 1
    BY <1>1, <2>1, Changing
  <2>3. GoesOn = b
    BY <1>3, <1>5
  <2> HIDE DEF b
  <2>4. Standing(GoesOn)
    <3>1. Asked(b) = asked
      BY <1>1, <2>2 DEF Asked, Statements, asked, c
    <3> QED
      BY <1>2, <1>5, <2>2, <2>3, <3>1 DEF Standing, l
  <2> QED
    BY <1>1, <1>5, <2>2, <2>3, <2>4 DEF asked, c, l
<1>6. CASE asked.clash # c.part /\ ~(c.part < l)
  <2>1. /\ Succeeded(R) \in Frame /\ Succeeded(R).path = R.path /\ Succeeded(R).file = R.file
        /\ Succeeded(R).failed = R.failed /\ Succeeded(R).next = R.next + 1 /\ Succeeded(R).part = 1
    BY <1>1, Succeeding
  <2>2. GoesOn = Succeeded(R)
    BY <1>3, <1>6
  <2>3. Standing(GoesOn)
    BY <1>2, <2>1, <2>2, FirstPart
  <2>4. c.part = l
    BY <1>2, <1>6
  <2> QED
    BY <1>1, <1>6, <2>1, <2>2, <2>3, <2>4 DEF asked, c, l
<1> QED
  BY <1>4, <1>5, <1>6

(* The importer has what it asked for.                                      *)
LEMMA GoesOnDone ==
  ASSUME IInv, Len(frames) > 1, UNCHANGED program, Done(Caller),
         \A f \in Files : CachedFile(f) => CachedFile(f)',
         NEW g, g = Asked(Caller).parts[Caller.part].file, CachedFile(g)',
         NEW b, b = GoesOn, ~b.failed
  PROVE  Done(b)'
<1>1. /\ TypeOK /\ GoesOn \in Frame /\ GoesOn.file = Caller.file
      /\ Caller \in Frame /\ Caller.file \in Files /\ Caller.next \in Nat \ {0}
      /\ Caller.next \in 1 .. Len(Statements(Caller))
      /\ Caller.part \in 1 .. Len(Asked(Caller).parts)
      /\ Asked(Caller).clash # Caller.part
      /\ \/ /\ Caller.part < Len(Asked(Caller).parts)
            /\ GoesOn.next = Caller.next /\ GoesOn.part = Caller.part + 1
         \/ /\ Caller.part = Len(Asked(Caller).parts)
            /\ GoesOn.next = Caller.next + 1 /\ GoesOn.part = 1
  BY Waits, Going, Fields DEF IInv, Core
<1>2. PICK s, c : s = program.imports[Caller.file] /\ c = Caller
  OBVIOUS
<1>3. Statements(c) = s /\ Asked(c) = s[c.next] /\ Statements(b) = s
  BY <1>1, <1>2 DEF Asked, Statements
<1>4. /\ Len(s) \in Nat
      /\ \A k \in 1 .. Len(s) :
           /\ s[k].clash \in Nat /\ s[k].clash <= Len(s[k].parts) /\ Len(s[k].parts) \in Nat
           /\ \A m \in 1 .. Len(s[k].parts) : s[k].parts[m].file \in Files
  BY <1>1, <1>2, Statuses, Imported, LenProperties
<1>5. c.next \in 1 .. Len(s) /\ c.part \in 1 .. Len(s[c.next].parts) /\ s[c.next].clash # c.part
  BY <1>1, <1>2, <1>3
<1>6. /\ \A k \in 1 .. Len(s) : k < c.next =>
           /\ s[k].clash = 0
           /\ \A m \in 1 .. Len(s[k].parts) : CachedFile(s[k].parts[m].file)'
      /\ s[c.next].clash = 0 \/ c.part <= s[c.next].clash
      /\ \A m \in 1 .. Len(s[c.next].parts) : m < c.part => CachedFile(s[c.next].parts[m].file)'
  <2>1. /\ \A k \in 1 .. Len(s) : k < c.next =>
             /\ s[k].clash = 0
             /\ \A m \in 1 .. Len(s[k].parts) : CachedFile(s[k].parts[m].file)
        /\ s[c.next].clash = 0 \/ c.part <= s[c.next].clash
        /\ \A m \in 1 .. Len(s[c.next].parts) : m < c.part => CachedFile(s[c.next].parts[m].file)
    <3>1. Done(c) /\ c.next <= Len(s)
      BY <1>2, <1>4, <1>5
    <3> QED
      BY <1>3, <3>1 DEF Done
  <2> QED
    BY <1>4, <1>5, <2>1
<1>7. CachedFile(s[c.next].parts[c.part].file)'
  <2>1. g = s[c.next].parts[c.part].file
    BY <1>2, <1>3
  <2> QED
    BY <2>1
<1>8. CASE b.next = c.next /\ b.part = c.part + 1 /\ c.part < Len(s[c.next].parts)
  <2>1. s[c.next].clash = 0 \/ b.part <= s[c.next].clash
    BY <1>4, <1>5, <1>6, <1>8
  <2>2. \A m \in 1 .. Len(s[c.next].parts) : m < b.part => m < c.part \/ m = c.part
    BY <1>5, <1>8
  <2>3. \A m \in 1 .. Len(s[c.next].parts) : m < b.part => CachedFile(s[c.next].parts[m].file)'
    BY <1>6, <1>7, <2>2
  <2>4. /\ \A k \in 1 .. Len(s) : k < b.next =>
             /\ s[k].clash = 0
             /\ \A m \in 1 .. Len(s[k].parts) : CachedFile(s[k].parts[m].file)'
        /\ b.next <= Len(s) =>
             /\ s[b.next].clash = 0 \/ b.part <= s[b.next].clash
             /\ \A m \in 1 .. Len(s[b.next].parts) : m < b.part => CachedFile(s[b.next].parts[m].file)'
    BY <1>6, <1>8, <2>1, <2>3
  <2>5. Done(b)'
    <3>1. Statements(b)' = s
      BY <1>1, <1>2 DEF Statements
    <3> QED
      BY <2>4, <3>1 DEF Done, Asked, CachedFile
  <2> QED
    BY <2>5
<1>9. CASE b.next = c.next + 1 /\ b.part = 1 /\ c.part = Len(s[c.next].parts)
  <2>1. s[c.next].clash = 0
    BY <1>4, <1>5, <1>6, <1>9
  <2>2. \A m \in 1 .. Len(s[c.next].parts) : m < c.part \/ m = c.part
    <3>1. Len(s[c.next].parts) \in Nat
      BY <1>4, <1>5
    <3> QED
      BY <1>9, <3>1, Below
  <2>3. \A m \in 1 .. Len(s[c.next].parts) : CachedFile(s[c.next].parts[m].file)'
    BY <1>6, <1>7, <2>2
  <2>4. \A k \in 1 .. Len(s) : k < b.next => k < c.next \/ k = c.next
    BY <1>4, <1>5, <1>9
  <2>5. \A k \in 1 .. Len(s) : k < b.next =>
          /\ s[k].clash = 0
          /\ \A m \in 1 .. Len(s[k].parts) : CachedFile(s[k].parts[m].file)'
    BY <1>6, <2>1, <2>3, <2>4
  <2>6. b.next <= Len(s) =>
          /\ s[b.next].clash = 0 \/ b.part <= s[b.next].clash
          /\ \A m \in 1 .. Len(s[b.next].parts) : m < b.part => CachedFile(s[b.next].parts[m].file)'
    <3>1. b.next <= Len(s) => b.next \in 1 .. Len(s)
      BY <1>4, <1>5, <1>9
    <3>2. b.next <= Len(s) => s[b.next].clash = 0 \/ b.part <= s[b.next].clash
      BY <1>4, <1>9, <3>1
    <3>3. \A m \in 1 .. Len(s[b.next].parts) : ~(m < b.part)
      BY <1>9
    <3> QED
      BY <3>2, <3>3
  <2>7. Done(b)'
    <3>1. Statements(b)' = s
      BY <1>1, <1>2 DEF Statements
    <3> QED
      BY <2>5, <2>6, <3>1 DEF Done, Asked, CachedFile
  <2> QED
    BY <2>7
<1>10. \/ b.next = c.next /\ b.part = c.part + 1 /\ c.part < Len(s[c.next].parts)
       \/ b.next = c.next + 1 /\ b.part = 1 /\ c.part = Len(s[c.next].parts)
  BY <1>1, <1>2, <1>3
<1> QED
  BY <1>8, <1>9, <1>10

LEMMA ImportedStep ==
  ASSUME IInv, ModuleImported
  PROVE  Core'
<1> DEFINE n == Len(frames)
           m == n - 1
<1>1. PICK b, q, f : b = GoesOn /\ q = Top.path /\ f = Top.file
  OBVIOUS
<1>2. /\ result = "running" /\ n > 1 /\ Len(frames) > 1 /\ ~HasErrors(Top)
      /\ Top.next > Len(Statements(Top))
      /\ frames' = WithCaller(b)
      /\ compiledModules' = [compiledModules EXCEPT ![q] = f]
      /\ beingImported' = beingImported \ {q}
      /\ UNCHANGED <<program, canonicalCache, moduleFileIds, cycles, result>>
  BY <1>1 DEF ModuleImported, Analysed, GoesOn
<1>3. /\ TypeOK /\ Placed /\ b \in Frame /\ b.file = frames[m].file /\ b.path = frames[m].path
      /\ Standing(b)
      /\ q \in Paths /\ f \in Files /\ q = frames[n].path /\ f = frames[n].file
      /\ Top = frames[n] /\ Caller = frames[m] /\ Top \in Frame
  BY <1>1, <1>2, Stack, Waits, Going DEF IInv, Core
<1>4. /\ n = Len(frames) /\ n \in Nat /\ m \in 1 .. m /\ n \in 2 .. n /\ m \in Nat /\ n = m + 1
      /\ \A i \in 1 .. m : i \in 1 .. n /\ i # n
      /\ \A i \in 2 .. m : i \in 2 .. n /\ i \in 1 .. m /\ i - 1 \in 1 .. m /\ i - 1 # m
      /\ \A i \in 2 .. n : i = n \/ i \in 2 .. m
      /\ \A i \in 1 .. n : frames[i] \in Frame
  <2>1. n = Len(frames) /\ n \in Nat /\ n > 1 /\ \A i \in 1 .. n : frames[i] \in Frame
    BY <1>2, <1>3, Stack
  <2> HIDE DEF n
  <2> QED
    BY <2>1
<1>5. /\ frames' \in Seq(Frame) /\ Len(frames') = m /\ frames'[m] = b
      /\ \A i \in 1 .. m : i # m => frames'[i] = frames[i]
      /\ \A i \in 1 .. m : frames'[i].file = frames[i].file /\ frames'[i].path = frames[i].path
  <2>1. /\ WithCaller(b) \in Seq(Frame) /\ Len(WithCaller(b)) = m
        /\ \A i \in 1 .. m : WithCaller(b)[i] = IF i = m THEN b ELSE frames[i]
    BY <1>2, <1>3, CallerReplaced
  <2> QED
    BY <1>2, <1>3, <1>4, <2>1
<1> HIDE DEF m, n
<1>6. /\ compiledModules' \in [Paths -> Files \cup {NoFile}] /\ compiledModules'[q] = f
      /\ \A p \in Paths : p # q => compiledModules'[p] = compiledModules[p]
  BY <1>2, <1>3 DEF TypeOK
<1>7. TypeOK'
  <2>1. frames' # <<>>
    BY <1>4, <1>5, EmptySeq
  <2> QED
    BY <1>2, <1>3, <1>5, <1>6, <2>1 DEF TypeOK
<1>8. Placed'
  <2>1. frames'[1].file = Main
    BY <1>3, <1>4, <1>5 DEF Placed
  <2>2. ASSUME NEW i \in 1 .. m PROVE Standing(frames[i])'
    <3>1. CASE i = m
      BY <1>2, <1>3, <1>5, <3>1 DEF Standing, Asked, Statements
    <3>2. CASE i # m
      <4>1. Standing(frames[i])
        BY <1>3, <1>4 DEF Placed
      <4> QED
        BY <1>2, <1>5, <3>2, <4>1 DEF Standing, Asked, Statements
    <3> QED
      BY <3>1, <3>2
  <2>3. ASSUME NEW i \in 2 .. m PROVE Waiting(frames[i - 1], frames[i])'
    <3>1. Waiting(frames[i - 1], frames[i])
      BY <1>3, <1>4 DEF Placed
    <3>2. frames'[i - 1] = frames[i - 1] /\ frames'[i].path = frames[i].path
      BY <1>4, <1>5
    <3> QED
      BY <1>2, <3>1, <3>2 DEF Waiting, Asked, Statements
  <2> QED
    BY <1>5, <2>1, <2>2, <2>3 DEF Placed
<1>9. ASSUME OneFilePerPath PROVE Nesting'
  <2>1. /\ Caches /\ Finished /\ Chain /\ Marked /\ Progress /\ Marks /\ Verdict /\ CyclesAreReal
    BY <1>9 DEF IInv, Core, Nesting
  <2>2. /\ IsPart(q, f) /\ program.status[f] \in {"fine", "illtyped"}
    BY <1>3, <1>4, <2>1 DEF Chain
  <2>3. ~frames[n].failed /\ program.status[f] # "illtyped"
    BY <1>2, <1>3 DEF HasErrors
  <2>4. Done(Top)
    <3>1. Top \in Range(frames)
      <4>1. DOMAIN frames = 1 .. n
        BY <1>3, <1>4, LenProperties DEF TypeOK
      <4> QED
        BY <1>3, <1>4, <4>1 DEF Range
    <3> QED
      BY <1>3, <2>1, <2>3, <3>1 DEF Progress
  <2>5. /\ \A g \in Imports(f) : CachedFile(g)
        /\ Fine(f)
    BY <1>1, <1>2, <1>3, <2>2, <2>3, <2>4, ImportsDone DEF Fine
  <2>6. ~Leads(f, f)
    BY <1>3, <2>1, <2>5, CachedClosed
  <2>7. ASSUME NEW g \in Files PROVE CachedFile(g)' <=> CachedFile(g) \/ g = f
    <3>1. CASE g = f
      <4>1. CASE CachedFile(g)
        <5>1. canonicalCache[g] \in Paths
          BY <1>3, <4>1 DEF TypeOK, CachedFile
        <5> QED
          BY <1>2, <1>3, <1>6, <3>1, <4>1, <5>1 DEF CachedFile
      <4>2. CASE ~CachedFile(g)
        <5>1. canonicalCache[g] = q
          <6>1. \A j \in n + 1 .. n : FALSE
            BY <1>4
          <6>2. \A j \in n .. n : j = n
            BY <1>4
          <6> QED
            BY <1>3, <1>4, <2>1, <2>3, <3>1, <4>2, <6>1, <6>2 DEF Marked
        <5> QED
          BY <1>2, <1>3, <1>6, <3>1, <5>1 DEF CachedFile
      <4> QED
        BY <3>1, <4>1, <4>2
    <3>2. CASE g # f
      <4>1. canonicalCache[g] # NoPath => canonicalCache[g] \in Paths /\ canonicalCache[g] # q
        <5>1. canonicalCache[g] # NoPath => canonicalCache[g] \in Paths /\ IsPart(canonicalCache[g], g)
          BY <1>3, <2>1 DEF TypeOK, Caches
        <5> QED
          BY <1>9, <2>2, <3>2, <5>1 DEF IsPart, OneFilePerPath
      <4> QED
        BY <1>2, <1>6, <3>2, <4>1 DEF CachedFile
    <3> QED
      BY <3>1, <3>2
  <2>8. Caches'
    <3>1. ASSUME NEW p \in Paths, NEW g, g = compiledModules'[p], g # NoFile
          PROVE  IsPart(p, g) /\ CachedFile(g)'
      <4>1. CASE p = q
        BY <1>3, <1>6, <2>2, <2>7, <3>1, <4>1
      <4>2. CASE p # q
        <5>1. g = compiledModules[p] /\ g \in Files
          BY <1>3, <1>6, <3>1, <4>2 DEF TypeOK
        <5> QED
          BY <2>1, <2>7, <3>1, <5>1 DEF Caches
      <4> QED
        BY <4>1, <4>2
    <3>2. \A g \in Files : canonicalCache'[g] # NoPath => IsPart(canonicalCache'[g], g)
      BY <1>2, <2>1 DEF Caches
    <3> QED
      BY <1>2, <3>1, <3>2 DEF Caches, IsPart, AllParts, AllRequests, CachedFile
  <2>9. Finished'
    <3>1. ASSUME NEW g \in Files, CachedFile(g)'
          PROVE  /\ \A h \in Imports(g) : CachedFile(h)'
                 /\ ~Leads(g, g)
                 /\ Fine(g)
      <4>1. \A h \in Imports(g) : CachedFile(h)
        BY <2>1, <2>5, <2>7, <3>1 DEF Finished
      <4>2. \A h \in Imports(g) : h \in Files
        BY <1>3, ImportsOf
      <4>3. ~Leads(g, g) /\ Fine(g)
        BY <2>1, <2>5, <2>6, <2>7, <3>1 DEF Finished
      <4> QED
        BY <2>7, <4>1, <4>2, <4>3
    <3> QED
      BY <1>2, <3>1, SameProgram DEF Finished
  <2>10. Chain'
    <3>1. ASSUME NEW i \in 2 .. m
          PROVE  /\ IsPart(frames'[i].path, frames'[i].file)
                 /\ program.status[frames'[i].file] \in {"fine", "illtyped"}
      BY <1>4, <1>5, <2>1 DEF Chain
    <3>2. ASSUME NEW i \in 1 .. m, NEW j \in 1 .. m, i < j
          PROVE  Leads(frames'[i].file, frames'[j].file)
      BY <1>4, <1>5, <2>1, <3>2 DEF Chain
    <3> QED
      BY <1>2, <1>5, <3>1, <3>2, SameProgram DEF Chain
  <2>11. b.failed \/ b.failed = frames[m].failed
    BY <1>1, <1>2, <1>3, Going
  <2>12. Marked'
    <3>0. \A i \in 1 .. m : CachedFile(frames[i].file)' <=> (CachedFile(frames[i].file) \/ frames[i].file = f)
      <4>1. \A i \in 1 .. m : frames'[i].file = frames[i].file /\ frames[i].file \in Files
        BY <1>4, <1>5, Fields
      <4> QED
        BY <2>7, <4>1 DEF CachedFile
    <3> SUFFICES ASSUME NEW i \in 2 .. m, ~CachedFile(frames[i].file), frames[i].file # f
                 PROVE  /\ frames[i].path \in beingImported'
                        /\ \A j \in i + 1 .. m :
                             ~CachedFile(frames[j].file) => frames[i].path # frames[j].path
                        /\ \/ canonicalCache[frames[i].file] = frames[i].path
                           \/ \E j \in i + 1 .. m : frames[j].file = frames[i].file
                           \/ \E j \in i .. m : frames'[j].failed
      <4>1. \A i \in 2 .. m : i \in 1 .. m /\ \A j \in i + 1 .. m : j \in 1 .. m
        BY <1>4
      <4> QED
        BY <1>2, <1>5, <3>0, <4>1 DEF Marked
    <3>1. /\ \A j \in i + 1 .. m : j \in i + 1 .. n
          /\ \A j \in i + 1 .. n : j = n \/ j \in i + 1 .. m
          /\ \A j \in i .. n : j = n \/ j \in i .. m
          /\ \A j \in i .. m : j \in 1 .. m
          /\ i \in 2 .. n /\ i \in 1 .. m
      BY <1>4
    <3>2. /\ frames[i].path \in beingImported
          /\ \A j \in i + 1 .. n :
               ~CachedFile(frames[j].file) => frames[i].path # frames[j].path
          /\ \/ canonicalCache[frames[i].file] = frames[i].path
             \/ \E j \in i + 1 .. n : frames[j].file = frames[i].file
             \/ \E j \in i .. n : frames[j].failed
      BY <1>4, <2>1, <3>1 DEF Marked
    <3>3. frames[i].path # q
      <4>1. IsPart(frames[i].path, frames[i].file)
        BY <1>4, <2>1, <3>1 DEF Chain
      <4> QED
        BY <1>9, <2>2, <4>1 DEF IsPart, OneFilePerPath
    <3>4. \/ canonicalCache[frames[i].file] = frames[i].path
          \/ \E j \in i + 1 .. m : frames[j].file = frames[i].file
          \/ \E j \in i .. m : frames'[j].failed
      <4>1. CASE \E j \in i + 1 .. n : frames[j].file = frames[i].file
        BY <1>3, <3>1, <4>1
      <4>2. CASE \E j \in i .. n : frames[j].failed
        <5>1. PICK j \in i .. m : frames[j].failed
          BY <2>3, <3>1, <4>2
        <5>2. frames'[j].failed
          BY <1>5, <2>11, <3>1, <5>1
        <5> QED
          BY <5>2
      <4> QED
        BY <3>2, <4>1, <4>2
    <3>5. \A j \in i + 1 .. m :
            ~CachedFile(frames[j].file) => frames[i].path # frames[j].path
      BY <3>1, <3>2
    <3>6. frames[i].path \in beingImported'
      BY <1>2, <3>2, <3>3
    <3> QED
      BY <3>4, <3>5, <3>6
  <2>13. Progress'
    <3> SUFFICES ASSUME NEW a \in Range(frames'), ~a.failed PROVE Done(a)'
      BY DEF Progress
    <3>1. a = b \/ (a \in Range(frames) /\ a \in Frame)
      <4>1. DOMAIN frames = 1 .. n /\ DOMAIN frames' = 1 .. m
        BY <1>3, <1>4, <1>5, LenProperties DEF TypeOK
      <4> QED
        BY <1>4, <1>5, <4>1 DEF Range
    <3>2. CASE a \in Range(frames) /\ a \in Frame
      <4>1. Done(a)
        BY <2>1, <3>2 DEF Progress
      <4> QED
        BY <1>2, <1>3, <2>7, <3>2, <4>1, DoneGrows
    <3>3. CASE a = b
      <4>1. Caller \in Range(frames) /\ ~Caller.failed
        <5>1. DOMAIN frames = 1 .. n
          BY <1>3, <1>4, LenProperties DEF TypeOK
        <5>2. ~Caller.failed
          BY <1>1, <1>2, <3>3, Going
        <5> QED
          BY <1>3, <1>4, <5>1, <5>2 DEF Range
      <4>2. Done(Caller)
        BY <2>1, <4>1 DEF Progress
      <4>3. PICK g : g = Asked(Caller).parts[Caller.part].file
        OBVIOUS
      <4>4. g = f
        <5>1. /\ TypeOK /\ Caller.file \in Files /\ Caller.next \in 1 .. Len(Statements(Caller))
              /\ Caller.part \in 1 .. Len(Asked(Caller).parts)
              /\ Top.path = Asked(Caller).parts[Caller.part].path
          BY <1>2, <1>3, Waits
        <5>2. IsPart(Asked(Caller).parts[Caller.part].path, Asked(Caller).parts[Caller.part].file)
          BY <5>1, Imported DEF Asked, Statements
        <5>3. IsPart(q, g)
          BY <1>1, <4>3, <5>1, <5>2
        <5> QED
          BY <1>9, <2>2, <5>3 DEF IsPart, OneFilePerPath
      <4>5. CachedFile(g)'
        BY <1>3, <2>7, <4>4
      <4>6. \A h \in Files : CachedFile(h) => CachedFile(h)'
        BY <2>7
      <4> QED
        BY <1>1, <1>2, <3>3, <4>2, <4>3, <4>5, <4>6, GoesOnDone
    <3> QED
      BY <3>1, <3>2, <3>3
  <2>14. Marks'
    <3>1. ASSUME Unmarking, NEW p \in beingImported'
          PROVE  \E i \in 2 .. m : frames'[i].path = p
      <4>1. p \in beingImported /\ p # q
        BY <1>2, <3>1
      <4>2. PICK i \in 2 .. n : frames[i].path = p
        BY <1>4, <2>1, <3>1, <4>1 DEF Marks
      <4>3. i \in 2 .. m /\ i \in 1 .. m
        BY <1>3, <1>4, <4>1, <4>2
      <4> QED
        BY <1>5, <4>2, <4>3
    <3>2. Unmarking => beingImported' \subseteq {frames'[i].path : i \in 2 .. m}
      BY <3>1
    <3> QED
      BY <1>2, <1>5, <3>2, SameProgram DEF Marks
  <2>15. Verdict'
    <3>1. ASSUME Acceptable, NEW i \in 1 .. m PROVE ~frames'[i].failed
      <4>1. ~frames[i].failed
        BY <1>4, <2>1, <3>1 DEF Verdict
      <4>2. CASE i = m
        <5>1. Asked(Caller).clash = 0
          BY <1>2, <1>9, <3>1, ClashUnsound
        <5>2. Caller.part \in Nat \ {0}
          BY <1>2, Waits, Fields
        <5>3. b.failed = frames[m].failed
          BY <1>1, <1>2, <1>3, <5>1, <5>2, Going
        <5> QED
          BY <1>5, <4>1, <4>2, <5>3
      <4>3. CASE i # m
        BY <1>5, <4>1, <4>3
      <4> QED
        BY <4>2, <4>3
    <3> QED
      BY <1>2, <1>5, <3>1, SameProgram DEF Verdict
  <2>16. CyclesAreReal'
    BY <1>2, <1>9, <2>1, SameProgram DEF CyclesAreReal, AllRequests
  <2> QED
    BY <2>8, <2>9, <2>10, <2>12, <2>13, <2>14, <2>15, <2>16 DEF Nesting
<1> QED
  BY <1>2, <1>7, <1>8, <1>9, SameProgram DEF IInv, Core

(***************************************************************************)
(* The analysis is over.                                                    *)
(***************************************************************************)
LEMMA FinishStep ==
  ASSUME IInv, Finish
  PROVE  Core'
<1>1. /\ result = "running" /\ Len(frames) = 1 /\ Top.next > Len(Statements(Top))
      /\ result' = IF HasErrors(Top) THEN "rejected" ELSE "accepted"
      /\ UNCHANGED <<program, frames, beingImported, canonicalCache, compiledModules, moduleFileIds, cycles>>
  BY DEF Finish, Analysed
<1>2. /\ TypeOK /\ Placed /\ Top \in Frame /\ Top = frames[1] /\ Top.file = Main
      /\ Main \in Files
  BY <1>1, Stack DEF IInv, Core, Placed
<1>3. TypeOK'
  BY <1>1, <1>2 DEF TypeOK
<1>4. Placed'
  <2>1. \A a : Standing(a)' <=> Standing(a)
    BY <1>1 DEF Standing, Asked, Statements
  <2> QED
    BY <1>1, <1>2 DEF Placed, Standing, Waiting, Asked, Statements
<1>5. ASSUME OneFilePerPath PROVE Nesting'
  <2>1. /\ Caches /\ Finished /\ Chain /\ Marked /\ Progress /\ Marks /\ Verdict /\ CyclesAreReal
    BY <1>5 DEF IInv, Core, Nesting
  <2>2. (\A f : CachedFile(f)' <=> CachedFile(f)) /\ (\A a : Done(a)' <=> Done(a)) /\ Caches' /\ Finished'
    BY <1>1, <2>1, CachesKept
  <2>3. Chain' /\ Marks' /\ CyclesAreReal'
    BY <1>1, <2>1, SameProgram DEF Chain, Marks, CyclesAreReal, AllRequests
  <2>4. Marked' /\ Progress'
    <3>1. Progress'
      BY <1>1, <2>1, <2>2 DEF Progress
    <3>2. Marked'
      BY <1>1, <2>1 DEF Marked, CachedFile
    <3> QED
      BY <3>1, <3>2
  <2>5. ASSUME ~HasErrors(Top) PROVE Sound
    <3>1. ~Top.failed /\ program.status[Main] = "fine"
      BY <1>2, <2>5, Statuses DEF HasErrors
    <3>2. Done(Top)
      <4>1. DOMAIN frames = 1 .. 1
        BY <1>1, <1>2, LenProperties DEF TypeOK
      <4>2. Top \in Range(frames)
        BY <1>2, <4>1 DEF Range
      <4> QED
        BY <2>1, <3>1, <4>2 DEF Progress
    <3>3. /\ \A g \in Imports(Main) : CachedFile(g)
          /\ Fine(Main)
      BY <1>1, <1>2, <3>1, <3>2, ImportsDone DEF Fine
    <3>4. /\ \A g : Leads(Main, g) => g \in Files /\ CachedFile(g)
          /\ ~Leads(Main, Main)
      BY <1>2, <2>1, <3>3, CachedClosed
    <3>5. \A f \in Analysable : Fine(f) /\ ~Leads(f, f)
      BY <2>1, <3>3, <3>4 DEF Analysable, Finished
    <3> QED
      BY <3>5 DEF Sound, Fine
  <2>6. HasErrors(Top) => ~Acceptable
    BY <1>5, ErrorsAreUnsound
  <2>7. Verdict'
    <3>1. Acceptable => \A i \in 1 .. Len(frames) : ~frames[i].failed
      BY <2>1 DEF Verdict
    <3>2. /\ result' = "accepted" => Sound /\ \A i \in 1 .. Len(frames) : ~frames[i].failed
          /\ result' = "rejected" => ~Acceptable
      <4>1. ~HasErrors(Top) => \A i \in 1 .. Len(frames) : ~frames[i].failed
        <5>1. \A i \in 1 .. Len(frames) : frames[i] = Top
          BY <1>1, <1>2
        <5> QED
          BY <5>1 DEF HasErrors
      <4> QED
        BY <1>1, <2>5, <2>6, <4>1
    <3> QED
      BY <1>1, <3>1, <3>2, SameProgram DEF Verdict
  <2> QED
    BY <2>2, <2>3, <2>4, <2>7 DEF Nesting
<1> QED
  BY <1>1, <1>3, <1>4, <1>5, SameProgram DEF IInv, Core

-----------------------------------------------------------------------------
LEMMA StuttersKeep ==
  ASSUME IInv, UNCHANGED vars
  PROVE  Core'
<1>1. /\ UNCHANGED <<program, frames, beingImported, canonicalCache, compiledModules,
                     moduleFileIds, cycles, result>>
      /\ TypeOK /\ Placed
  BY DEF vars, IInv, Core
<1>2. TypeOK'
  BY <1>1 DEF TypeOK
<1>3. Placed'
  BY <1>1 DEF Placed, Standing, Waiting, Asked, Statements
<1>4. ASSUME OneFilePerPath PROVE Nesting'
  <2>1. /\ Caches /\ Finished /\ Chain /\ Marked /\ Progress /\ Marks /\ Verdict /\ CyclesAreReal
    BY <1>4 DEF IInv, Core, Nesting
  <2>2. (\A a : Done(a)' <=> Done(a)) /\ Caches' /\ Finished'
    BY <1>1, <2>1, CachesKept
  <2>3. Chain' /\ Marks' /\ CyclesAreReal' /\ Verdict'
    BY <1>1, <2>1, SameProgram DEF Chain, Marks, CyclesAreReal, AllRequests, Verdict
  <2>4. Marked'
    BY <1>1, <2>1 DEF Marked, CachedFile
  <2>5. Progress'
    BY <1>1, <2>1, <2>2 DEF Progress
  <2> QED
    BY <2>2, <2>3, <2>4, <2>5 DEF Nesting
<1> QED
  BY <1>1, <1>2, <1>3, <1>4, SameProgram DEF IInv, Core

LEMMA InitIInv ==
  ASSUME Init
  PROVE  IInv
<1> DEFINE a == Analyzer(NoPath, Main, Main)
<1>1. /\ a \in Frame /\ a.file = Main /\ a.home = Main
      /\ a.next = 1 /\ a.part = 1 /\ a.failed = FALSE
  BY NoDeps DEF Analyzer, Frame
<1> HIDE DEF a
<1>2. /\ frames = <<a>> /\ program \in Programs /\ IsProgram(program)
      /\ beingImported = {} /\ cycles = {} /\ result = "running"
      /\ canonicalCache = [f \in Files |-> NoPath] /\ compiledModules = [p \in Paths |-> NoFile]
      /\ moduleFileIds = [p \in Paths |-> NoFile]
  BY DEF Init, a
<1>3. /\ frames \in Seq(Frame) /\ Len(frames) = 1 /\ frames[1] = a /\ DOMAIN frames = 1 .. 1
      /\ frames # <<>>
  BY <1>1, <1>2
<1>4. TypeOK
  BY <1>2, <1>3 DEF TypeOK
<1>5. \A i \in 1 .. 1 : i = 1
  BY SMT
<1>6. \A i \in 2 .. 1 : FALSE
  BY SMT
<1>7. Placed
  <2>1. Standing(a)
    BY <1>1, <1>4, FirstPart
  <2> QED
    BY <1>1, <1>3, <1>5, <1>6, <2>1 DEF Placed
<1>8. \A f \in Files : ~CachedFile(f)
  BY <1>2 DEF CachedFile
<1>9. Caches /\ Finished
  BY <1>2, <1>8 DEF Caches, Finished
<1>10. Chain /\ Marked
  <2>1. \A i, j \in 1 .. 1 : ~(i < j)
    BY SMT
  <2> QED
    BY <1>3, <1>6, <2>1 DEF Chain, Marked
<1>11. Progress
  BY <1>1, <1>3, <1>4, <1>5, Fresh DEF Progress, Range
<1>12. Marks /\ CyclesAreReal
  BY <1>2 DEF Marks, CyclesAreReal
<1>13. Verdict
  BY <1>1, <1>2, <1>3, <1>5 DEF Verdict
<1>14. Homes
  <2>1. \A x \in Range(frames) : x = a
    BY <1>2, <1>3 DEF Range
  <2> QED
    BY <1>1, <1>2, <2>1 DEF Homes, AtHome
<1> QED
  BY <1>4, <1>7, <1>9, <1>10, <1>11, <1>12, <1>13, <1>14 DEF IInv, Core, Nesting

(* Every step keeps the invariant.                                          *)
LEMMA NextCore ==
  ASSUME IInv, [Next]_vars
  PROVE  Core'
<1>1. CASE ImportMissing
  BY <1>1, MissingStep
<1>2. CASE ImportCached
  BY <1>2, CachedStep
<1>3. CASE ImportCircular
  BY <1>3, CircularStep
<1>4. CASE ImportUnparsable
  BY <1>4, UnparsableStep
<1>5. CASE ImportParsed
  BY <1>5, ParsedStep
<1>6. CASE HoistFails
  BY <1>6, HoistFailsStep
<1>7. CASE ModuleRejected
  BY <1>7, RejectedStep
<1>8. CASE NamesClash
  BY <1>8, ClashStep
<1>9. CASE ModuleImported
  BY <1>9, ImportedStep
<1>10. CASE Finish
  BY <1>10, FinishStep
<1>11. CASE UNCHANGED vars
  BY <1>11, StuttersKeep
<1> QED
  BY <1>1, <1>2, <1>3, <1>4, <1>5, <1>6, <1>7, <1>8, <1>9, <1>10, <1>11 DEF Next

(* Where the analyzers believe they are.                                    *)
LEMMA SameHome ==
  ASSUME NEW a, NEW b, b.path = a.path, b.file = a.file, b.home = a.home, AtHome(a)
  PROVE  AtHome(b)
  BY DEF AtHome, Astray

LEMMA HomeKept ==
  ASSUME NEW a \in Frame
  PROVE  /\ Failed(a).home = a.home /\ Succeeded(a).home = a.home
         /\ [a EXCEPT !.pass = "body", !.failed = TRUE].home = a.home
         /\ \A n : [a EXCEPT !.part = n].home = a.home
         /\ \A d : [a EXCEPT !.deps = d].home = a.home
<1>1. Succeeded(a) \in Frame
  BY Succeeding
<1>2. Succeeded(a).home = a.home
  BY DEF Succeeded, Frame
<1>3. [Succeeded(a) EXCEPT !.failed = TRUE].home = Succeeded(a).home
  BY <1>1 DEF Frame
<1>4. [a EXCEPT !.pass = "body", !.part = 1, !.failed = TRUE].home = a.home
  BY DEF Frame
<1>5. Failed(a).home = a.home
  BY <1>2, <1>3, <1>4 DEF Failed
<1>6. /\ [a EXCEPT !.pass = "body", !.failed = TRUE].home = a.home
      /\ \A n : [a EXCEPT !.part = n].home = a.home
      /\ \A d : [a EXCEPT !.deps = d].home = a.home
  BY DEF Frame
<1> QED
  BY <1>2, <1>5, <1>6

LEMMA HomesKept ==
  ASSUME Homes, UNCHANGED program, NEW b, AtHome(b),
         \A a \in Range(frames') : a \in Range(frames) \/ a = b,
         \A p \in Paths : moduleFileIds'[p] # NoFile => IsPart(p, moduleFileIds'[p]),
         \A f \in Files : canonicalCache'[f] # NoPath => moduleFileIds'[canonicalCache'[f]] # NoFile
  PROVE  Homes'
<1>1. ASSUME NEW a \in Range(frames') PROVE AtHome(a)'
  <2>1. AtHome(a)
    BY <1>1 DEF Homes
  <2> QED
    BY <2>1 DEF AtHome, Astray, IsPart, AllParts, AllRequests
<1> QED
  BY <1>1, SameProgram DEF Homes

(* Only an import that is parsed adds to module_file_ids.                   *)
LEMMA HomesStay ==
  ASSUME Homes, UNCHANGED <<program, canonicalCache, moduleFileIds>>, NEW b, AtHome(b),
         \A a \in Range(frames') : a \in Range(frames) \/ a = b
  PROVE  Homes'
  BY HomesKept DEF Homes

LEMMA TopHome ==
  ASSUME IInv, OneFilePerPath
  PROVE  /\ TypeOK /\ Homes /\ Top \in Frame /\ AtHome(Top)
         /\ Len(frames) > 1 => Caller \in Frame /\ AtHome(Caller)
  BY Stack, Elements DEF IInv, Core, Homes

(* The innermost analyzer fails.                                            *)
LEMMA TopFailsHomes ==
  ASSUME IInv, OneFilePerPath,
         ImportMissing \/ ImportCircular \/ ImportUnparsable \/ HoistFails
  PROVE  Homes'
<1>1. Top \in Frame /\ AtHome(Top)
  BY TopHome
<1>2. PICK b \in Frame : AtHome(b) /\ frames' = WithTop(b)
  <2>1. CASE HoistFails
    <3> DEFINE b == [Top EXCEPT !.pass = "body", !.failed = TRUE]
    <3>1. b \in Frame /\ b.path = Top.path /\ b.file = Top.file /\ b.home = Top.home
      BY <1>1, HoistEnding, HomeKept
    <3>2. frames' = WithTop(b)
      BY <2>1 DEF HoistFails
    <3> HIDE DEF b
    <3> QED
      BY <1>1, <3>1, <3>2, SameHome
  <2>2. CASE ~HoistFails
    <3>1. /\ Failed(Top) \in Frame /\ Failed(Top).path = Top.path
          /\ Failed(Top).file = Top.file /\ Failed(Top).home = Top.home
      BY <1>1, Failing, HomeKept
    <3>2. AtHome(Failed(Top))
      BY <1>1, <3>1, SameHome
    <3>3. frames' = WithTop(Failed(Top))
      BY <2>2 DEF ImportMissing, ImportCircular, ImportUnparsable
    <3> QED
      BY <3>1, <3>2, <3>3
  <2> QED
    BY <2>1, <2>2
<1>3. UNCHANGED <<program, canonicalCache, moduleFileIds>>
  BY DEF ImportMissing, ImportCircular, ImportUnparsable, HoistFails
<1>4. \A a \in Range(frames') : a \in Range(frames) \/ a = b
  BY <1>2, TopHome, Elements
<1> QED
  BY <1>2, <1>3, <1>4, TopHome, HomesStay

(* The importer of the innermost analyzer goes on or fails.                 *)
LEMMA CallerHomes ==
  ASSUME IInv, OneFilePerPath, ModuleRejected \/ NamesClash \/ ModuleImported
  PROVE  Homes'
<1>1. /\ Len(frames) > 1 /\ Caller \in Frame /\ AtHome(Caller)
      /\ UNCHANGED <<program, canonicalCache, moduleFileIds>>
  BY TopHome DEF ModuleRejected, NamesClash, ModuleImported
<1>2. \E b \in Frame : AtHome(b) /\ frames' = WithCaller(b)
  <2>1. CASE ModuleRejected
    <3>1. /\ Failed(Caller) \in Frame /\ Failed(Caller).path = Caller.path
          /\ Failed(Caller).file = Caller.file /\ Failed(Caller).home = Caller.home
      BY <1>1, Failing, HomeKept
    <3>2. frames' = WithCaller(Failed(Caller))
      BY <2>1 DEF ModuleRejected
    <3>3. AtHome(Failed(Caller))
      BY <1>1, <3>1, SameHome
    <3> QED
      BY <3>1, <3>2, <3>3
  <2>2. CASE NamesClash
    <3> DEFINE d == Absorb(Caller.deps, Top.deps)
               a == [Caller EXCEPT !.deps = d]
    <3>1. d \in Seq(Paths)
      BY <1>1, Waits, Fields, Absorbed
    <3>2. frames' = WithCaller(Failed(a))
      BY <2>2 DEF NamesClash
    <3> HIDE DEF d
    <3>3. a \in Frame /\ a.path = Caller.path /\ a.file = Caller.file /\ a.home = Caller.home
      BY <1>1, <3>1, Changing, HomeKept
    <3> HIDE DEF a
    <3>4. /\ Failed(a) \in Frame /\ Failed(a).path = a.path /\ Failed(a).file = a.file
          /\ Failed(a).home = a.home
      BY <3>3, Failing, HomeKept
    <3>5. AtHome(Failed(a))
      BY <1>1, <3>3, <3>4, SameHome
    <3> QED
      BY <3>2, <3>4, <3>5
  <2>3. CASE ModuleImported
    <3>1. Recorded \in Frame /\ GoesOn \in Frame /\ GoesOn.path = Caller.path /\ GoesOn.file = Caller.file
      BY <1>1, Recording, Going
    <3>2. frames' = WithCaller(GoesOn)
      BY <2>3 DEF ModuleImported, GoesOn
    <3>3. Recorded.home = Caller.home
      BY <1>1, HomeKept DEF Recorded
    <3>4. GoesOn.home = Recorded.home
      BY <3>1, HomeKept DEF GoesOn
    <3>5. AtHome(GoesOn)
      BY <1>1, <3>1, <3>3, <3>4, SameHome
    <3> QED
      BY <3>1, <3>2, <3>5
  <2> QED
    BY <2>1, <2>2, <2>3
<1>3. PICK b \in Frame : AtHome(b) /\ frames' = WithCaller(b)
  BY <1>2
<1>4. \A a \in Range(frames') : a \in Range(frames) \/ a = b
  BY <1>1, <1>3, TopHome, Elements
<1> QED
  BY <1>1, <1>3, <1>4, TopHome, HomesStay

(* A cached module under a path that is not known was parsed under another. *)
LEMMA CachedHomes ==
  ASSUME IInv, OneFilePerPath, ImportCached
  PROVE  Homes'
<1> DEFINE p == Wanted.path
           q == canonicalCache[Wanted.file]
           f == compiledModules[q]
           b == Analyzer(p, f, Home(p))
<1>1. /\ Importing /\ Exists /\ UNCHANGED <<program, canonicalCache, moduleFileIds>>
      /\ frames' = Append(frames, b)
  BY DEF ImportCached
<1>2. /\ TypeOK /\ Homes /\ p \in Paths /\ Wanted.file \in Files
      /\ q \in Paths /\ f \in Files /\ f = Wanted.file /\ IsPart(q, f)
      /\ IsPart(p, f)
  BY <1>1, TopHome, Wants, WantsReal, CachedIsWanted
<1>3. b \in Frame /\ b.path = p /\ b.file = f /\ b.home = Home(p)
  BY <1>2, HomeKnown, NoDeps DEF Analyzer, Frame
<1>4. moduleFileIds[q] # NoFile
  BY <1>2 DEF Homes
<1> HIDE DEF b, f, q, p
<1>5. AtHome(b)
  <2>1. CASE moduleFileIds[p] # NoFile
    <3>1. IsPart(p, moduleFileIds[p]) /\ Home(p) = moduleFileIds[p]
      BY <1>2, <2>1 DEF Homes, Home
    <3>2. moduleFileIds[p] = f
      BY <1>2, <3>1 DEF IsPart, OneFilePerPath
    <3> QED
      BY <1>3, <3>1, <3>2 DEF AtHome
  <2>2. CASE moduleFileIds[p] = NoFile
    <3>1. Home(p) = MadeUp[p] /\ q # p
      BY <1>4, <2>2 DEF Home
    <3> QED
      BY <1>2, <1>3, <3>1 DEF AtHome, Astray
  <2> QED
    BY <2>1, <2>2
<1>6. \A a \in Range(frames') : a \in Range(frames) \/ a = b
  BY <1>1, <1>2, <1>3, Elements
<1> QED
  BY <1>1, <1>2, <1>5, <1>6, HomesStay

LEMMA ParsedHomes ==
  ASSUME IInv, OneFilePerPath, ImportParsed
  PROVE  Homes'
<1> DEFINE f == Wanted.file
           p == Wanted.path
           b == Analyzer(p, f, f)
<1>1. /\ Importing /\ Exists /\ UNCHANGED program
      /\ frames' = Append(frames, b)
      /\ canonicalCache' = [canonicalCache EXCEPT ![f] = p]
      /\ moduleFileIds' = [moduleFileIds EXCEPT ![p] = f]
  BY DEF ImportParsed
<1>2. TypeOK /\ Homes /\ p \in Paths /\ f \in Files /\ IsPart(p, f) /\ f # NoFile
  BY <1>1, TopHome, Wants, WantsReal
<1>3. b \in Frame /\ b.file = f /\ b.home = f
  BY <1>2, NoDeps DEF Analyzer, Frame
<1> HIDE DEF b, f, p
<1>4. AtHome(b)
  BY <1>3 DEF AtHome
<1>5. \A a \in Range(frames') : a \in Range(frames) \/ a = b
  BY <1>1, <1>2, <1>3, Elements
<1>6. /\ moduleFileIds'[p] = f
      /\ \A x \in Paths : x # p => moduleFileIds'[x] = moduleFileIds[x]
      /\ canonicalCache'[f] = p
      /\ \A g \in Files : g # f => canonicalCache'[g] = canonicalCache[g]
      /\ \A g \in Files : canonicalCache[g] \in Paths \/ canonicalCache[g] = NoPath
  BY <1>1, <1>2 DEF TypeOK
<1>7. \A x \in Paths : moduleFileIds'[x] # NoFile => IsPart(x, moduleFileIds'[x])
  BY <1>2, <1>6 DEF Homes
<1>8. ASSUME NEW g \in Files, canonicalCache'[g] # NoPath
      PROVE  moduleFileIds'[canonicalCache'[g]] # NoFile
  <2>1. CASE g = f
    BY <1>2, <1>6, <2>1
  <2>2. CASE g # f
    <3>1. canonicalCache'[g] = canonicalCache[g] /\ canonicalCache[g] \in Paths
      BY <1>6, <1>8, <2>2
    <3>2. moduleFileIds[canonicalCache[g]] # NoFile
      BY <1>2, <1>8, <3>1 DEF Homes
    <3> QED
      BY <1>2, <1>6, <3>1, <3>2
  <2> QED
    BY <2>1, <2>2
<1> QED
  BY <1>1, <1>2, <1>4, <1>5, <1>7, <1>8, HomesKept

(* Every step keeps the invariant.                                          *)
LEMMA NextIInv ==
  ASSUME IInv, [Next]_vars
  PROVE  IInv'
<1>1. Core'
  BY NextCore
<1>2. OneFilePerPath' <=> OneFilePerPath
  <2>1. program' = program
    BY DEF Next, vars, ImportMissing, ImportCached, ImportCircular, ImportUnparsable,
           ImportParsed, HoistFails, ModuleRejected, NamesClash, ModuleImported, Finish
  <2> QED
    BY <2>1, SameProgram
<1>3. ASSUME OneFilePerPath PROVE Homes'
  <2>1. CASE ImportMissing \/ ImportCircular \/ ImportUnparsable \/ HoistFails
    BY <1>3, <2>1, TopFailsHomes
  <2>2. CASE ImportCached
    BY <1>3, <2>2, CachedHomes
  <2>3. CASE ImportParsed
    BY <1>3, <2>3, ParsedHomes
  <2>4. CASE ModuleRejected \/ NamesClash \/ ModuleImported
    BY <1>3, <2>4, CallerHomes
  <2>5. CASE Finish \/ UNCHANGED vars
    <3>1. UNCHANGED <<program, frames, canonicalCache, moduleFileIds>>
      BY <2>5 DEF Finish, vars
    <3> QED
      BY <1>3, <3>1, TopHome, HomesStay
  <2> QED
    BY <2>1, <2>2, <2>3, <2>4, <2>5 DEF Next
<1> QED
  BY <1>1, <1>2, <1>3 DEF IInv

(* In every behaviour the caches, the marks, the stack of analyzers and the *)
(* errors fit together as IInv says (ModuleResolver, and the recursion of   *)
(* analyze_imported_module through it).                                     *)
THEOREM InductiveInvariant == Spec => []IInv
<1>1. Init => IInv
  BY InitIInv
<1>2. IInv /\ [Next]_vars => IInv'
  BY NextIInv
<1> QED
  BY <1>1, <1>2, PTL DEF Spec

(* Every variable has its type (the fields of ModuleResolver, the program). *)
THEOREM TypeCorrect == Spec => []TypeOK
<1>1. IInv => TypeOK
  BY DEF IInv, Core
<1> QED
  BY <1>1, InductiveInvariant, PTL

(* Where every path denotes one file, no file is analysed inside its own    *)
(* analysis, although a cached module is not marked as being imported       *)
(* (resolve_import_path): what is cached was imported without an error, and *)
(* does not lead back to itself.                                            *)
THEOREM NoEndlessNesting == Spec => []NoEndlessImports
<1>1. ASSUME IInv PROVE NoEndlessImports
  <2> SUFFICES ASSUME OneFilePerPath, NEW i \in 2 .. Len(frames), NEW j \in 2 .. Len(frames),
                      frames[i].path = frames[j].path, frames[i].file = frames[j].file, i < j
               PROVE  FALSE
    <3>1. \A i, j \in 2 .. Len(frames) : i = j \/ i < j \/ j < i
      BY <1>1, Stack DEF IInv, Core
    <3> QED
      BY <3>1 DEF NoEndlessImports, AnalysedOnceAtATime
  <2>1. Chain /\ Finished /\ Marked /\ TypeOK
    BY <1>1 DEF IInv, Core, Nesting
  <2>2. i \in 1 .. Len(frames) /\ j \in 1 .. Len(frames) /\ j \in i + 1 .. Len(frames)
    BY <2>1, Stack
  <2>3. Leads(frames[i].file, frames[i].file) /\ frames[i].file \in Files
    BY <2>1, <2>2, Stack, Fields DEF Chain
  <2>4. ~CachedFile(frames[i].file)
    BY <2>1, <2>3 DEF Finished
  <2> QED
    BY <2>1, <2>2, <2>4 DEF Marked
<1> QED
  BY <1>1, InductiveInvariant, PTL

(* A program is accepted only when all that the compiler reaches is fine,   *)
(* and every such program is accepted in which a module imported by two     *)
(* paths finds its own imports by both, where every path denotes one file   *)
(* (being_imported, module_file_ids, analyze_imported_module, the retry in  *)
(* analyze_nodes).                                                          *)
THEOREM VerdictIsRight == Spec => []AcceptedIffSound
<1>1. ASSUME IInv PROVE AcceptedIffSound
  <2>1. result \in {"running", "accepted", "rejected"}
    BY <1>1 DEF IInv, Core, TypeOK
  <2>2. OneFilePerPath => /\ result = "accepted" => Sound
                          /\ result = "rejected" => ~Acceptable
    BY <1>1 DEF IInv, Core, Nesting, Verdict
  <2> QED
    BY <2>1, <2>2 DEF AcceptedIffSound, Acceptable
<1> QED
  BY <1>1, InductiveInvariant, PTL

(* A circular import is reported only where the imported file leads back to *)
(* the importing one (resolve_import_path), in the programs in which no     *)
(* path stays marked after its import failed.                               *)
THEOREM ReportedCyclesAreReal == Spec => []CyclesAreReal
<1>1. IInv => CyclesAreReal
  <2>1. CASE OneFilePerPath
    BY <2>1 DEF IInv, Core, Nesting
  <2>2. CASE ~OneFilePerPath
    BY <2>2 DEF CyclesAreReal
  <2> QED
    BY <2>1, <2>2
<1> QED
  BY <1>1, InductiveInvariant, PTL

-----------------------------------------------------------------------------
(***************************************************************************)
(* The order of initialisation.                                             *)
(***************************************************************************)
Needs(f) == {p.path : p \in UNION {Range(r.parts) : r \in Range(program.imports[f])}}

FileOf(path) == (CHOOSE p \in AllParts : p.path = path).file

(* Every module stands after those it imports.                              *)
Ordered(s) == \A i \in 1 .. Len(s) : Needs(FileOf(s[i])) \subseteq {s[j] : j \in 1 .. i - 1}

(* The modules an analyzer has imported are in its list.                    *)
Found(a) ==
  \A k \in 1 .. Len(Statements(a)) : k < a.next =>
    \A m \in 1 .. Len(Statements(a)[k].parts) : Statements(a)[k].parts[m].path \in Range(a.deps)

Listed(a) == Ordered(a.deps) /\ (~a.failed => Found(a))

Plain == OneFilePerPath /\ \A r \in AllRequests : ~r.dir

Order ==
  /\ Plain => \A a \in Range(frames) : Listed(a)
  /\ result # "running" => Len(frames) = 1 /\ Top.next > Len(Statements(Top))

LEMMA AppendOrdered ==
  ASSUME NEW s \in Seq(Paths), NEW x \in Paths, Ordered(s), Needs(FileOf(x)) \subseteq Range(s)
  PROVE  /\ Append(s, x) \in Seq(Paths) /\ Ordered(Append(s, x))
         /\ Range(Append(s, x)) = Range(s) \cup {x}
<1> DEFINE n == Len(s)
           t == Append(s, x)
<1>1. /\ t \in Seq(Paths) /\ Len(t) = n + 1 /\ t[n + 1] = x
      /\ \A i \in 1 .. n : t[i] = s[i]
  BY AppendProperties
<1>2. n \in Nat /\ \A y : y \in Range(s) <=> \E i \in 1 .. n : s[i] = y
  BY Indexed
<1> HIDE DEF t, n
<1>3. \A y : y \in Range(t) <=> \E i \in 1 .. n + 1 : t[i] = y
  BY <1>1, Indexed
<1>4. \A i \in 1 .. n + 1 : i \in 1 .. n \/ i = n + 1
  BY <1>2
<1>5. \A i \in 1 .. n : i \in 1 .. n + 1 /\ \A j \in 1 .. i - 1 : j \in 1 .. n
  BY <1>2
<1>6. n + 1 \in 1 .. n + 1 /\ n + 1 - 1 = n
  BY <1>2
<1>7. Range(t) = Range(s) \cup {x}
  BY <1>1, <1>2, <1>3, <1>4, <1>5, <1>6
<1>8. ASSUME NEW i \in 1 .. n + 1 PROVE Needs(FileOf(t[i])) \subseteq {t[j] : j \in 1 .. i - 1}
  <2>1. CASE i \in 1 .. n
    <3>1. Needs(FileOf(s[i])) \subseteq {s[j] : j \in 1 .. i - 1}
      BY <2>1 DEF Ordered, n
    <3>2. t[i] = s[i] /\ \A j \in 1 .. i - 1 : t[j] = s[j]
      BY <1>1, <1>5, <2>1
    <3>3. {s[j] : j \in 1 .. i - 1} = {t[j] : j \in 1 .. i - 1}
      BY <3>2
    <3> QED
      BY <3>1, <3>2, <3>3
  <2>2. CASE i = n + 1
    <3>1. Range(s) = {t[j] : j \in 1 .. i - 1}
      BY <1>1, <1>2, <1>6, <2>2
    <3>2. t[i] = x
      BY <1>1, <2>2
    <3> QED
      BY <3>1, <3>2
  <2> QED
    BY <1>4, <2>1, <2>2
<1>9. Ordered(t)
  BY <1>1, <1>8 DEF Ordered
<1> QED
  BY <1>1, <1>7, <1>9 DEF t

(* Absorbing modules that stand after those they import keeps the order.    *)
LEMMA AbsorbOrdered ==
  ASSUME NEW deps \in Seq(Paths), NEW others \in Seq(Paths), Ordered(deps),
         \A i \in 1 .. Len(others) :
           Needs(FileOf(others[i])) \subseteq Range(deps) \cup {others[j] : j \in 1 .. i - 1}
  PROVE  /\ Ordered(Absorb(deps, others))
         /\ Range(deps) \subseteq Range(Absorb(deps, others))
         /\ Range(others) \subseteq Range(Absorb(deps, others))
<1> DEFINE n == Len(others)
<1>0. \E after \in [0 .. Len(others) -> Seq(Paths)] :
        /\ Absorb(deps, others) = after[Len(others)]
        /\ after[0] = deps
        /\ \A i \in 1 .. Len(others) :
             after[i] = IF others[i] \in Range(after[i - 1]) THEN after[i - 1]
                        ELSE Append(after[i - 1], others[i])
  BY AbsorbDefined
<1>1. PICK after \in [0 .. n -> Seq(Paths)] :
        /\ Absorb(deps, others) = after[n]
        /\ after[0] = deps
        /\ \A i \in 1 .. n :
             after[i] = IF others[i] \in Range(after[i - 1]) THEN after[i - 1]
                        ELSE Append(after[i - 1], others[i])
  BY <1>0
<1>2. n \in Nat /\ \A i \in 1 .. n : others[i] \in Paths
  BY LenProperties, ElementOfSeq
<1> DEFINE Good(i) == /\ Ordered(after[i])
                      /\ Range(deps) \subseteq Range(after[i])
                      /\ \A j \in 1 .. i : others[j] \in Range(after[i])
           T == {i \in 0 .. n : Good(i)}
<1>3. Good(0)
  <2>1. \A j \in 1 .. 0 : FALSE
    OBVIOUS
  <2> QED
    BY <1>1, <2>1
<1>4. ASSUME NEW i \in 0 .. n, i # n, Good(i) PROVE Good(i + 1)
  <2> DEFINE s == after[i]
             x == others[i + 1]
  <2>1. /\ i + 1 \in 1 .. n /\ i + 1 - 1 = i
        /\ \A j \in 1 .. i + 1 : j \in 1 .. i \/ j = i + 1
    BY <1>2, <1>4
  <2>2. /\ s \in Seq(Paths) /\ x \in Paths
        /\ after[i + 1] = IF x \in Range(s) THEN s ELSE Append(s, x)
    BY <1>1, <1>2, <2>1
  <2>3. /\ Ordered(s) /\ Range(deps) \subseteq Range(s)
        /\ \A j \in 1 .. i : others[j] \in Range(s)
    BY <1>4
  <2>4. Needs(FileOf(x)) \subseteq Range(s)
    <3>1. Needs(FileOf(x)) \subseteq Range(deps) \cup {others[j] : j \in 1 .. i}
      BY <2>1
    <3> QED
      BY <2>3, <3>1
  <2> HIDE DEF s, x
  <2>5. /\ Ordered(after[i + 1]) /\ Range(s) \subseteq Range(after[i + 1])
        /\ x \in Range(after[i + 1])
    <3>1. CASE x \in Range(s)
      BY <2>2, <2>3, <3>1
    <3>2. CASE x \notin Range(s)
      BY <2>2, <2>3, <2>4, <3>2, AppendOrdered
    <3> QED
      BY <3>1, <3>2
  <2>6. \A j \in 1 .. i + 1 : others[j] \in Range(after[i + 1])
    BY <2>1, <2>3, <2>5 DEF x
  <2> QED
    BY <2>3, <2>5, <2>6
<1> HIDE DEF Good
<1>5. 0 \in T
  BY <1>2, <1>3
<1>6. \A i \in 0 .. n : i \in T /\ i # n => i + 1 \in T
  <2> SUFFICES ASSUME NEW i \in 0 .. n, i \in T, i # n PROVE i + 1 \in T
    OBVIOUS
  <2>1. i + 1 \in 0 .. n
    BY <1>2
  <2> QED
    BY <1>4, <2>1
<1>7. n \in T
  <2> HIDE DEF T, n
  <2>1. 0 .. n \subseteq T
    BY <1>2, <1>5, <1>6, Induction
  <2> QED
    BY <1>2, <2>1
<1>8. Good(n)
  BY <1>7, Zenon
<1>9. Range(others) \subseteq Range(after[n])
  <2>1. \A x : x \in Range(others) <=> \E j \in 1 .. n : others[j] = x
    BY Indexed
  <2> QED
    BY <1>8, <2>1 DEF Good
<1> QED
  BY <1>1, <1>8, <1>9 DEF Good

LEMMA DepsKept ==
  ASSUME NEW a \in Frame
  PROVE  /\ Failed(a).deps = a.deps /\ Succeeded(a).deps = a.deps
         /\ [a EXCEPT !.pass = "body", !.failed = TRUE].deps = a.deps
         /\ \A n : [a EXCEPT !.part = n].deps = a.deps
         /\ \A d : [a EXCEPT !.deps = d].deps = d
<1>1. Succeeded(a) \in Frame
  BY Succeeding
<1>2. Succeeded(a).deps = a.deps
  BY DEF Succeeded, Frame
<1>3. [Succeeded(a) EXCEPT !.failed = TRUE].deps = Succeeded(a).deps
  BY <1>1 DEF Frame
<1>4. [a EXCEPT !.pass = "body", !.part = 1, !.failed = TRUE].deps = a.deps
  BY DEF Frame
<1>5. Failed(a).deps = a.deps
  BY <1>2, <1>3, <1>4 DEF Failed
<1>6. /\ [a EXCEPT !.pass = "body", !.failed = TRUE].deps = a.deps
      /\ \A n : [a EXCEPT !.part = n].deps = a.deps
      /\ \A d : [a EXCEPT !.deps = d].deps = d
  BY DEF Frame
<1> QED
  BY <1>2, <1>5, <1>6

LEMMA ListedKept ==
  ASSUME UNCHANGED program
  PROVE  /\ \A a : Listed(a)' <=> Listed(a)
         /\ Plain' <=> Plain
<1>1. \A f : Needs(f)' = Needs(f)
  BY DEF Needs
<1>2. \A p : FileOf(p)' = FileOf(p)
  BY DEF FileOf, AllParts, AllRequests
<1>3. ASSUME NEW s PROVE Ordered(s)' <=> Ordered(s)
  BY DEF Ordered, Needs, FileOf, AllParts, AllRequests
<1>4. ASSUME NEW a PROVE Found(a)' <=> Found(a)
  BY DEF Found, Statements
<1>5. Plain' <=> Plain
  BY SameProgram DEF Plain, AllRequests
<1> QED
  BY <1>3, <1>4, <1>5 DEF Listed

LEMMA OrderKept ==
  ASSUME Order, result = "running", UNCHANGED <<program, result>>, NEW b, Plain => Listed(b),
         \A a \in Range(frames') : a \in Range(frames) \/ a = b
  PROVE  Order'
<1>1. ASSUME Plain, NEW a \in Range(frames') PROVE Listed(a)'
  <2>1. Listed(a)
    BY <1>1 DEF Order
  <2> QED
    BY <2>1, ListedKept
<1> QED
  BY <1>1, ListedKept DEF Order

(* A failed analyzer with the list of another one.                          *)
LEMMA FailedOrder ==
  ASSUME IInv, Order, result = "running", UNCHANGED <<program, result>>,
         NEW b \in Frame, b.failed = TRUE, Plain => Ordered(b.deps),
         frames' = WithTop(b) \/ (Len(frames) > 1 /\ frames' = WithCaller(b))
  PROVE  Order'
<1>1. Plain => Listed(b)
  BY DEF Listed
<1>2. \A a \in Range(frames') : a \in Range(frames) \/ a = b
  BY Elements DEF IInv, Core
<1> QED
  BY <1>1, <1>2, OrderKept

LEMMA TopFailsOrder ==
  ASSUME IInv, Order, ImportMissing \/ ImportCircular \/ ImportUnparsable
  PROVE  Order'
<1>1. result = "running" /\ UNCHANGED <<program, result>> /\ frames' = WithTop(Failed(Top))
  BY DEF ImportMissing, ImportCircular, ImportUnparsable, Importing
<1>2. Top \in Frame /\ Top \in Range(frames)
  BY Stack, Elements DEF IInv, Core
<1>3. Failed(Top) \in Frame /\ Failed(Top).failed = TRUE /\ Failed(Top).deps = Top.deps
  BY <1>2, Failing, DepsKept
<1>4. Plain => Ordered(Top.deps)
  BY <1>2 DEF Order, Listed
<1> QED
  BY <1>1, <1>3, <1>4, FailedOrder

LEMMA HoistFailsOrder ==
  ASSUME IInv, Order, HoistFails
  PROVE  Order'
<1> DEFINE b == [Top EXCEPT !.pass = "body", !.failed = TRUE]
<1>1. result = "running" /\ UNCHANGED <<program, result>> /\ frames' = WithTop(b)
  BY DEF HoistFails
<1>2. Top \in Frame /\ Top \in Range(frames)
  BY Stack, Elements DEF IInv, Core
<1>3. b \in Frame /\ b.failed = TRUE /\ b.deps = Top.deps
  BY <1>2, HoistEnding, DepsKept
<1>4. Plain => Ordered(Top.deps)
  BY <1>2 DEF Order, Listed
<1> HIDE DEF b
<1> QED
  BY <1>1, <1>3, <1>4, FailedOrder

LEMMA EntersOrder ==
  ASSUME IInv, Order, ImportCached \/ ImportParsed
  PROVE  Order'
<1>1. \E f \in Files : \E h \in Files : frames' = Append(frames, Analyzer(Wanted.path, f, h))
  <2>1. CASE ImportParsed
    BY <2>1, Wants DEF ImportParsed
  <2>2. CASE ImportCached
    <3>1. compiledModules[canonicalCache[Wanted.file]] \in Files
      BY <2>2, CachedIsWanted
    <3>2. Home(Wanted.path) \in Files
      BY <2>2, Wants, HomeKnown DEF IInv, Core, ImportCached
    <3> QED
      BY <2>2, <3>1, <3>2 DEF ImportCached
  <2> QED
    BY <2>1, <2>2
<1>2. result = "running" /\ Importing /\ UNCHANGED <<program, result>>
  BY DEF ImportCached, ImportParsed, Importing
<1>0. PICK f \in Files, h \in Files : frames' = Append(frames, Analyzer(Wanted.path, f, h))
  BY <1>1
<1> DEFINE b == Analyzer(Wanted.path, f, h)
<1>3. b \in Frame /\ b.next = 1 /\ b.deps = <<>>
  <2>1. b \in Frame /\ b.next = 1
    BY <1>2, Wants, NoDeps DEF Analyzer, Frame
  <2> QED
    BY <2>1 DEF Analyzer
<1> HIDE DEF b
<1>4. Listed(b)
  <2>1. Ordered(<<>>)
    <3>1. \A i \in 1 .. 0 : FALSE
      OBVIOUS
    <3> QED
      BY <3>1, EmptySeq DEF Ordered
  <2>2. Found(b)
    <3>1. \A k \in 1 .. Len(Statements(b)) : ~(k < 1)
      <4> DEFINE n == Len(Statements(b))
      <4> HIDE DEF n
      <4>1. \A k \in 1 .. n : ~(k < 1)
        OBVIOUS
      <4> QED
        BY <4>1 DEF n
    <3> QED
      BY <1>3, <3>1 DEF Found
  <2> QED
    BY <1>3, <2>1, <2>2 DEF Listed
<1>5. \A a \in Range(frames') : a \in Range(frames) \/ a = b
  BY <1>0, <1>3, Elements DEF IInv, Core, b
<1> QED
  BY <1>2, <1>4, <1>5, OrderKept

LEMMA RejectedOrder ==
  ASSUME IInv, Order, ModuleRejected
  PROVE  Order'
<1>1. /\ result = "running" /\ UNCHANGED <<program, result>> /\ Len(frames) > 1
      /\ frames' = WithCaller(Failed(Caller))
  BY DEF ModuleRejected, Analysed
<1>2. Caller \in Frame /\ Caller \in Range(frames)
  BY <1>1, Waits, Elements DEF IInv, Core
<1>3. Failed(Caller) \in Frame /\ Failed(Caller).failed = TRUE /\ Failed(Caller).deps = Caller.deps
  BY <1>2, Failing, DepsKept
<1>4. Plain => Ordered(Caller.deps)
  BY <1>2 DEF Order, Listed
<1> QED
  BY <1>1, <1>3, <1>4, FailedOrder

(* The modules the inner analyzer found, absorbed.                          *)
LEMMA FoundAbsorbed ==
  ASSUME IInv, Order, Plain, Len(frames) > 1
  PROVE  LET d == Absorb(Caller.deps, Top.deps)
         IN  /\ d \in Seq(Paths) /\ Ordered(d)
             /\ Range(Caller.deps) \subseteq Range(d) /\ Range(Top.deps) \subseteq Range(d)
<1>1. /\ Caller.deps \in Seq(Paths) /\ Top.deps \in Seq(Paths)
      /\ Caller \in Range(frames) /\ Top \in Range(frames)
  BY Waits, Fields, Elements DEF IInv, Core
<1>2. Ordered(Caller.deps) /\ Ordered(Top.deps)
  BY <1>1 DEF Order, Listed
<1>3. \A i \in 1 .. Len(Top.deps) :
        Needs(FileOf(Top.deps[i])) \subseteq Range(Caller.deps) \cup {Top.deps[j] : j \in 1 .. i - 1}
  BY <1>2 DEF Ordered
<1>4. Absorb(Caller.deps, Top.deps) \in Seq(Paths)
  BY <1>1, Absorbed
<1> QED
  BY <1>1, <1>2, <1>3, <1>4, AbsorbOrdered

LEMMA ClashOrder ==
  ASSUME IInv, Order, NamesClash
  PROVE  Order'
<1> DEFINE d == Absorb(Caller.deps, Top.deps)
           a == [Caller EXCEPT !.deps = d]
<1>1. /\ result = "running" /\ UNCHANGED <<program, result>> /\ Len(frames) > 1
      /\ frames' = WithCaller(Failed(a))
  BY DEF NamesClash, Analysed
<1>2. /\ Caller \in Frame /\ d \in Seq(Paths)
  BY <1>1, Waits, Fields, Absorbed
<1>3. Plain => Ordered(d)
  BY <1>1, FoundAbsorbed
<1> HIDE DEF d
<1>4. a \in Frame /\ a.deps = d
  <2>1. a \in Frame
    BY <1>2, Changing
  <2> QED
    BY <1>2, <2>1, DepsKept
<1> HIDE DEF a
<1>5. Failed(a) \in Frame /\ Failed(a).failed = TRUE /\ Failed(a).deps = d
  BY <1>4, Failing, DepsKept
<1> QED
  BY <1>1, <1>3, <1>5, FailedOrder

(* What a file imports, by the paths.                                       *)
LEMMA NeedsOf ==
  ASSUME TypeOK, NEW f \in Files
  PROVE  /\ \A x \in Needs(f) :
              \E i \in 1 .. Len(program.imports[f]) :
                \E m \in 1 .. Len(program.imports[f][i].parts) :
                  program.imports[f][i].parts[m].path = x
<1> SUFFICES ASSUME NEW x \in Needs(f)
             PROVE  \E i \in 1 .. Len(program.imports[f]) :
                      \E m \in 1 .. Len(program.imports[f][i].parts) :
                        program.imports[f][i].parts[m].path = x
  OBVIOUS
<1>1. PICK r \in Range(program.imports[f]) : \E p \in Range(r.parts) : p.path = x
  BY DEF Needs
<1>2. PICK i \in 1 .. Len(program.imports[f]) : r = program.imports[f][i]
  BY ImportsOf
<1>3. r.parts \in Seq(Part)
  BY <1>2, Imported
<1>4. \A p \in Range(r.parts) : \E m \in 1 .. Len(r.parts) : p = r.parts[m]
  BY <1>3, LenProperties DEF Range
<1> QED
  BY <1>1, <1>2, <1>4

LEMMA FileOfPart ==
  ASSUME OneFilePerPath, NEW path, NEW file, IsPart(path, file)
  PROVE  FileOf(path) = file
  BY DEF OneFilePerPath, IsPart, FileOf

(* What the innermost analyzer has to have found when it is through.        *)
LEMMA NeedsFound ==
  ASSUME TypeOK, NEW a \in Frame, Found(a), a.next > Len(Statements(a))
  PROVE  Needs(a.file) \subseteq Range(a.deps)
<1>1. a.file \in Files /\ a.next \in Nat \ {0}
  BY Fields
<1>2. Len(Statements(a)) \in Nat /\ Statements(a) = program.imports[a.file]
  BY <1>1, Statuses, LenProperties DEF Statements
<1>3. \A k \in 1 .. Len(Statements(a)) : k < a.next
  BY <1>1, <1>2
<1>4. \A k \in 1 .. Len(Statements(a)) :
        \A m \in 1 .. Len(Statements(a)[k].parts) : Statements(a)[k].parts[m].path \in Range(a.deps)
  BY <1>3 DEF Found
<1>5. ASSUME NEW x \in Needs(a.file) PROVE x \in Range(a.deps)
  <2>1. PICK i \in 1 .. Len(Statements(a)) :
          \E m \in 1 .. Len(Statements(a)[i].parts) : Statements(a)[i].parts[m].path = x
    BY <1>1, <1>2, NeedsOf
  <2> QED
    BY <1>4, <2>1
<1> QED
  BY <1>5

LEMMA ImportedOrder ==
  ASSUME IInv, Order, ModuleImported
  PROVE  Order'
<1>1. /\ result = "running" /\ UNCHANGED <<program, result>> /\ Len(frames) > 1
      /\ ~HasErrors(Top) /\ Top.next > Len(Statements(Top))
      /\ frames' = WithCaller(GoesOn)
  BY DEF ModuleImported, Analysed, GoesOn
<1>2. TypeOK /\ GoesOn \in Frame /\ Caller \in Frame /\ Top \in Frame /\ Recorded \in Frame
  BY <1>1, Going, Waits, Recording DEF IInv, Core
<1>3. ASSUME Plain PROVE Listed(GoesOn)
  <2> DEFINE d == Absorb(Caller.deps, Top.deps)
             e == Absorb(d, <<Top.path>>)
  <2>1. /\ Top.path \in Paths /\ Top.file \in Files /\ Caller.file \in Files
        /\ Asked(Caller) \in AllRequests /\ ~Asked(Caller).dir
        /\ Caller.next \in 1 .. Len(Statements(Caller))
        /\ Caller.part \in 1 .. Len(Asked(Caller).parts)
        /\ Top.path = Asked(Caller).parts[Caller.part].path
    BY <1>1, <1>3, Waits DEF Plain
  <2>2. Len(Asked(Caller).parts) = 1
    BY <1>2, <2>1, Imported DEF Asked, Statements
  <2>3. /\ d \in Seq(Paths) /\ Ordered(d)
        /\ Range(Caller.deps) \subseteq Range(d) /\ Range(Top.deps) \subseteq Range(d)
    BY <1>1, <1>3, FoundAbsorbed
  <2>4. GoesOn.deps = e
    <3>1. Recorded = [Caller EXCEPT !.deps = e]
      BY <2>1 DEF Recorded
    <3>2. Recorded.deps = e
      BY <1>2, <3>1, DepsKept
    <3>3. GoesOn = Failed(Recorded) \/ GoesOn = Succeeded(Recorded)
      <4>1. ~(Caller.part < Len(Asked(Caller).parts))
        BY <2>1, <2>2
      <4> QED
        BY <4>1 DEF GoesOn
    <3> QED
      BY <1>2, <3>2, <3>3, DepsKept
  <2>5. Needs(FileOf(Top.path)) \subseteq Range(d)
    <3>1. FileOf(Top.path) = Top.file
      <4>1. Chain
        BY <1>3 DEF Plain, IInv, Core, Nesting
      <4>2. Len(frames) \in 2 .. Len(frames)
        BY <1>1, Waits
      <4>3. IsPart(Top.path, Top.file)
        BY <4>1, <4>2 DEF Chain, Top
      <4> QED
        BY <1>3, <4>3, FileOfPart DEF Plain
    <3>2. Found(Top)
      BY <1>1, <1>2, <1>3, Elements DEF Order, Listed, HasErrors
    <3>3. Needs(Top.file) \subseteq Range(Top.deps)
      BY <1>1, <1>2, <3>2, NeedsFound
    <3> QED
      BY <2>3, <3>1, <3>3
  <2> HIDE DEF d
  <2>6. Ordered(e) /\ Range(d) \subseteq Range(e) /\ Top.path \in Range(e)
    <3> DEFINE one == <<Top.path>>
    <3>1. one \in Seq(Paths) /\ Len(one) = 1 /\ one[1] = Top.path
      BY <2>1
    <3> HIDE DEF one
    <3>2. \A i \in 1 .. Len(one) :
            Needs(FileOf(one[i])) \subseteq Range(d) \cup {one[j] : j \in 1 .. i - 1}
      <4>1. \A i \in 1 .. 1 : i = 1
        OBVIOUS
      <4> QED
        BY <2>5, <3>1, <4>1
    <3>3. /\ Ordered(Absorb(d, one)) /\ Range(d) \subseteq Range(Absorb(d, one))
          /\ Range(one) \subseteq Range(Absorb(d, one))
      BY <2>3, <3>1, <3>2, AbsorbOrdered
    <3>4. Top.path \in Range(one)
      BY <3>1, Indexed
    <3> QED
      BY <3>3, <3>4 DEF one
  <2> HIDE DEF e
  <2>7. ASSUME ~GoesOn.failed PROVE Found(GoesOn)
    <3>1. /\ GoesOn.file = Caller.file
          /\ GoesOn.failed = Caller.failed /\ GoesOn.next = Caller.next + 1
      <4>1. ~(Caller.part < Len(Asked(Caller).parts))
        BY <2>1, <2>2
      <4> QED
        BY <1>1, <2>7, <4>1, Going
    <3>2. Found(Caller)
      BY <1>1, <1>2, <1>3, <2>7, <3>1, Elements DEF Order, Listed
    <3>3. Statements(GoesOn) = Statements(Caller)
      BY <3>1 DEF Statements
    <3>4. ASSUME NEW k \in 1 .. Len(Statements(Caller)), k < Caller.next + 1,
                 NEW m \in 1 .. Len(Statements(Caller)[k].parts)
          PROVE  Statements(Caller)[k].parts[m].path \in Range(e)
      <4>1. CASE k < Caller.next
        BY <2>3, <2>6, <3>2, <3>4, <4>1 DEF Found
      <4>2. CASE ~(k < Caller.next)
        <5>1. k = Caller.next
          BY <2>1, <3>4, <4>2, <1>2, Fields
        <5>2. m = 1 /\ Caller.part = 1
          <6>1. m \in 1 .. 1
            BY <2>2, <5>1 DEF Asked
          <6> QED
            BY <2>1, <2>2, <6>1
        <5> QED
          BY <2>1, <2>6, <5>1, <5>2 DEF Asked
      <4> QED
        BY <4>1, <4>2
    <3> QED
      BY <2>4, <3>1, <3>3, <3>4 DEF Found
  <2> QED
    BY <2>4, <2>6, <2>7 DEF Listed
<1>4. \A a \in Range(frames') : a \in Range(frames) \/ a = GoesOn
  BY <1>1, <1>2, Elements
<1>5. PICK b : b = GoesOn
  OBVIOUS
<1> QED
  BY <1>1, <1>3, <1>4, <1>5, OrderKept

LEMMA FinishOrder ==
  ASSUME IInv, Order, Finish
  PROVE  Order'
<1>1. UNCHANGED <<program, frames>> /\ Len(frames) = 1 /\ Top.next > Len(Statements(Top))
  BY DEF Finish, Analysed
<1>2. ASSUME Plain, NEW a \in Range(frames) PROVE Listed(a)'
  BY <1>1, <1>2, ListedKept DEF Order
<1>3. Len(frames') = 1 /\ Top'.next > Len(Statements(Top))'
  BY <1>1 DEF Top, Statements
<1> QED
  BY <1>1, <1>2, <1>3, ListedKept DEF Order

LEMMA InitOrder ==
  ASSUME Init
  PROVE  Order
<1> DEFINE a == Analyzer(NoPath, Main, Main)
<1>1. /\ frames = <<a>> /\ result = "running" /\ a.next = 1 /\ a.deps = <<>>
  BY DEF Init, Analyzer
<1> HIDE DEF a
<1>2. Ordered(<<>>)
  <2>1. \A i \in 1 .. 0 : FALSE
    OBVIOUS
  <2> QED
    BY <2>1, EmptySeq DEF Ordered
<1>3. Found(a)
  <2> DEFINE n == Len(Statements(a))
  <2> HIDE DEF n
  <2>1. \A k \in 1 .. n : ~(k < 1)
    OBVIOUS
  <2> QED
    BY <1>1, <2>1 DEF Found, n
<1>4. \A x \in Range(frames) : x = a
  BY <1>1 DEF Range
<1> QED
  BY <1>1, <1>2, <1>3, <1>4 DEF Order, Listed

(* In every behaviour the lists of modules are in order, and with a result  *)
(* the analysis of the main file is over (absorb_module_analyzer).          *)
LEMMA OrderInvariant == Spec => [](IInv /\ Order)
<1>1. Init => IInv /\ Order
  BY InitIInv, InitOrder
<1>2. ASSUME IInv, Order, [Next]_vars PROVE Order'
  <2>1. CASE ImportMissing \/ ImportCircular \/ ImportUnparsable
    BY <1>2, <2>1, TopFailsOrder
  <2>2. CASE ImportCached \/ ImportParsed
    BY <1>2, <2>2, EntersOrder
  <2>3. CASE HoistFails
    BY <1>2, <2>3, HoistFailsOrder
  <2>4. CASE ModuleRejected
    BY <1>2, <2>4, RejectedOrder
  <2>5. CASE NamesClash
    BY <1>2, <2>5, ClashOrder
  <2>6. CASE ModuleImported
    BY <1>2, <2>6, ImportedOrder
  <2>7. CASE Finish
    BY <1>2, <2>7, FinishOrder
  <2>8. CASE UNCHANGED vars
    <3>1. UNCHANGED <<program, frames, result>>
      BY <2>8 DEF vars
    <3>2. ASSUME Plain, NEW a \in Range(frames) PROVE Listed(a)'
      BY <1>2, <3>1, <3>2, ListedKept DEF Order
    <3>3. result # "running" => Len(frames') = 1 /\ Top'.next > Len(Statements(Top))'
      BY <1>2, <3>1 DEF Order, Top, Statements
    <3> QED
      BY <1>2, <3>1, <3>2, <3>3, ListedKept DEF Order
  <2> QED
    BY <1>2, <2>1, <2>2, <2>3, <2>4, <2>5, <2>6, <2>7, <2>8 DEF Next
<1>3. IInv /\ [Next]_vars => IInv'
  BY NextIInv
<1> QED
  BY <1>1, <1>2, <1>3, PTL DEF Spec

(* In an accepted program without imports of directories the main module    *)
(* and every module stand after what they import in module_dependencies     *)
(* (absorb_module_analyzer, generate_main_function).                        *)
THEOREM ImportsComeFirst == Spec => []InOrderWithoutDirectories
<1>1. ASSUME IInv, Order PROVE InOrderWithoutDirectories
  <2> SUFFICES ASSUME \A r \in AllRequests : ~r.dir, result = "accepted", OneFilePerPath
               PROVE  LET deps == frames[1].deps
                          File(path) == (CHOOSE p \in AllParts : p.path = path).file
                          Before(i, f) ==
                              \A r \in Range(program.imports[f]) :
                              \A p \in Range(r.parts) :
                                  \E j \in DOMAIN deps : j < i /\ deps[j] = p.path
                      IN  /\ Before(Len(deps) + 1, Main)
                          /\ \A i \in DOMAIN deps : Before(i, File(deps[i]))
    BY DEF InOrderWithoutDirectories, InitialisedInOrder
  <2> DEFINE deps == frames[1].deps
  <2>1. /\ TypeOK /\ Plain /\ Top = frames[1] /\ Top \in Frame /\ Top.file = Main
        /\ Top.next > Len(Statements(Top)) /\ ~Top.failed /\ Top \in Range(frames)
    <3>1. TypeOK /\ Placed /\ Verdict
      BY <1>1 DEF IInv, Core, Nesting
    <3>2. Len(frames) = 1 /\ Top.next > Len(Statements(Top))
      BY <1>1 DEF Order
    <3>3. 1 \in 1 .. Len(frames)
      BY <3>2
    <3>4. Top = frames[1] /\ Top \in Frame /\ Top \in Range(frames)
      BY <3>1, <3>2, Stack, Elements
    <3>5. ~frames[1].failed
      BY <3>1, <3>3 DEF Verdict
    <3> QED
      BY <3>1, <3>2, <3>4, <3>5 DEF Placed, Plain
  <2>2. Ordered(deps) /\ Found(Top) /\ deps \in Seq(Paths)
    BY <1>1, <2>1, Fields DEF Order, Listed
  <2>3. Needs(Main) \subseteq Range(deps)
    BY <2>1, <2>2, NeedsFound
  <2>4. Len(deps) \in Nat /\ DOMAIN deps = 1 .. Len(deps)
        /\ \A x : x \in Range(deps) <=> \E i \in 1 .. Len(deps) : deps[i] = x
    BY <2>2, Indexed
  <2> HIDE DEF deps
  <2>5. \A f : \A r \in Range(program.imports[f]) : \A p \in Range(r.parts) : p.path \in Needs(f)
    BY DEF Needs
  <2>6. ASSUME NEW r \in Range(program.imports[Main]), NEW p \in Range(r.parts)
        PROVE  \E j \in DOMAIN deps : j < Len(deps) + 1 /\ deps[j] = p.path
    <3>1. PICK j \in 1 .. Len(deps) : deps[j] = p.path
      BY <2>3, <2>4, <2>5
    <3>2. j < Len(deps) + 1
      BY <2>4
    <3> QED
      BY <2>4, <3>1, <3>2
  <2>7. ASSUME NEW i \in DOMAIN deps, NEW r \in Range(program.imports[FileOf(deps[i])]),
               NEW p \in Range(r.parts)
        PROVE  \E j \in DOMAIN deps : j < i /\ deps[j] = p.path
    <3>1. i \in 1 .. Len(deps) /\ p.path \in Needs(FileOf(deps[i]))
      BY <2>4, <2>5
    <3>2. PICK j \in 1 .. i - 1 : deps[j] = p.path
      BY <2>2, <3>1 DEF Ordered
    <3>3. j \in DOMAIN deps /\ j < i
      BY <2>4, <3>1
    <3> QED
      BY <3>2, <3>3
  <2> QED
    BY <2>6, <2>7 DEF FileOf, deps
<1> QED
  BY <1>1, OrderInvariant, PTL

=============================================================================
