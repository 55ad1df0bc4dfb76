--------------------------- MODULE ModuleImports ---------------------------
(***************************************************************************)
(* Imports of Mux modules: ModuleResolver (module_resolver.rs) and the     *)
(* recursion of SemanticAnalyzer through it (semantics/imports.rs).  Each  *)
(* imported module is analysed by a throwaway analyzer, one frame of       *)
(* `frames`, that imports in its turn; the modules an analyzer found are   *)
(* folded back into its importer, and the root's list is the order in      *)
(* which the compiled program initialises its modules.                     *)
(*                                                                         *)
(* An import statement is a record: `parts`, the modules it loads in turn, *)
(* each the text of its path and the file that text denotes where it is    *)
(* written; `dir`, whether they are submodules of a directory; and         *)
(* `clash`, the part whose names cannot be bound in the importer (0 for    *)
(* none).  The text of a file is abstracted to its statements and a        *)
(* status.  import_stack is left out: only a message shows it.             *)
(*                                                                         *)
(* A relative path is looked up from the file the analyzer believes it is  *)
(* in, its `home`: the file module_file_ids has for the path of the        *)
(* module, and a path made up from the text where it has none.             *)
(***************************************************************************)
EXTENDS Naturals, Sequences, FiniteSets, SequencesExt

CONSTANTS
    Files,     \* source files
    Paths,     \* texts of module paths
    Main,      \* the file given to the compiler
    NoFile,    \* no AST is cached under a path
    NoPath,    \* a file that was not parsed; the main file has no path
    Programs,  \* the programs to compile
    Denotes,   \* determine_file_path: the file a text denotes, seen from a file
    MadeUp     \* the file the text of a path spells, whether it exists or not

Status == {"fine", "missing", "unparsable", "illtyped"}
Part == [path : Paths, file : Files]
Request == [parts : Seq(Part), dir : BOOLEAN, clash : Nat]

\* A program the parser can produce.
IsProgram(p) ==
    /\ DOMAIN p = {"imports", "status"}
    /\ p.imports \in [Files -> Seq(Request)]
    /\ p.status \in [Files -> Status]
    /\ \A f \in Files : \A i \in DOMAIN p.imports[f] :
         LET r == p.imports[f][i]
         IN  /\ r.parts # <<>>
             /\ r.clash <= Len(r.parts)
             /\ ~r.dir => Len(r.parts) = 1
             /\ \A m \in DOMAIN r.parts :
                  r.parts[m].file = Denotes[f][r.parts[m].path]
    \* The main file was read and parsed before its analysis.
    /\ p.status[Main] \in {"fine", "illtyped"}

ASSUME ImportsAssumption ==
    /\ Main \in Files
    /\ NoFile \notin Files
    /\ NoPath \notin Paths
    /\ \A p \in Programs : IsProgram(p)

ASSUME LookupAssumption ==
    /\ Denotes \in [Files -> [Paths -> Files]]
    /\ MadeUp \in [Paths -> Files]

VARIABLES
    program,         \* the program being compiled
    frames,          \* the analyzers that are running, the innermost last
    beingImported,   \* being_imported
    canonicalCache,  \* canonical_cache: the path a file was last parsed under
    compiledModules, \* compiled_modules: the file whose AST a path has
    moduleFileIds,   \* module_file_ids: the file a path was parsed from
    cycles,          \* circular imports reported: importing and imported file
    result           \* "running", then "accepted" or "rejected"

vars == <<program, frames, beingImported, canonicalCache, compiledModules,
          moduleFileIds, cycles, result>>

-----------------------------------------------------------------------------
(* One analyzer.  collect_hoistable_declarations stops at its first error; *)
(* analyze_nodes then visits every statement and skips the imports that    *)
(* were hoisted, so the two passes share one position in the statements.   *)

Analyzer(path, file, home) ==
    [path |-> path, file |-> file, home |-> home, pass |-> "hoist",
     next |-> 1, part |-> 1, failed |-> FALSE, deps |-> <<>>]

Top == frames[Len(frames)]
Caller == frames[Len(frames) - 1]
Statements(a) == program.imports[a.file]
Asked(a) == Statements(a)[a.next]
Text == Asked(Top).parts[Top.part].path
Wanted == [path |-> Text, file |-> Denotes[Top.home][Text]]

\* The current file of an analyzer that starts on a cached AST.
Home(path) ==
    IF moduleFileIds[path] # NoFile THEN moduleFileIds[path] ELSE MadeUp[path]

WithTop(a) == [frames EXCEPT ![Len(frames)] = a]
WithCaller(a) == [Front(frames) EXCEPT ![Len(frames) - 1] = a]

Succeeded(a) == [a EXCEPT !.next = @ + 1, !.part = 1]

\* Mutant: a failed import in the second pass is tried again.
FailedAgain(a) ==
    [a EXCEPT !.pass = "body", !.part = 1, !.failed = TRUE]

Failed(a) ==
    IF a.pass = "hoist"
    THEN [a EXCEPT !.pass = "body", !.part = 1, !.failed = TRUE]
    ELSE [Succeeded(a) EXCEPT !.failed = TRUE]

\* The loop of absorb_module_analyzer: each dependency that is not there yet.
Absorb(deps, others) ==
    LET after[i \in 0 .. Len(others)] ==
          IF i = 0 THEN deps
          ELSE IF others[i] \in Range(after[i - 1]) THEN after[i - 1]
          ELSE Append(after[i - 1], others[i])
    IN  after[Len(others)]

Importing == result = "running" /\ Top.next <= Len(Statements(Top))
Analysed == result = "running" /\ Top.next > Len(Statements(Top))

\* Mutant: only the errors of imports count.
HasImportErrors(a) == a.failed /\ program.status[a.file] # "illtyped"

HasErrors(a) == a.failed \/ program.status[a.file] = "illtyped"

Exists == program.status[Wanted.file] # "missing"
Cached == LET path == canonicalCache[Wanted.file]
          IN  path # NoPath /\ compiledModules[path] # NoFile

-----------------------------------------------------------------------------
Init ==
    /\ program \in Programs
    /\ frames = << Analyzer(NoPath, Main, Main) >>
    /\ beingImported = {}
    /\ canonicalCache = [f \in Files |-> NoPath]
    /\ compiledModules = [p \in Paths |-> NoFile]
    /\ moduleFileIds = [p \in Paths |-> NoFile]
    /\ cycles = {}
    /\ result = "running"

\* check_module_path found both a file and a directory, or
\* resolve_import_path found no file.
ImportMissing ==
    /\ Importing
    /\ ~Exists
    /\ frames' = WithTop(Failed(Top))
    /\ UNCHANGED <<program, beingImported, canonicalCache, compiledModules,
                   moduleFileIds, cycles, result>>

\* A cached AST is analysed again for this importer, and is not marked; under
\* a path it was not parsed under, its analyzer makes its current file up.
ImportCached ==
    /\ Importing
    /\ Exists
    /\ Cached
    /\ LET path == Wanted.path
           cached == compiledModules[canonicalCache[Wanted.file]]
       IN  frames' = Append(frames, Analyzer(path, cached, Home(path)))
    /\ UNCHANGED <<program, beingImported, canonicalCache, compiledModules,
                   moduleFileIds, cycles, result>>

\* resolve_import_path refuses a path that is being imported.
ImportCircular ==
    /\ Importing
    /\ Exists /\ ~Cached
    /\ Wanted.path \in beingImported
    /\ frames' = WithTop(Failed(Top))
    /\ cycles' = cycles \cup {<<Top.file, Wanted.file>>}
    /\ UNCHANGED <<program, beingImported, canonicalCache, compiledModules,
                   moduleFileIds, result>>

\* The path is marked before parse_module fails, and stays marked.
ImportUnparsable ==
    /\ Importing
    /\ Exists /\ ~Cached
    /\ Wanted.path \notin beingImported
    /\ program.status[Wanted.file] = "unparsable"
    /\ beingImported' = beingImported \cup {Wanted.path}
    /\ frames' = WithTop(Failed(Top))
    /\ UNCHANGED <<program, canonicalCache, compiledModules, moduleFileIds,
                   cycles, result>>

\* Mutant: the mark is taken off as soon as the module is parsed.
ImportUnmarked ==
    /\ Importing
    /\ Exists /\ ~Cached
    /\ Wanted.path \notin beingImported
    /\ program.status[Wanted.file] # "unparsable"
    /\ canonicalCache' = [canonicalCache EXCEPT ![Wanted.file] = Wanted.path]
    /\ moduleFileIds' = [moduleFileIds EXCEPT ![Wanted.path] = Wanted.file]
    /\ frames' =
         Append(frames, Analyzer(Wanted.path, Wanted.file, Wanted.file))
    /\ UNCHANGED <<program, beingImported, compiledModules, cycles, result>>

\* The module is marked and parsed, and its own analyzer starts.
ImportParsed ==
    /\ Importing
    /\ Exists /\ ~Cached
    /\ Wanted.path \notin beingImported
    /\ program.status[Wanted.file] # "unparsable"
    /\ beingImported' = beingImported \cup {Wanted.path}
    /\ canonicalCache' = [canonicalCache EXCEPT ![Wanted.file] = Wanted.path]
    /\ moduleFileIds' = [moduleFileIds EXCEPT ![Wanted.path] = Wanted.file]
    /\ frames' =
         Append(frames, Analyzer(Wanted.path, Wanted.file, Wanted.file))
    /\ UNCHANGED <<program, compiledModules, cycles, result>>

\* A declaration other than an import fails to be collected: hoisting ends.
HoistFails ==
    /\ result = "running"
    /\ Top.pass = "hoist"
    /\ Top.part = 1
    /\ program.status[Top.file] = "illtyped"
    /\ frames' = WithTop([Top EXCEPT !.pass = "body", !.failed = TRUE])
    /\ UNCHANGED <<program, beingImported, canonicalCache, compiledModules,
                   moduleFileIds, cycles, result>>

\* Mutant: a module with errors is not finished.
RejectedUnfinished ==
    /\ Analysed
    /\ Len(frames) > 1
    /\ HasErrors(Top)
    /\ frames' = WithCaller(Failed(Caller))
    /\ UNCHANGED <<program, beingImported, canonicalCache, compiledModules,
                   moduleFileIds, cycles, result>>

\* analyze_imported_module: errors, the import is finished and not cached.
ModuleRejected ==
    /\ Analysed
    /\ Len(frames) > 1
    /\ HasErrors(Top)
    /\ beingImported' = beingImported \ {Top.path}
    /\ frames' = WithCaller(Failed(Caller))
    /\ UNCHANGED <<program, canonicalCache, compiledModules, moduleFileIds,
                   cycles, result>>

\* handle_import_spec fails: the import is neither cached nor finished.
NamesClash ==
    /\ Analysed
    /\ Len(frames) > 1
    /\ ~HasErrors(Top)
    /\ ~Asked(Caller).dir
    /\ Asked(Caller).clash = 1
    /\ frames' = WithCaller(Failed([Caller EXCEPT
                                      !.deps = Absorb(@, Top.deps)]))
    /\ UNCHANGED <<program, beingImported, canonicalCache, compiledModules,
                   moduleFileIds, cycles, result>>

\* Mutant: the module comes before the modules it imports.
RecordedFirst ==
    LET found == IF Asked(Caller).dir THEN <<>> ELSE Top.deps
    IN  [Caller EXCEPT !.deps = Absorb(Absorb(@, <<Top.path>>), found)]

\* The dependencies of the module, unless it is a submodule of a directory,
\* and then the module itself.
Recorded ==
    LET found == IF Asked(Caller).dir THEN <<>> ELSE Top.deps
    IN  [Caller EXCEPT !.deps = Absorb(Absorb(@, found), <<Top.path>>)]

\* The module is cached and finished, and its importer goes on.
ModuleImported ==
    /\ Analysed
    /\ Len(frames) > 1
    /\ ~HasErrors(Top)
    /\ LET asked == Asked(Caller)
       IN  /\ asked.dir \/ asked.clash = 0
           /\ frames' = WithCaller(
                 IF asked.clash = Caller.part THEN Failed(Recorded)
                 ELSE IF Caller.part < Len(asked.parts)
                 THEN [Recorded EXCEPT !.part = @ + 1]
                 ELSE Succeeded(Recorded))
    /\ compiledModules' = [compiledModules EXCEPT ![Top.path] = Top.file]
    /\ beingImported' = beingImported \ {Top.path}
    /\ UNCHANGED <<program, canonicalCache, moduleFileIds, cycles, result>>

\* The analysis of the program is over.
Finish ==
    /\ Analysed
    /\ Len(frames) = 1
    /\ result' = IF HasErrors(Top) THEN "rejected" ELSE "accepted"
    /\ UNCHANGED <<program, frames, beingImported, canonicalCache,
                   compiledModules, moduleFileIds, cycles>>

Next ==
    \/ ImportMissing \/ ImportCached \/ ImportCircular \/ ImportUnparsable
    \/ ImportParsed \/ HoistFails \/ ModuleRejected \/ NamesClash
    \/ ModuleImported \/ Finish

\* The compiler is sequential and does not stop halfway.
Spec == Init /\ [][Next]_vars /\ WF_vars(Next)

-----------------------------------------------------------------------------
(* Properties *)

Frame == [path : Paths \cup {NoPath}, file : Files, home : Files,
          pass : {"hoist", "body"}, next : Nat \ {0}, part : Nat \ {0},
          failed : BOOLEAN, deps : Seq(Paths)]

TypeOK ==
    /\ IsProgram(program)
    /\ frames \in Seq(Frame) /\ frames # <<>>
    /\ beingImported \subseteq Paths
    /\ canonicalCache \in [Files -> Paths \cup {NoPath}]
    /\ compiledModules \in [Paths -> Files \cup {NoFile}]
    /\ moduleFileIds \in [Paths -> Files \cup {NoFile}]
    /\ cycles \subseteq Files \X Files
    /\ result \in {"running", "accepted", "rejected"}

AllRequests == UNION {Range(program.imports[f]) : f \in Files}
AllParts == UNION {Range(r.parts) : r \in AllRequests}

PartsOf(f) == UNION {Range(r.parts) : r \in Range(program.imports[f])}
Imports(f) == {p.file : p \in PartsOf(f)}

\* Every path denotes one file wherever it is written: no two directories
\* use the same relative path; and what a module imports is not some other
\* file where the path of the module spells a directory.
OneFilePerPath ==
    /\ \A p, q \in AllParts : p.path = q.path => p.file = q.file
    /\ \A p \in AllParts : \A t \in PartsOf(p.file) :
         LET found == Denotes[MadeUp[p.path]][t.path]
         IN  found = t.file \/ program.status[found] = "missing"

\* A module that is imported under two paths finds what it imports from the
\* files both spell, as one does that has no relative import.
NoFileAstray ==
    \A p, q \in AllParts : p.file = q.file /\ p.path # q.path =>
        \A t \in PartsOf(p.file) : Denotes[MadeUp[p.path]][t.path] = t.file

\* f reaches g through at least one import: g is in every set of files that
\* has what f imports and what its files import.
Leads(f, g) ==
    \A S \in SUBSET Files :
        Imports(f) \subseteq S /\ (\A h \in S : Imports(h) \subseteq S) => g \in S

\* A file is analysed when the compiler reaches it.
Analysable == {g \in Files : g = Main \/ Leads(Main, g)}

(* The analysis never nests without end: no file is analysed under a path
   inside its own analysis under that path, although a cached module is
   analysed again for every importer and is not marked as being imported
   (resolve_import_path).  Where one relative path denotes two files it does:
   compiled_modules has the module compiled last under a path, which may lead
   back to the one that asks for the other (MCModuleImportsCollision.cfg). *)
AnalysedOnceAtATime ==
    \A i, j \in 2 .. Len(frames) :
        frames[i].path = frames[j].path /\ frames[i].file = frames[j].file
            => i = j

NoEndlessImports == OneFilePerPath => AnalysedOnceAtATime

(* A program is accepted only when everything the compiler reaches is fine:
   every file exists, parses and type-checks, every name can be bound, and no
   file imports itself through others (being_imported, the errors of
   analyze_imported_module and the retry of a failed import by analyze_nodes).
   Every such program is accepted, unless some module has two paths and is lost
   under one: resolve_import_path returns a cached AST before it sets
   module_file_ids, and analyze_imported_module makes the current file up. *)
Sound ==
    \A f \in Analysable :
        /\ program.status[f] = "fine"
        /\ ~Leads(f, f)
        /\ \A r \in Range(program.imports[f]) : r.clash = 0

AcceptedIffSound ==
    result # "running" /\ OneFilePerPath =>
        /\ result = "accepted" => Sound
        /\ Sound /\ NoFileAstray => result = "accepted"

(* Every sound program is accepted.  It is not, where a module is imported as
   `b`, then as `./b`, and has a relative import itself
   (MCModuleImportsSpelling.cfg). *)
SoundIsAccepted ==
    result # "running" /\ OneFilePerPath => (Sound => result = "accepted")

(* A circular import is reported only where there is one.  A module that does
   not parse, and one whose names clash in its importer, stay marked as being
   imported, so both are excluded here, and so are two files imported by the
   same path from different directories (resolve_import_path). *)
CyclesAreReal ==
    /\ OneFilePerPath
    /\ \A f \in Files : program.status[f] # "unparsable"
    /\ \A r \in AllRequests : r.dir \/ r.clash = 0
    => \A c \in cycles : c[1] = c[2] \/ Leads(c[2], c[1])

(* In an accepted program every module the initialisation of a module may
   read is initialised before it: its imports stand earlier in
   module_dependencies, which generate_main_function calls in order. *)
InitialisedInOrder ==
    result = "accepted" /\ OneFilePerPath =>
        LET deps == frames[1].deps
            FileOf(path) == (CHOOSE p \in AllParts : p.path = path).file
            Before(i, f) ==
                \A r \in Range(program.imports[f]) :
                \A p \in Range(r.parts) :
                    \E j \in DOMAIN deps : j < i /\ deps[j] = p.path
        IN  /\ Before(Len(deps) + 1, Main)
            /\ \A i \in DOMAIN deps : Before(i, FileOf(deps[i]))

(* The same for programs that import no directory: the analyzer of a
   submodule is not folded back into its importer
   (resolve_and_register_submodule). *)
InOrderWithoutDirectories ==
    (\A r \in AllRequests : ~r.dir) => InitialisedInOrder

(* The analysis of every program ends, also where imports are circular and
   failed imports are tried again. *)
Terminates == OneFilePerPath => <>(result # "running")
=============================================================================
