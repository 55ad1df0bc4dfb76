--------------------------- MODULE MCModuleImports ---------------------------
(***************************************************************************)
(* Instances of ModuleImports: the programs of a main file and three       *)
(* modules, with aliases of a module, one directory, and one fault.        *)
(* File 4 stands for everything that does not exist.                       *)
(***************************************************************************)
EXTENDS ModuleImports

MCFiles == 0 .. 4

\* Paths 0 to 3 are those of the project.  Path 4 is relative: file 1 seen from
\* files 2 and 3, file 2 seen from file 1, and file 3 from the main file.  Path
\* 5 is relative too, and is file 3 seen from file 1.
MCPaths == 0 .. 5

MCDenotes == [f \in MCFiles |-> [p \in MCPaths |->
    IF p < 4 THEN p
    ELSE IF p = 4 THEN (0 :> 3 @@ 1 :> 2 @@ 2 :> 1 @@ 3 :> 1 @@ 4 :> 4)[f]
    ELSE IF f = 1 THEN 3 ELSE 4]]

\* The compiler runs in the directory of the project, where the paths of the
\* project spell their files, and the relative ones nothing.
MCMadeUp == [p \in MCPaths |-> IF p < 4 THEN p ELSE 4]

File(f) == [parts |-> << [path |-> f, file |-> f] >>, dir |-> FALSE,
            clash |-> 0]
Relative(f) == [parts |-> << [path |-> 4, file |-> f] >>, dir |-> FALSE,
                clash |-> 0]
Beside(f) == [parts |-> << [path |-> 5, file |-> f] >>, dir |-> FALSE,
              clash |-> 0]
Clashing(r, c) == [r EXCEPT !.clash = c]
Directory == [parts |-> << [path |-> 2, file |-> 2],
                           [path |-> 3, file |-> 3] >>,
              dir |-> TRUE, clash |-> 0]

\* The lists of at most n different imports.
Lists(S, n) ==
    UNION {{s \in [1 .. k -> S] : \A i, j \in 1 .. k : i # j => s[i] # s[j]}
             : k \in 0 .. n}

AllFine == [f \in MCFiles |-> IF f = 4 THEN "missing" ELSE "fine"]
OneFault ==
    {[AllFine EXCEPT ![2] = s] : s \in {"missing", "illtyped"}} \cup
    {[AllFine EXCEPT ![3] = s] : s \in {"unparsable", "illtyped"}}

Compile(root, one, two, three, statuses) ==
    {[imports |-> 0 :> a @@ 1 :> b @@ 2 :> c @@ 3 :> d @@ 4 :> <<>>,
      status |-> s] :
       a \in root, b \in one, c \in two, d \in three, s \in statuses}

\* Any imports among the three modules, of itself by the third, and of the
\* main file by the first.
WithFault == Compile(Lists({File(1), File(2)}, 2),
                     Lists({File(0), File(2), File(3)}, 2),
                     Lists({File(1), File(3)}, 2),
                     Lists({File(1), File(2), File(3)}, 1),
                     {AllFine} \cup OneFault)

\* An import whose names clash, and a directory.
WithClash == Compile(Lists({Clashing(File(1), 1), File(1), File(2), Directory,
                            Clashing(Directory, 1)}, 2),
                     Lists({Clashing(File(2), 1), File(2), Directory}, 2),
                     Lists({File(1), File(3)}, 1),
                     Lists({File(2)}, 1),
                     {AllFine})

\* Two paths of one file, which has relative imports.
WithRelative == Compile(Lists({File(1), File(2), File(3)}, 2),
                        Lists({File(2), Beside(3)}, 2),
                        Lists({File(1), Relative(1), File(3)}, 2),
                        Lists({File(1), Relative(1)}, 1),
                        {AllFine})

MCPrograms == WithFault \cup WithClash \cup WithRelative

\* The main file imports 1, which has 2 as its relative path; then 3 by the same
\* path, which imports 1; then 1 again.  No file imports itself.
CollisionPrograms == Compile({<<File(1), Relative(3), File(1)>>},
                             {<<Relative(2)>>},
                             {<<>>}, {<<File(1)>>}, {AllFine})

\* The first module is imported as 1 and, by the second, as 4: its own relative
\* import is lost under that path.
SpellingPrograms == Compile({<<File(1), File(2)>>}, {<<Beside(3)>>},
                            {<<Relative(1)>>}, {<<>>}, {AllFine})

\* Programs that import a directory.
DirectoryPrograms == Compile({<<Directory>>, <<Directory, File(1)>>},
                             {<<>>, <<File(2)>>},
                             {<<>>, <<File(1)>>},
                             {<<>>, <<File(1)>>, <<File(2)>>},
                             {AllFine} \cup OneFault)
=============================================================================
