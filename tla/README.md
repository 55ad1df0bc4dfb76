# Formal models of the Mux toolchain

TLA+ specifications of the parts of the Mux toolchain (`mux-update`,
`mux-compiler`, the installer script) whose correctness depends on the order of
steps: several processes or threads, files replaced one after the other,
failures and cancellations between any two of them; and of the compiler's analyses and
code generation whose correctness depends on every path through a program. TLC checks the models on
small instances; TLAPS proves, for every instance, the safety properties of all but the narrowing
of variants and the reference counting.

All paths below are relative to the repository.

## 1. Inventory of the system

| Part | State it keeps | Operations | What is hard |
|---|---|---|---|
| Update transaction (`mux-update/src/transaction.rs`, `cancellation.rs`) | installed files, staging directories, backups, `applied` | `install`, `prepare`, `rollback`, `validate_installed` | a step fails, Ctrl-C, process dies between two renames, foreign files |
| Updater processes (`mux-update/src/lib.rs`, `receipt.rs`, `scripts/install.sh`) | receipt, lock file | `run`, `install_bundle`, `register_install`, `shared_installation_lock`, `cleanup_old_launchers` | receipt read before the lock, installer without the lock, compilers running meanwhile |
| Release download (`mux-update/src/download.rs`) | partial archive, worker process | `fetch`, `latest`, `stage`, `extract` | size and time limits, killing the worker |
| Windows launcher (`mux-windows-launcher/src/main.rs`) | none | cleanup, lock, forward to the driver | deletes backups by name |
| `mux fix` (`mux-compiler/src/diagnostic/fix.rs`) | target locks, staged files, backups | `write_transaction` | several files, all or nothing; the user edits meanwhile |
| `mux fmt` (`mux-compiler/src/formatter/files.rs`) | snapshot, lock | `format_paths`, `replace_if_unchanged` | the same files at the same time as `mux fix` and an editor |
| Language server (`mux-compiler/src/lsp.rs`) | documents, outstanding requests, published uris, pending diagnostics | notifications, requests, cancellation, worker | two threads, coalescing, stale results |
| Test runner (`mux-compiler/src/main.rs`) | queue, results, stop flag, processes | `run_test_cases`, `run_one_test` | fail-fast races, time-outs, orphaned programs |
| Command line driver (`main.rs`) | installation lock | compile pipeline, doctor, linker lookup | which commands take the lock |
| Module resolver and imports (`module_resolver.rs`, `semantics/imports.rs`) | `being_imported`, module caches, module dependencies | resolve, finish, cache, directory imports | cycles, errors half way, two spellings of one file |
| Semantic analysis (`semantics/*.rs`) | symbol tables, substitutions, narrowings | type checking, definite assignment, constant folding | joins of control flow, scopes |
| Code generation (`codegen/*.rs`) | blocks, temporaries, tracked slots, loop targets | emission of every construct | releasing each counted local once on each way out |
| Lexer, parser, lossless syntax tree | token cursor, recovery state | parse, recover | progress after errors |
| Diagnostics, catalogue, printer | none | formatting | - |
| Spinner (`spinner.rs`) | global slot, thread | start, stop, suspend | little: only the main thread calls it |
| Standard library (`std/*.mux`), build scripts, tests | - | - | - |

### How the parts interact

- `mux update`, the installer and compiler commands meet only at the lock file
  `.mux-install.lock` (advisory, non-blocking, exclusive or shared) and at the
  receipt `.mux-install.json`, which the transaction moves away and replaces
  last. `mux update` and `__install-bundle` call the transaction while they hold
  the exclusive lock.
- `mux fix` and `mux fmt` meet at the source files, with advisory locks on the
  open files; editors take none.
- The language server's main loop and worker share two channels, the set of
  cancelled requests, the current revision map and one pending diagnostics task.
- The test runner starts one `mux run` process per case, which starts the test
  program; both write to pipes that two reader threads drain.

### What makes each part correct

The properties are listed with the modules in section 3, the dangers they are
about with their lines in `PROJECT.json` ("hazards").

## 2. Plan

Order, most important first:

1. `InstallContract`, `InstallTransaction` (+ proofs): the installation is the
   one thing a failing update can destroy. **done**
2. `Updater`: the processes around the lock, on top of `InstallContract`. **done**
3. `SourceWriters`: the only commands that rewrite the user's files. **done**
4. `LspServer`: two threads and a client. **done**
5. `TestRunner`: worker pool and process groups. **done**
6. `ModuleImports`: cache and cycles, against the set of files reachable by
   imports; the initialisation order. **done**
7. `FlowLanguage`, `DefiniteAssignment`, `Narrowing`, `BodyExecution`, `FlowExecution`: the flow
   analyses beside the execution of what they accept; definite assignment with proofs. **done**
8. `RcCodegen`, `RcExecution`: the reference counting that is generated, and its
   execution. **done**
9. `Download`: the worker process of the update. **done**
10. `Unifier`, `ConstFold`, symbol scopes: pure algorithms against reference definitions;
    closures, cells and error propagation in `RcCodegen`.

Composition: `Updater` uses `InstallContract` (`Tx == INSTANCE ...`), which
`InstallTransaction` implements (`Contract == INSTANCE ...`), so the two compose
by refinement. `FlowExecution` adds `Narrowing` and values
to `BodyExecution`, which executes what `DefiniteAssignment` accepts, `RcExecution` runs what `RcCodegen` generates; `Download` ends where
`InstallTransaction` begins (its action `Install`).

Theorems: every safety property of the transaction, its refinement of the contract, and
every safety property of `Updater`, `SourceWriters`, `LspServer`, `TestRunner`, `Download`
and `ModuleImports` that a run checks, and definite assignment sound and justified for every
body (**done**, section 4). What is left: the joins of narrowing and the reference counting, whose
modules declare RECURSIVE operators, which the proof system does not take; they would first have to
be rewritten as functions on blocks, as `DefiniteAssignment` is. They stay with TLC.

## 3. Modules, runs and what they show

Mutated variants of actions (named in the comment "Mutant") stand beside the
action they are a bug of. They are not part of any specification; each property
is violated by one of them.

### 3.1 InstallTransaction, InstallContract (`mux-update/src/transaction.rs`)

The files of the old and the new receipt are numbered in the order of the
`BTreeSet` that `prepare` iterates over; the receipt is the last item of the
plan, as in the code. `disk`, `backup`, `existed` are the destination, the
backup path and `Prepared.existed` of each item; `phase` and `cur` are the
program counter of `install` (`cur` = loop index; in the rollback, the item being
undone); `errors` is rollback's error list being non-empty; `before` is a history
variable. One rename, unlink or inspection is one step, so a failure, a
cancellation, a crash and a foreign file can come between any two.

`InstallContract` is what the callers rely on: the installation ends as the
complete new one, as the complete previous one, or as a reported failure, and
the new receipt is never seen over incomplete files. `Contract` is the refinement
mapping (`Outcome`, `FilesView`, `ReceiptView`).

| Run | Shows |
|---|---|
| `install` | four files (launcher, kept, dropped, added) and the receipt, on Windows, where the launcher's backup lies outside the staging directories and later launchers remove it: `RestoredExactly`, `Recoverable`, `ReceiptLast`, `UnownedKept`, `CancelRollsBack`, `Terminates`, `ImplementsContract` |

Bounds: one file of each kind (kept, dropped, added) suffices, as an item's steps
depend on no other item but through `cur`; the fourth makes the middle of the plan
differ from its ends. Fairness: weak fairness of `install`'s own steps: one thread, and
every wait in it is bounded (the probe by its 15 seconds).

### 3.2 Updater (`mux-update/src/lib.rs`, `receipt.rs`, `scripts/install.sh`, `main.rs`)

Processes: `mux update`, the installer script with `__install-bundle` and
`__register-install`, and compiler commands. `files` and `receipt` are the
installation outside a transaction; inside one, `Tx` (an instance of
`InstallContract`) says what is seen: `DiskFiles`, `DiskReceipt`. A process's
`seen` is the receipt it loaded before locking. A crash drops the lock. `broken`
and `tainted` record that a transaction ended without commit or restore, and that
files were copied without the lock over a registered installation, or over files that
another installer has copied and is about to register; the properties
exempt those states by name. The second half of `tainted` is needed: of two installers
that find no receipt, one can register its version while the other's copy loops go on
(install.sh:113-131), so that the receipt names a version the files do not have. `mux update` also looks for the receipt before it takes
the lock, so while another update runs it can report a missing receipt (lib.rs:54-57).

| Run | Shows |
|---|---|
| `updater` | `CompilerSeesOneVersion`, `NeverDowngrades` with one updater, two installers, one compiler, three versions |

Bounds: an updater and two installers make every pair of writers (a second `mux update`
behaves towards the first like an installer in `__install-bundle`, and the proof is for any
number of each); three versions let one overtake the other
between the version check and the lock; a second compiler adds only a second holder
of the shared lock (and is symmetric). No fairness: all properties are safety.

### 3.3 SourceWriters (`diagnostic/fix.rs`, `formatter/files.rs`)

`mux fix` (`write_transaction`) and `mux fmt` (`format_paths`) over the same files,
and a user whose editor writes in place or removes files at any time, without a
lock. `gen[f]` counts the inodes the path has had: both commands lock an inode, and a
replacement renames a new one onto the path. `locked`, `staged`, `bak`, `undoTop`,
`failures` are the vectors of the code; `raced`, `replaced` and `why` are history. The
removal of temporary files and backups is best-effort in the code ("Backup cleanup is
deliberately best-effort", fix.rs:382-384; also 487-488, 557, 587-589, 604-606, 671-675): every
cleanup of the model leaves any set of at most `MaxStuck` of its files, which the history
`stuckTmp`, `stuckBak` records.

| Run | Shows |
|---|---|
| `source_writers` | `AllOrNothing`, `NothingLeftBehind`, `SeenEditsKept`, `Terminates`, three files, two user actions, one file of each cleanup that cannot be removed |

`NothingLeftBehind` therefore does not promise a clean directory: a `.tmp` or `.bak` file can
outlive the command, successful or not, and nobody is told. It says that no path out of
`write_transaction` forgets one, but for the unreadable target (section 6) and a rollback that is
reported to have failed. What matters more, that the analysed text is not lost, is `OldTextKept`:
until the commit it is in the backup of every path that holds the new text, in whatever step the
command stops or fails. It is proved (section 4).

Two more consequences of the code are visible in the model and are exempted by name in
`SeenEditsKept`: the rollback of a failed rename restores every backup, also over files
that were never replaced (fix.rs:590), so a text saved there since the backup is lost;
and since the locks are on inodes, the file `mux fmt` has written over a replaced path
can be overwritten by the rollback of a `mux fix` that still holds its lock.

Bounds: with three files a failure has files before and after it; two user
actions are an edit and a removal, or two edits in different windows; one file that stays
behind in a cleanup has removed ones beside it (the proofs are for any `MaxStuck`). Fairness:
weak fairness of each command (they use non-blocking locks and never wait).

### 3.4 LspServer (`lsp.rs`)

`main` and `worker` are the two threads; `tasks` and `results` the channels;
`latest`/`signalQueued` the `PendingDiagnostics`; `outstanding` holds the revisions
at the request's arrival, `documents` the buffers with their revision. What an
analysis reports is `Report`: per document its own text and, if it imports it, the
text of `Lib`, from the buffer if open and from disk otherwise. `shown` is what the
client displays. Storing the revision map and replacing the pending task are two
steps, as they are two critical sections.

| Run | Shows |
|---|---|
| `lsp_requests` | `AnsweredOnce`, `NoStaleAnswer`, `WakeUpPending`, `RequestsAnswered` |
| `lsp_diagnostics` | `OpenConverge`: open documents end up with the diagnostics of their latest text; `WorkerStops` |

`OpenConverge` leaves out imported files that are not open: schedule_diagnostics copies
`published_uris` into the task (lsp.rs:546) and the worker clears only that copy
(lsp.rs:4193-4201), so diagnostics that an earlier result publishes in between for such a
file are never cleared. No document promises that they are.

Bounds: two requests (one answered while the other is cancelled), two revisions
(a close and reopen, or two changes), one write of the module on disk. Request
runs use a single document: requests only compare whole revision maps. Fairness: the
two threads run, and a client that was asked to watch reports a written file.

### 3.5 TestRunner (`main.rs`)

Workers with the steps of `run_test_cases` and `run_one_test`; each case has a
compiler process (`leader`) and a test program in one process group. `Collect` is
enabled when neither holds the pipes any more.

| Run | Shows |
|---|---|
| `test_runner` | `EachOnce`, `SkippedMeansFailed`, `NoProcessLeft`, and under fairness of the runner's threads only `EndsUnlessOrphaned`: compilers and programs may hang |

Bounds: two workers race on the flag and the queue; with three cases each can take a
case after a failure was flagged. Fairness: the runner's threads; no process is fair.

### 3.6 ModuleImports (`module_resolver.rs`, `semantics/imports.rs`)

Each frame of `frames` is one running `SemanticAnalyzer`; the root's is the main file's.
`next` and `part` are its position in its import statements: `pass` "hoist" is
`collect_hoistable_declarations`, which stops at its first error, "body" is
`analyze_nodes`, which visits every import that was not hoisted, so a failed import is
tried a second time at every level. `beingImported`, `canonicalCache` and
`compiledModules` are the fields of `ModuleResolver`, `deps` is `module_dependencies`
(and the keys of `all_module_asts`). A path is a text: `Denotes[f]` (determine_file_path) says
which file each text denotes when the current file is `f`, so one text can denote several
files and one file can have several texts. The current file of an analyzer is its `home`, not
always the `file` whose AST it has: it is the file `moduleFileIds` has for the path of the import,
and `MadeUp[path]`, the text with dots for slashes (imports.rs:227-229), where there is no
entry. `cycles` is history: the circular imports that were reported.

| Run | Shows |
|---|---|
| `imports` | `NoEndlessImports`, `AcceptedIffSound`, `CyclesAreReal`, `InOrderWithoutDirectories`, `Terminates` |

`CyclesAreReal` names its exceptions: a module that does not parse and one whose names
clash stay marked (module_resolver.rs:268, imports.rs:412 return early), so the next
import of it is reported as circular, and so is a file whose relative path is the text
of one that is being imported.

A cached module is returned before `module_file_ids` is set (module_resolver.rs:251-256,
275-278). A module that is first imported as `b`, then as `./b`, is therefore analysed the second
time with the current file `//b.mux`, its own `./c` is not found, and a sound program is rejected.
`AcceptedIffSound` names this exception: that a sound program is accepted has the premise
`NoFileAstray`, a module with two paths finds the same files from what either spells. The statement
without it, `SoundIsAccepted`, is violated by `MCModuleImportsSpelling.cfg` (main imports 1 and
2, 1 imports its neighbour 3, and 2 its neighbour 1).

`Leads(f, g)` is reachability through at least one import, as membership in every set
that is closed under imports; `Absorb` is the loop of absorb_module_analyzer as a recursive
function. A path is the key of `being_imported` and of `compiled_modules`
(module_resolver.rs:244-250), and of the file only `canonical_cache` knows more than that.
So `NoEndlessImports`, `AcceptedIffSound` and `Terminates` have `OneFilePerPath` as their
premise, which holds unless two directories use one relative path; its second conjunct says that
a made-up current file leads to the right file or to none. Without it they are
false of the code: once `./c` has been compiled for one directory, another directory's `./c`
replaces it in `compiled_modules`, the first file's entry in `canonical_cache` now finds the
other AST, and the analysis of a program without any circular import may go on forever
(`MCModuleImportsCollision.cfg`).

Bounds: three modules and the main file, which the first may import back, and the third itself, make circles
of length one to four and a diamond; two imports give every order; one fault per program, in
a module that others import; file 4 stands for all that does not exist. Paths 4 and 5 are
relative: in the run modules 2 and 3 import their neighbour 1 by path 4, while others import
it by path 1, and 1 imports its neighbour 3 by path 5, so both sides of `NoFileAstray` occur. That
path 4 denotes different files happens in `MCModuleImportsCollision.cfg` only. Fairness: the
compiler is sequential and runs on.

### 3.7 FlowLanguage, DefiniteAssignment, Narrowing, BodyExecution, FlowExecution (`semantics/definite_assignment.rs`, `semantics/narrowing.rs`, `semantics/statements.rs`, `codegen/statements.rs`)

`FlowLanguage` is what the two analyses tell apart of a function body: writes to wrappers
(variables of type `optional` or `result`), booleans that remember a test, calls with and
without a reference, `value()` and `error()`, variables declared without a value, and all
the control flow. Its constants are the statements, conditions and blocks there are, and
families of bodies made of them; `Nesting` ranks the blocks, as program text is finite.
`DefiniteAssignment` and `Narrowing` are the analyses, operator by function: the record `a`
of `Narrowing` is the analyzer (`flow` its `FlowState`, `generation` its last revision), a
guard is `Guard` with the revisions its claims are about. `DefiniteAssignment` uses recursive
functions on `Blocks`, so that it can be proved about.

`BodyExecution` is the generated control flow of an accepted body: a stack `frames` of
blocks and loops with the statements left in each, the variables declared in its scope, and
those among them that have no value yet. Conditions are true or false as they please.
`FlowExecution` adds what decides them and what `Narrowing` is about: its actions are those
of `BodyExecution` with the variants of the wrappers, the booleans and the references taken
beside them; a call may write whatever a reference was taken of, globals, and what its own
references refer to. `unseen` is a history variable: writes of iterations left by a jump,
and of the iterator of a `for` inside another loop, neither of which the analysis sees.

| Run | Shows |
|---|---|
| `flow` | `VariantEstablishedUnlessUnseen`: an accepted `value()` or `error()` finds its variant on every execution; `AssignedBeforeRead`: no accepted program reads a variable without a value; `RefusedForAPath`: a program is refused only if a path through its statements reads too early (`Paths`, the reference definition) |
| `flow_loop_exit` | **violated** `VariantEstablished`: what an iteration writes before `break` is not known after the loop |

Bounds: a body is a statement before, one branch, match or loop (with up to two statements
in it, and jumps), and what uses the result after it, over a local or a global wrapper,
one boolean and two slots: the joins, revisions and loop heads of both analyses meet every
kind of write, jump and use. Nothing in the analyses depends on how many variables there
are, except that facts of two wrappers are forgotten together by a call, which the second
wrapper `g` is for. For definite assignment there is no bound on bodies in the proof (section 4).
No fairness: safety only, and a program may loop forever.

What the model shows of the code besides the finding, as the properties' exceptions name it:

- The iterator of a `for` is not among the writes `invalidate_loop_writes` collects
  (narrowing.rs:426-464).
- A saved boolean about a reference parameter survives a call made while no fact about it is
  held (narrowing.rs:170-187, although the header says "Saved predicates refer to a
  particular binding revision"): `MCFlowReference.cfg`.
- analyze_while_statement (statements.rs:430-450) joins the state before the loop with that
  at the end of its body, but the condition has been computed once more in between:
  in `while f(&x) { g(&y); y = ok(1) }` the fact about `y` is taken to hold after the loop,
  while `f` may have written `y` through the reference kept by `g`: `MCFlowCondition.cfg`. In the
  families of the run `flow` a condition writes no wrapper but the one its body tests or
  forgets, so `VariantEstablishedUnlessUnseen` holds there; it does not hold for every body.
- Definite assignment goes by names, and a variable may be declared again in an inner scope
  (symbol_table.rs:128-190, in_block_scope in codegen/statements.rs:757-781):
  `T t; { T t; t = v }; read t` is accepted and reads a slot without a value, although "reading
  before the assignment is rejected" (definite_assignment.rs:14-16): `MCFlowShadowing.cfg`.
  `AssignedBeforeRead` has `NoShadowing` as its premise.
- Definite assignment does not look at guards of match statements, map literals, bounds of
  slices, lambdas and nested functions, and a read in a nested block is refused even after an
  assignment in that block (`ReadAtTopOnly`).
### 3.8 RcCodegen, RcExecution (`codegen/memory.rs`, `codegen/statements.rs`, `codegen/functions.rs`)

`RcCodegen` is the code generator as far as it decides where values are retained and
released: `Generate` turns the body of a function into basic blocks of some ten
instructions, with the generator's own state in a record (`temps` = `temp_values`,
`tracked` = `rc_scope_stack`, `scopes` the variable table, `loops` = `loop_targets`,
`returns` = `return_cleanup_blocks`). Each operator is one function of the source and
emits what it emits, in its order. `RcExecution` runs the blocks, each branch either way,
over objects with reference counts: `mux_rc_inc`, `mux_rc_dec` and `mux_value_deep_clone`
are the actions `Retain`, `Release`, `Clone`. Every value is a boxed one of a copy type.

`rests` and `unowned` are history: the slots of the variables that list patterns bind to the rest of
a list (`[a, ..r]`), and the live objects that were stored in one. bind_list_pattern_variables
stores the slice of mux_value_list_slice without register_temp and without tracking the slot
(statements.rs:2943-2987), while the slice expression registers its result
(expressions.rs:4324-4331), so the list is lost at every match, and once more for every arm whose
guard fails after it was bound. `NothingLeaked` names this exception exactly: one reference to each such
object remains, and no other. `EverythingGivenBack` is the statement without it.

| Run | Shows |
|---|---|
| `rc` | `NoUseAfterRelease`, `NothingLeaked`, `VariablesDoNotShare`, on every path of some thousand functions |
| `rc_constant` | **violated** `NoUseAfterRelease`: a constant initialised from a variable is released twice |

Bounds: one branch, match or loop (also one inside another) between a declaration and a
return, with every kind of statement and jump in it, nested calls in every position, and
parameters. Deeper nesting repeats `Statement`, which is the same at every depth: its mark
on the list of temporaries is what can go wrong, and jumps out of one and two levels are in. Values
that no later block reads are forgotten, so that loops have finitely many states; nothing
is compared with them afterwards. Patterns with a rest are outside loops, where each iteration
would lose one more list. No fairness: a loop may go on.

The functions in which a borrowed value is stored or kept, or a new one is owned by no one, are sets of
their own in `MCRc`, one per construct; each violates a property when `Functions` is replaced by it in
`MCRcConstant.cfg`, with the invariant named here:

| Functions | Violated | In the code |
|---|---|---|
| `ConstantOfVariable` | `NoUseAfterRelease`, `VariablesDoNotShare` | statements.rs:936-976: no copy (the run `rc_constant`) |
| `ConstantOfChoice` | `NoUseAfterRelease` | the result of `c ? a : b` is no temporary, its parts are released at the end of the statement, the constant keeps it |
| `ConstantInLoop` | `NothingLeaked` | statements.rs:936-976: the slot is overwritten without a release (its object counts are unbounded under the other invariants) |
| `LoopOverAssigned` | `NoUseAfterRelease` | statements.rs:467-620: the loop keeps the pointer of a list variable that its body assigns |
| `ParameterAssigned` | `NothingLeaked` | functions.rs:132-214: a parameter's slot is not released at a return, but an assignment releases the caller's object |
| `PatternVariableAssigned` | `NoUseAfterRelease` | statements.rs:2892-2990: the slot of a pattern variable shares the element with a temporary, an assignment releases it first |
| `MatchOnChoice` | `NoUseAfterRelease` | statements.rs:622-820: `c ? a : b` is taken for a new value and released beside its parts |
| `RestOfPattern` | `EverythingGivenBack` | statements.rs:2943-2987: the slice for the rest of a list is neither a temporary nor in a tracked slot |

### 3.9 Download (`mux-update/src/download.rs`)

The update (`pc`, the flag, `fetched`, `staging`) and one worker process at a time, which
has its own cancellation flag. `fetch` is the loop over `StartWorker`, `Poll`, `SeeStatus`
and `TimeOut`, `ReadOutput`, and the drops: `KillWorker` and `WaitForWorker` are
`DownloadChild`'s, `RemoveDownload` that of the directory. The worker requests, follows
redirects, reads chunk by chunk and writes its output file, which exists before it is
full. The server may send a part, send nothing, or replace the release's files at any time
(`Reupload`); SIGINT reaches the update alone or the worker too, and the handler of a
worker that has just started may not be installed yet.

| Run | Shows |
|---|---|
| `download` | `DeliveredWhole`, `StagedIsPublished`, `NothingLeftRunning`, `CancelEnds`, `BothEnd` |

`StagedIsPublished` is about the checksum that was fetched: archive and checksum replaced
together between two updates are both of the same upload. `BothEnd` assumes that the two
timeouts fire; `CancelEnds` does not.

Bounds: files of one chunk and one too many, one redirect and one too many, one replacement
of the files: each limit is met from both sides. Fairness: both processes run, signals are
delivered, SIGKILL kills; weak fairness, as neither process waits for anything but the other
and time.

## 4. What is proved

Module `InstallTransactionProofs` (TLAPS), for every number of files, every pair of
receipts and both platforms, from `TransactionAssumption` alone (the receipts cover
the files, the launcher belongs to both, probed executables belong to the new one):

| Theorem | States |
|---|---|
| `TypeCorrect` | `Spec => []TypeOK` |
| `RollbackRestores` | `Spec => []RestoredExactly` |
| `ReceiptImpliesComplete` | `Spec => []ReceiptLast` |
| `NothingLost` | `Spec => []Recoverable` |
| `UnownedFilesKept` | `Spec => UnownedKept` |
| `TransactionImplementsContract` | `Spec => ImplementsContract` |

The inductive invariant is `IInv`. None of the properties is inductive alone: that
a rollback restores everything depends on every item being in one of three
shapes (`Untouched`, `BackedUp`, `Placed`) according to its place relative to `cur`
(`PhaseInv`), and on what `prepare` established about existing items (`Inspected`):
only owned, regular files are ever moved. In the rollback, items after `cur` are
`Undone`: untouched again, or stuck with the backup still there and the error
recorded. There is one lemma per action (`...Step`), one step per conjunct. The
refinement needs `IInv` on both sides of a step: the step that commits is the one
that sees `FilesView` = "after", the one that restores sees "before".

The other proofs modules each have one inductive invariant `IInv` as well, with a lemma per
action and a theorem `InductiveInvariant`, `Spec => []IInv`. The assumptions are those on
the constants that the modules declare; there is no bound on the numbers of processes,
files, cases, requests, documents or versions in them.

**`UpdaterProofs`** (from `UpdaterAssumption`: the kinds of processes are disjoint).

| Theorem | States |
|---|---|
| `OneVersionForCompilers` | `Spec => []CompilerSeesOneVersion` |
| `UpdatesGoUp` | `Spec => NeverDowngrades` |
| `WritersAreAlone` | `Spec => []LockDiscipline`: a replacement meets no other one, no registration and no compiler, and replaces the receipt it has seen |

`CompilerSeesOneVersion` is a statement about the one moment a compiler runs. It is
inductive with: who holds the lock at which step (`LockHeld`), that the transaction's view
of the disk is "before" unless a process is in `install` (`Transaction`), that under the lock
the receipt is still what was read again after locking (`UnderLock`, the reason for the
second load in lib.rs:79-85), what each process goes for (`Aims`), and that the receipt names
the files, with at most one installer that has yet to register its copies (`Registered`).
This last conjunct was not inductive for two installers as long as `tainted` ignored
copies over another installer's files, see 3.2. `NeverDowngrades` follows from `Aims` and `UnderLock`.

**`DownloadProofs`** (from `DownloadAssumption`: the limits are numbers).

| Theorem | States |
|---|---|
| `FilesDeliveredWhole` | `Spec => []DeliveredWhole` |
| `OnlyPublishedStaged` | `Spec => []StagedIsPublished` |
| `NoWorkerLeft` | `Spec => []NothingLeftRunning` |

`WorkerInv` ties the worker and the directory to the update's program counter, so that the
worker is reaped before the directory goes, on each way out of `fetch`; `OutputInv` is why
the output is read only after a successful exit: the response is settled and written by
then; `FetchInv` says that the files are fetched in turn, so that a slot is still empty when
its file arrives; `StageInv` carries what `Verify` compared on to the end.

**`SourceWritersProofs`** (from `WritersAssumption`).

| Theorem | States |
|---|---|
| `FixIsAllOrNothing` | `Spec => []AllOrNothing` |
| `FixCleansUp` | `Spec => []NothingLeftBehind` |
| `FixKeepsOldText` | `Spec => []OldTextKept` |
| `FixKeepsEdits` | `Spec => SeenEditsKept` |

`Leftovers` and `Replacements` describe the four vectors of `write_transaction` by the place
of the loop: which paths have a temporary file, a backup, the new text, and which of those that
are left could not be removed. `Backups` says that a file which still holds the analysed text
was backed up with it: no step but a restore writes that text, so the comparison before the
rename also vouches for the backup. `Undone` is the
progress of the rollback: as long as it has not failed anywhere, no path it has passed holds
the new text. `Window` names the one step between comparison and rename in which a saved text
is lost. `mux fmt` and the user disturb only what no conjunct claims: they never write the new text.

**`LspServerProofs`** (from `LspAssumption`).

| Theorem | States |
|---|---|
| `TypeCorrect` | `Spec => []TypeOK` |
| `OneAnswerEach` | `Spec => []AnsweredOnce` |
| `NoLostWakeUp` | `Spec => []WakeUpPending` |
| `AnswersAreCurrent` | `Spec => NoStaleAnswer` |

`Tracked` is what makes answers current: of every request in a channel or with the worker,
the recorded revisions are those of its snapshot, and equal revisions mean equal texts, as
revisions are never given twice (`Counters`, `Known`); the comparison of revision maps in
send_worker_results then decides about the texts. `Signals` says that there is exactly one signal in the
channel for a pending task and none without one, whichever of the two critical sections of
schedule_diagnostics the main loop is between.

**`TestRunnerProofs`** (from `RunnerAssumption`: no more workers than cases, as
run_test_cases starts them).

| Theorem | States |
|---|---|
| `EveryCaseOnce` | `Spec => []EachOnce` |
| `SkippingNeedsAFailure` | `Spec => []SkippedMeansFailed` |
| `NoProcessOfAResult` | `Spec => []NoProcessLeft` |

The queue is always the last cases in order (`QueueOrder`), and a taken case is with one
worker or in the report (`TakenOnce`). The flag is only up for a failed result that is
in the report or about to be pushed (`StopMeansFailed`): the flag is set before the result
is pushed, so a report that is written when all workers are done (`DoneMeans`) has it.
`Supervised` gives every running process a worker that waits for its pipes.

**`ModuleImportsProofs`** (from `ImportsAssumption`: programs are well-formed, and the main
file is one the parser has accepted; and `LookupAssumption`: `Denotes` and `MadeUp` are functions;
nothing has to be finite).

| Theorem | States |
|---|---|
| `TypeCorrect` | `Spec => []TypeOK` |
| `NoEndlessNesting` | `Spec => []NoEndlessImports` |
| `VerdictIsRight` | `Spec => []AcceptedIffSound` |
| `ReportedCyclesAreReal` | `Spec => []CyclesAreReal` |
| `ImportsComeFirst` | `Spec => []InOrderWithoutDirectories` |

The argument, where every path denotes one file (`Nesting`): the running analyzers are nested
along imports (`Chain`); what is cached has been imported without an error, so all it imports
is cached and it does not lead back to itself (`Finished`), which is why a cached module may be
analysed again without a mark; a running file that is not cached is marked, unless an analysis
further in has failed (`Marked`); what an analyzer without an error has passed is cached
(`Progress`); the marks are those of running analyzers in the programs in which none stays behind
(`Marks`), and errors occur only in programs that are unsound or have a module that is lost under
one of its paths (`Verdict`). A program is accepted only if the closed set of cached files contains
all that is reached, and rejected only by one of the errors. What an analyzer imports is one
of the parts of its module because of `Homes`: a path under which a file was parsed is known with
that file, so an analyzer believes it is where it is, or its module has a second path and the
path is made up (`Astray`); there it finds the right file or none (`OneFilePerPath`), and the right one
under `NoFileAstray`. The order of initialisation needs a second invariant, `Order`: every list of
dependencies has each module after all it imports (`Ordered`), and that of an analyzer
without errors has all it has imported so far (`Found`); merging two ordered lists in
`Absorb` keeps both. `Absorb` is a recursive function; that it is defined on every list
is the lemma `AbsorbDefined`, by induction on the length. The induction is the lemma
`Induction`: a set of numbers with 0 and all successors up to m has no gap, or the successor
would be a one-to-one map of a finite set onto a proper part of it.

A remark for those who extend these proofs: version 1.4.5 of the proof manager gives the SMT
solver the axiom `DOMAIN s = 1 .. n <=> Len(s) = n` for every value `s`, sequence or not, from
which a function with another domain (like the one inside `Absorb`, over 0..n) is a
contradiction. No leaf here rests on that: all modules were also checked with the axiom
weakened to an implication from left to right.

**`BodyExecutionProofs`** (from `BlocksAreNested` and `PartsAreKnown`: the program text is
finite, a match has an arm, and the parts of statements and conditions are among the
constants).

| Theorem | States |
|---|---|
| `BodyTypeCorrect` | `BodySpec => []BodyTypeOK` |
| `InductiveInvariant` | `BodySpec => []IInv`, without shadowing |
| `NoReadBeforeAssignment` | `BodySpec => []AssignedBeforeRead`: definite assignment is sound |
| `NoneRefusedWithoutAPath` | `BodySpec => []RefusedForAPath`: it refuses nothing without a path, for reads in the declaring block |

They are for bodies of any length and nesting, and any number of variables, where the run
`flow` has four families. `BodySpec` leaves it open how conditions turn out and what else the
compiler refuses, so that it allows more than `FlowExecution`, whose every action has an
action of `BodyExecution` as a conjunct; TLC confirms with `MCFlowBody.cfg` that each
step of the run `flow` is one of `BodyNext`. The theorems are not repeated for `FlowExecution`,
as that module declares RECURSIVE operators.

`IInv` says of the stack of frames what the analysis said of the text: what is left of every
frame was checked and declares nothing that is in scope (`WellFormed`), and for every variable
without a value (`Pending`) no frame inside the one that declares it reads it, and either
what is left of the declaring frame assigns it before reading it, or a frame inside, with no
loop in between, does so before it ends or leaves (`WillSettle`). The alternative is what
makes a branch or match with assignments inductive: once an arm has been entered the
statements after it may read the variable, because all arms assign or leave
(`StatementSettles`, the meaning of `combine_branches`). That a loop interrupts it
is the rule that loops never count, and why `break` and `continue`, which take frames away up
to the loop, disturb no promise outside of it. Steps are treated by what they do to the stack: `Moved...` (the
innermost frame goes on), `Push...` (a frame is entered), `Prefix...` (frames are left).

The analysis, the blocks inside a block and the paths through one are recursive functions on
blocks. That they satisfy their equations is not given: `Recursion` proves that what computes
the value of a block from blocks of smaller `Nesting` has a fixed point, and
`BlocksInDefined`, `AnalyzeBlockDefined`, `StatesAfterDefined` and `PathsDefined` apply it.
`StructuralInduction` is the induction over blocks, for a set of blocks instead of an operator.

## 5. What is only model-checked

Liveness (`Terminates`, `CancelRollsBack`, `RequestsAnswered`, `WorkerStops`,
`OpenConverge`, `EndsUnlessOrphaned`, `CancelEnds`, `BothEnd`) is checked by TLC under the fairness named
above; the proof system does not handle ENABLED.

`VariantEstablishedUnlessUnseen` (`FlowExecution`) and `NoUseAfterRelease`, `NothingLeaked`,
`VariablesDoNotShare` (`RcExecution`) are checked on the families of programs of their runs.
`Narrowing` and `RcCodegen` are RECURSIVE operators that thread a state through the program text,
which the proof system does not take, and the first does not hold of every program
(`MCFlowCondition.cfg`, see 3.7). Every other invariant and action property that a passing
run checks is proved as well (section 4); that `FlowExecution` takes only steps of
`BodyExecution` is checked (`MCFlowBody.cfg`) and can be read off its actions.

## 6. Disagreements between code and documentation

- `VariantEstablished` (src/mux-compiler/src/semantics/statements.rs:747, run `flow_loop_exit`): break and continue only set flow.reachable to false (statements.rs:747-749), and analyze_while_statement joins the state before the loop with that at the end of the body (430-450): the state at a break is dropped, although it reaches the statements after the loop. Module narrowing.rs speaks of "Facts about Result/Optional variants on paths that can reach an expression" (narrowing.rs:1). The run shows an accepted program whose loop makes the wrapper empty and breaks, and whose value() after the loop takes a value that is not there.
- `NoUseAfterRelease` (src/mux-compiler/src/codegen/statements.rs:936, run `rc_constant`): generate_const_decl_statement stores box_value(value) into a tracked slot (statements.rs:936-976) without the copy box_value_owned_for_slot makes: "Produce the boxed pointer to store into a variable/constant slot, taking ownership of it" ... "a borrowed reference-counted value of a copy type ... is deep-cloned" (memory.rs:2102-2109). For `const string c = x` the slots of x and c hold one object with one reference, which is released twice at the return.

Counterexamples to further statements of the repository are kept as configurations to be run
by hand; each ends in a violation (`MCFlowBody.cfg`, which is also run by hand, in none):

- `MCInstallWindowsBackup.cfg` (`MCInstallTransaction`, `RecoveryFilesRemain`): on Windows the
  backup of `mux.exe` is `.mux-update-backup-launcher-*` in `bin_dir` (transaction.rs:144-150).
  When a rollback cannot rename it back, install names the staging directories and says "do not
  delete them before restoring Mux" (transaction.rs:64-66); the backup is in neither, and
  cleanup_old_launchers (lib.rs:24-50) of the next launcher that finds a receipt removes it.
- `MCUpdaterCopiedOver.cfg` (`MCUpdater`, `RegisteredNeverCopiedOver`): install.sh:113 tests for
  the receipt without the lock, while "Registered installations share a lock with compilation
  and updates" (install.sh:114-115): in the middle of a `mux update` the receipt is moved away
  and the script copies over the registered installation.
- `MCSourceWritersUnreadable.cfg` (`MCSourceWriters`, `FailedFixRestores`): replace_targets
  (fix.rs:578) returns the error of fs::read without a rollback, against "if any later
  replacement fails, all already-replaced files are restored before the error is returned"
  (fix.rs:361-363).
- `MCTestRunnerTimeout.cfg` (`MCTestRunner`, `TimeoutEndsTest`): once the compiler has exited,
  run_one_test joins the pipe readers (main.rs:1075, 1129-1136) without timeout and without
  killing the process group; "only checking the leader would leave that descendant alive"
  (main.rs:1191-1194) is considered only while the leader runs.
- `MCModuleImportsCollision.cfg` (`MCModuleImports`, `AnalysedOnceAtATime`): a file is analysed
  inside its own analysis in a program whose imports are not circular, as one relative path
  denotes two files in it; see 3.6.
- `MCModuleImportsSpelling.cfg` (`MCModuleImports`, `SoundIsAccepted`): a program without errors in
  which one module is imported by two paths is rejected, as its relative import is lost under
  the second; see 3.6.
- `MCModuleImportsDirectory.cfg` (`MCModuleImports`, `InitialisedInOrder`):
  resolve_and_register_submodule (imports.rs:426-515) does not call absorb_module_analyzer,
  without which "a module reachable only transitively ... never reaches codegen"
  (imports.rs:182-198): what a submodule of an imported directory imports is missing from
  module_dependencies or stands after it.
- `MCFlowReference.cfg` (`MCFlow`, `VariantEstablished`): see 3.7.
- `MCFlowCondition.cfg` (`MCFlow`, `VariantEstablishedUnlessUnseen`): what the last condition of a
  `while` loop writes is not forgotten after it; "Facts about Result/Optional variants on paths
  that can reach an expression" (narrowing.rs:1) then do not hold on a path through the body; see 3.7.
- `MCFlowShadowing.cfg` (`MCFlow`, `ReadsAreSet`): a variable declared again in an inner block counts
  as assigned when the inner one is, against "Separating them is only safe if reading before the
  assignment is rejected" (definite_assignment.rs:14); see 3.7.
- `MCRcConstant.cfg` with the other sets of functions of `MCRc`: see 3.8.


## 7. Not modelled, and why

- Contents of files, names, JSON, version strings, checksums, archives: data
  that no property distinguishes. A check on them is a step that can fail.
- Directory entries of the staging directories one by one: a transaction's
  staging directories appear and go as a whole. The copies made in `prepare`
  are part of the item's step.
- The lexer, the parser, the type checker and the emission of operations, classes and
  closures: sequential programs without shared state. What is modelled of the compiler is
  in 3.6 to 3.8; further parts with a core worth stating are in the plan above.
- The download: what is checked of redirects, metadata, archive entries and the bundle is
  a step that can fail.
- Windows process handling of the test runner (no process groups there); the
  model is the Unix build.
