# Verification of nnimage

TLA+ models, TLC runs and TLAPS proofs for nnimage, a tool that builds disk
images from a configuration file or from command-line options.  Everything
here is translated from the C++ under `src/source`; `PROJECT.json` maps each
definition to the lines it stands for.

## The system

`main` constructs an `OptionsParser` and a `Dispatch`.  `Dispatch::Execute`
runs a pipeline: a front end (`ImageConf` for a file, `ImageCmd` for options)
fills an `ImageSet`; images are selected, given file names, completed with
defaults and finalized; the operation named on the command line prepares one
target per image, whose actions are meant to be run as tasks by a `TaskGraph`.

| Component | State | Operations | Hard behaviour | What makes it correct |
|---|---|---|---|---|
| Task graph (`Task.cxx`) | tasks, edges, in-degrees | `AddTask`, `AddDependency`, `topoSort`, `getDescendants` | long sequences of calls, duplicate edges | stays acyclic, in-degrees exact, searches right |
| Task scheduler (`Task.cxx`) | ready queue, completion and success counts, task states, mutexes, condition variable | `RunTasks`, the workers, `Run`, `Skip`, `skipDescendants`, `addReadyTask` | interleaving of workers, lost notifications, failures while others run | dependency order, everything settles, the answer is right, the call returns |
| Image and its components (`Image.cxx`, `comps/`) | base properties, three component slots, deferred properties, references to other images | `Set`, `AddComponent`, `SetDefaults`, `Finalize` | properties set before the component that owns them exists, in the hash order of a map | no setting is lost, the order does not matter, defaults keep what was set |
| Component registry (`Image.cxx:340`) | a lazily merged table per component | `getRegistry` | two readers merge at once | a get finds what the component has |
| Image set (`Frontend.cxx`) | images and partitions by name, references | `AddImage`, `AddPartition`, `ResolveImgRefs`, `ResolvePartRefs`, `Filter` | references to images that come later, or are filtered out | every reference resolved or reported |
| Dispatch (`Dispatch.cxx`) | selection, file names, operation | the steps of `Execute` | steps that depend on what an earlier or a later step sets | every image that goes on has a file, a format and valid properties |
| ImageConf, ImageParser, SimpleLexer | token stream, blocks | `NextToken`, `ParseBlock`, `processBlock`, `createImage` | look-ahead at the end of the text, errors half way | the grammar, positions, no image half built |
| ImageCmd, KeyValue | options | `Parse`, `convertStr`, `processProps`, `processPartitions`, `KeyVal::Parse` | a name may begin a path, which the next token tells; any property by its name, after the options that set it | each setting is what its text says, one image or an error |
| ConfParser (`ConfParser.cxx`) | typed keys, the list of the keys found | `Parse`, `Set`, `Get`, `setLocked`, `Serialize` | an error after some lines were applied; the list and the values are apart | the last value counts, round trip |
| Options (`Options.cxx`, `OptionParser.h`) | option sets, which were used | `UseSet`, `Parse`, `CheckUnusedOpts` | an option of a set nobody used | every option given is used or reported |
| Managed log (`Log.cxx`, `LockFile.h`) | the log directory and lock file, shared by all running programs; a maintenance thread | `Prepare`, `logMaintWorker`, `checkLog`, `deleteOldestLogs`, `TryAcquire` | programs name, write and delete logs in one directory and may be killed; a directory or lock file that cannot be had; a thread that ends with its program | one maintainer at a time, as many logs kept as asked for, somebody does the work |
| Log sinks (`Log.cxx`) | sinks and their level filters | `LogAt`, `LogWithTag`, `SetSinkLogLevel` | threads log while levels change | each message goes to the sinks whose filter admits it |
| Error (`Error.h`) | frames, severity, cause | `Add`, `Chain`, `GetChain`, the formatters and sinks | frames added and errors chained in any order on the way up | a report tells every frame, and a fatal severity is kept |
| Operations, actions, backends | tables; mostly stubs | `MakeOperation`, `PrepareTargets` | none yet | each image of a set gets its target |

The scheduler's threads and the log maintenance (a thread, and other
processes) are the concurrent parts.  The rest is sequential, and hard because
of the order in which its operations are called.

## Modules

| Module | Models | Extends |
|---|---|---|
| `TaskGraph` | the graph under construction: `AddTask`, `AddDependency` with its cycle test | |
| `TaskGraphSearch` | the breadth-first searches and the topological sort as the code writes them, against what they compute (recursive, for TLC only) | `TaskGraph` |
| `TaskRun` | `RunTasks` and its worker threads, step by step | `TaskGraph` |
| `TaskSchedule` | the abstract schedule that `TaskRun` implements | |
| `TaskRunInv` | the three inductive invariants of `TaskRun` | `TaskRun` |
| `TaskRunProofs` | theorems about the graph and about the order `RunTasks` keeps | `TaskRunInv` |
| `TaskAnswerProofs` | theorems about its answer, the refinement, its count and failures | `TaskRunProofs` |
| `Image` | one image and its components as operators on a record | |
| `ImageBuild` | the life of one image: settings, reference, defaults, verdict | `Image` |
| `ImageSet` | the images, partitions and references of a file, and the calls on the set | |
| `CompRegistry` | the lazy merge of a component's registry, read by several threads | |
| `Dispatch` | a run of the program, from its options on, over an image set | `Image` |
| `LogMaint` | several programs that share a log directory | |
| `LogSinks` | the sinks of one program's log and the threads that use them | |
| `ErrorChain` | an error on its way up, and its report | |
| `SimpleLexer` | `NextToken`, a character at a time | |
| `ImageParser` | the grammar of a configuration file over the lexer's answers | |
| `ConfParser` | a file of typed properties, with the keys of the log's control file | |
| `ImageCmd` | the options that describe one image, over the lexer's answers | `Image` |
| `KeyValue` | lists of pairs, `key=value,...` | |
| `ImageFacts` | lemmas about `Image`'s operators and about induction over numbers | `Image` |
| `ImageProofs` | theorems about one image, the registry and the set | `ImageBuild`, `CompRegistry`, `ImageSet`, `ImageFacts` |
| `DispatchProofs` | theorems about a run of the program | `Dispatch`, `ImageFacts` |
| `FrontEndProofs` | theorems about the lexer and the command line's image | `SimpleLexer`, `ImageCmd`, `ImageFacts` |
| `LogMaintProofs`, `ReportProofs` | theorems about the log directory; about the sinks and the errors | `LogMaint`; `LogSinks`, `ErrorChain` |

Each `MC…` module fixes the constants of the modules it extends. Four of them hold several
modules that share no state, and the first state says which one is run: `MCDispatch` a run of the
program and the graph of tasks, `MCFrontEnd` what reads images from text, `MCImages` the image, the registry and
the set, `MCLogs` the log directory with its control file, the sinks and the errors.

Two modules state the same component at two levels. `TaskSchedule` is the abstract
specification of `RunTasks`: graphs without threads, queues or counts, in which a task starts after
its dependencies. `TaskRun` instantiates it (`Schedule == INSTANCE TaskSchedule WITH ...`): the
mapping keeps the graph, the task states and the answer and forgets threads, queues, counts and
locks, and `ImplementsSchedule` is the property that every behaviour is one of the abstract schedule's.

### How the models correspond to the code

**`TaskRun`.** Every access to memory that another thread can see is a step of
its own; what a thread does under a mutex is split only where another thread
could tell.  `readyCond.wait` is three steps: the predicate is evaluated under
`readyMtx` (`CheckPredicate`), the thread blocks and gives the mutex up (`Block`, one
step, as the standard requires), and it takes the mutex back after a
notification (`Wake`) and evaluates the predicate again.  A notification
wakes only threads that are in `waiting` already.  `completed` is read in the predicate and
again after the wait (`Exit`, `Pop`, `PopEmpty`), and added to without
`readyMtx` (`Count`, `Tally`), as in the code.  `Task::Run` and `Task::Skip` are their
compare-and-swaps.  `pool size` is the number of threads the machine reports, any
from one to the number of `Workers`, and never more than the tasks.  A pop of an empty
queue leads to the label `undefined`, which the worker never leaves.

**`Image`.** A setter yields the set of images it may leave; the empty set is an
error.  `deferredProps` is an `unordered_multimap`, so `Defer` puts a new element
anywhere.  A value is an identifier; `Mistyped` stands for one of a type that
`ImageVal::Cast` refuses, `"unknown"` for an identifier no table has.  Of
`Finalize`, the assertion in `IsoPartComp::Validate` is the verdict `aborted`: assertions
are compiled in by the default build type.

**`ImageSet`.** An image is what the set can tell of it: the name it refers to, the pointer that
became of it, and its partitions. `createImage` records the references of a block before the set
refuses a second image of its name, as in the code. The calls on the set come in any order and as
often as they like; a call that follows a reference to an image that `Filter` has destroyed
leads to the stage `undefined`. `Orderly` says in which order the functions are
meant to be called: partitions before the filter, boot images after it. No code of the program
calls the two resolving functions, so this order is an assumption of the properties and not one the
program keeps.

**`CompRegistry`.** The look at the table without the lock and the search after it are steps of
their own, and so is each insertion, the order of which is that of hash tables; a look while another
thread fills the table may answer anything. `sole` holds the readers whose get has met no other. The
comment at `ImgComponent.h:95` promises more than holds of these (`GetsAreSafe`).

**`Dispatch`.** The options are parsed, checked and taken into use before `Execute`'s front end
runs; `used` is the tracker's `usedSets`. One action per step of `Execute` that can fail or changes the
images; the first that fails ends the run with its error.  The images are
validated in any order, since the set is a hash table.

**`LogMaint`.** A program is its main thread and its maintenance thread.  The
file system and the lock file are the shared state: the look for a free name and the
opening, the query of a log's age and its removal, and each removal of pass 2
are separate steps, because another program may act between them. A path that is no
directory, a directory that another program was quicker to make and a log that cannot be opened end
the main thread's part with an error (`FindDir`, `MakeDir`, `OpenFails`); an exception of the lock file
leaves the maintenance thread, which catches nothing, and so ends the program (`TryAcquire`, as `Crash`).  A kill
takes both threads and, as the system closes the file, the lock.  A log deleted while a program has it
open loses its name only.

**`LogSinks`.** A message takes the shared lock (`Share`), visits each sink (`Check`), takes the
sink's own lock and puts out a beginning and an end (`LockSink`, `Written`), and gives up the shared
lock (`Passed`). Adding a sink and changing levels need the lock alone. `level`, the atomic of the
whole log, is read at every sink and changed outside of any lock: `posts` marks the messages during
which it changed. `Output` is an error's report: one message per link of its chain.

**`ErrorChain`.** A frame is its number and whether it is for debugging; a link behind the error is
its severity and frames. `made` remembers what each call said, for the property only.

**`SimpleLexer`.** The text is chosen while it is read, so each behaviour is one text.
`nextChar` is the one character that can come back; as in the code a NUL in it means none, and
a NUL of the text that is returned or peeked is lost. `Take(c, kept)` is `readChar` when the
character is consumed and `peekChar`, or `readChar` with `returnChar`, when it is kept. The
characters are one per class the code tells apart: digits of every base (`0`), of bases 10
and 16 (`8`), letters that give base 2 and 16 (`b`, also a hexadecimal digit, and `x`),
and so on. Numbers at or above `Limit` are the ones `std::from_chars` refuses. What a string's
escapes become, and the warning for an unknown one, are left out.

**`ImageParser`.** The parser's calls do not nest deeper than block, property and list, so its
call stack is the label `step`. The lexer may answer any token or an error at any time and, after
the end, the end again. `peekToken` fills `nextTok`, `nextToken` empties it first. The
brace that ends a block hands it to the loop of `ImageConf::Parse`, which refuses unknown
types; what `createImage` does with a block is in `ImageBuild` and `ImageSet`.

**`ConfParser`.** As in the code the whole text is read before its properties are applied; the
table `Grammar` says which tokens each place takes. `-1` is the value of a key that has none. One lock is
held over each of `Parse`, `Set` and `Get`, so these are not interleaved.

**`ImageCmd`.** A command line is a sequence of texts, each with the option it belongs to; the
tokens of a text are chosen as `convertStr` reads them. `Converts` is its automaton: after a string, a number, a
number with a multiplier or a boolean only the end may follow; a slash, or a name before one, begins a
path of names and slashes in turn. `--imgprop` may name every property of an image, also one that an option
before it has set: a boot mode is then overwritten, a second type or format refused, and a type given so late
still replays the boot emulation that waits for it. The lists of pairs
are split by `KeyVal`, which `KeyValue` states on its own.

## Runs

| Run | Question | Bounds, and why they are enough |
|---|---|---|
| `MCTaskRunAll` | Dependency order, no refused task, the right answer, refinement of `TaskSchedule`; while no task can be counted twice, the count is never ahead and no empty queue is popped; nothing runs below a failure in a forest | All graphs of up to 3 tasks, 3 threads, failures, spurious wakeups: two dependencies may end at once while a third thread waits, chains of three, two dependents of one failed task. |
| `MCTaskRunFair` | Does everything get over, and does a sole worker return? | All graphs of up to 3 tasks, 1 or 2 threads, failures, under `FairSpec`. |
| `MCImages` | Is any setting lost; does the verdict depend on the order? Does a get of a property find it? Do pointers in an image set outlive what they point to, and does every name get what it names? | All sequences of up to 4 settings, repeated and bad ones included: enough for the format, the layout and both deferred properties in any order. 3 threads and 4 gets: two race for the first and two come later, one beside the other. Files of up to 4 blocks (two images that share two partitions) and up to 4 calls: both resolutions, the filter and a use of the boot image, in any order. |
| `MCDispatch` | What has a successful run established? Are the graph of tasks and its searches right? | Up to 2 images of 8 kinds, every command line of the sets of options in `MCDispatch`. All graphs of up to 4 tasks: paths of length 3, diamonds, and every order of calls; a duplicate edge, a refused edge. |
| `MCLogs` | Do the maintenance threads exclude each other, and keep what they should? Does each message reach exactly its sinks, whole? Does a report tell all of an error? Is the control file of the logs read as it says, and written so that it can be read again? | 2 programs, 2 older logs, 3 control files, a clock that ticks once, at midnight: names collide, logs get out of date, order changes while sorting, a program dies holding the lock. 2 threads, 3 operations, 2 sinks and those added: two messages pass each other while a third operation changes levels or adds a sink. Errors of up to 4 frames: two links of two, or four of one. Control files of up to 9 tokens, two properties and the beginning of a third, with a call of `Set` before or after; the keys hold numbers, as all of the program's do. |
| `MCFrontEnd` | Is what is read what the text says, and is exactly the grammar accepted? | Texts of up to 6 characters of 13 classes: an escaped CR LF in a string takes five, a number with base, digit and identifier four. Texts of up to 13 tokens: a block with two properties, or a list of three, or two blocks of which one has a property. Command lines of up to 2 texts of 4 tokens, of any option and property, with identifiers that are a type, a type or boot mode, an emulation and a boot mode: settings that are taken, deferred, replayed, overwritten and refused. Pairs of up to 8 characters: two pairs, with an empty one or a third `=`. |

Six runs end in a violation; each checks one statement of the repository that the
code does not keep.

| Run | Statement | What happens |
|---|---|---|
| `MCTaskRunLostWakeup` | completion ends the wait (`Task.cxx:217`) | `completed` grows and `notify_all` is called without `readyMtx`. A worker that has just found the predicate false blocks after the last notification; `RunTasks` never returns. `tests/Task.cxx:192` notes an occasional failure. |
| `MCTaskRunEarlyExit` | "as long as there are tasks to run" (`Task.cxx:212`) | A task whose dependency fails is skipped and counted; another dependency then succeeds and queues it all the same (`Task.cxx:237`); it is popped, `Task::Run` answers true, and it is counted again. The count reaches its final value with a task not yet run. One thread is enough. |
| `MCTaskRunAfterFailure` | every descendant of a failure is skipped (`Task.cxx:253`) | In-degrees are decremented before the descendants are marked, so another dependency can queue one in between, and it runs. |
| `MCImageAbort` | `Finalize` answers with an error (`Dispatch.cxx:172`) | An ISO9660 image without a boot emulation meets an assertion when no defaults were applied. |
| `MCRegistryRace` | "getting must be thread safe" (`ImgComponent.h:95`) | The registry is looked at and searched without the lock: a thread searches it while another fills it and misses a property that is there; one that waited for the lock fills it again and throws `PropConflict`. Only one thread gets properties today. |
| `MCDispatchRefs` | `Parse` resolves boot images (`tests/ImageConf.cxx:283`) | Nothing in the program calls `ResolveImgRefs`; the test that says so calls it itself, at 262. |

Behaviours of the code that the models include and that no run is devoted to:

* A task below two failed tasks is counted twice, `completed` steps over
  `tasks.size()`, and the pool of even one thread never ends. `CountsOnce` says exactly when a task can be
  counted twice (a failure, and a task with two dependencies) and leaves the case out of `CountNeverAhead`,
  `PopsReadyTask`, `NoEarlyExit`, `AllSettle` and `SoleWorkerReturns`; `MCTaskRunEarlyExit` shows its other outcome.
* In the same case a worker can pop an empty queue (label `undefined`): the count is right when its wait
  ends and too high when it is read again.
* `completedQueue` is in the order of completion, a dependency first, where the
  comment at `Task.cxx:247` says reverse topological order.
* Two values deferred for one property are replayed in the order of the container;
  `NothingLost` asks that one of the values given is in force.
* `SetDefaults` appends a reference to the empty name when a boot image was given
  and is not resolved.
* A default file name is made before the format is defaulted, so an image without
  a format of its own ends in `ImgFileNotSpecified`.
* With several output files of which one names no image, the value of an empty
  optional is used (stage `undefined`).
* A string that goes over a line without an escape does not advance the line count
  (`rawEnd`); the tests' title at `tests/SimpleLexer.cxx:253` names strings, their text has none.
* `078` is the number 7 with the identifier `8`: a leading zero makes the base 8, and the
  first character that is no octal digit begins the identifier.
* `--verbose` sets the console's sinks to `Debug` while the global level stays `Info`, so debugging
  messages still reach no sink.
* The program never resolves references to partitions, so an image of a configuration file has none;
  called after `Filter`, `ResolvePartRefs` would use owners that are gone (stage `undefined` of `ImageSet`).
* `Add` with a warning takes an error's severity down to a warning; only `Fatal` stays.
* `Serialize` asserts on a list and on the value `-1`, writes other negative numbers, which the
  lexer cannot read, and takes no lock.
* A NUL ends the text where a token may begin, and is skipped right after a word or a number.
* Programs that read the clock in one tick can share a log ("TODO: racey"); a log can be
  written between the query of its age and its removal; while logs are written
  during `std::sort`, the order is undefined and a newer one may go first.

## Fairness

`FairSpec` gives weak fairness to the main thread and to each worker: the operating
system runs every thread that can run, a free mutex goes to one of the threads that
ask for it, and callbacks return. Weak fairness of a whole worker suffices since a
worker is always at one place. No lock of the pool is asked for in a loop that could
starve another for ever: each round of a worker's loop consumes a task or waits. A
spurious wakeup may happen and never has to. Building is not fair: a caller
may stop adding tasks. The other modules state safety only.

## What is proved

TLAPS proves the following for every value of the constants: any number of tasks, threads,
programs, logs, sinks, settings, images and errors, texts of any length, any outcome of the callbacks,
any step at which a program is killed.

| Theorem | States | Says |
|---|---|---|
| `GraphTypeCorrect` | `GraphTypeOK` | Edges join tasks of the graph. |
| `GraphStaysAcyclic` | `Acyclic` | No sequence of calls closes a cycle. |
| `InDegreeStaysExact` | `InDegreeExact` | The in-degrees are the numbers of dependencies. |
| `TypeCorrect`, `InductiveInvariant` | `TypeOK`, `IInv` | Types of `TaskRun`, and where a task can be. |
| `DependencyOrder` | `StartsAfterDeps` | No callback starts before everything its task depends on is over. |
| `NeverRefused` | `RunNotRefused` | No task is handed to a worker twice. |
| `AnswerInvariant`, `AnswerIsRight` | `AnswerInv`, `ResultCorrect` | `RunTasks` answers true exactly when every callback has run and returned true. |
| `PoolImplementsSchedule` | `ImplementsSchedule` | The pool implements the abstract schedule `TaskSchedule`. |
| `CountInvariant`, `CountIsCovered` | `CountInv`, `CountNeverAhead` | While nothing can be counted twice, `completed` is never ahead of the tasks that are over. |
| `NobodyLeavesEarly`, `NobodyPopsInVain` | `NoEarlyExit`, `PopsReadyTask` | In the same case, no worker leaves with a task to run, or pops an empty queue. |
| `FailureStops` | `FailureStopsForest` | Where no task has two dependencies, no callback runs below a failure. |
| `RegistryInvariant`, `SoleReadersFind` | `RegIInv`, `SoleReaderFinds` | A get that meets no other one, and every get that begins warm, finds exactly what the merged registry should hold. |
| `BuildInvariant` | `BuildIInv` | An image is what the settings it accepted, as a set, make of it. |
| `SettingsStay`, `NothingWaitsInVain`, `SlotsStay` | `NothingLost`, `DeferredIsStuck`, `SlotsKeep` | No setting is lost, none waits that could be applied, no component is replaced. |
| `DefaultsSuffice` | `DefaultsPreventAbort` | The assertion of `IsoPartComp::Validate` holds after defaults. |
| `OrderIsFree` | `VerdictOrderFree` | The order of settings of different properties does not decide the verdict. |
| `SetInvariant`, `RefsStayAlive` | `SetIInv`, `RefsAlive` | In the order they are meant for (partitions, filter, boot images), the calls on a set use no partition or image that is gone, and attach to each image its block's. |
| `DispatchInvariant`, `SuccessIsReady` | `DispatchIInv`, `DoneIsReady` | A run that succeeds has used every option and has a target for exactly the images asked for, each formatted, with nothing waiting. |
| `GivenFileIsUsed` | `ExplicitFileUsed` | An image whose file the command line gives uses that one, and no file is for an image nobody asked for. |
| `LexInvariant`, `LinesAreExact` | `LexIInv`, `LinesExact` | Each token has the line it begins on, whatever ends the lines, in a text of which no string holds a line end without an escape. |
| `CommandInvariant`, `CommandsAreExact` | `CmdIInv`, `CommandExact` | The command line adds an image exactly when it takes every text, whatever option or property the text is for, and the image is what the texts make of a new one in their order; the first text refused is the last one read. |
| `MaintInvariant`, `MaintTypes`, `NoLogGoesMissing` | `MaintIInv`, `TypeOK`, `NothingThrown` | The maintenance threads exclude each other, so no log a thread has seen goes missing. |
| `WorkIsDone` | `SomebodyMaintained` | A thread that was beaten to the lock leaves the work to one that does it. |
| `EnoughLogsStay`, `OldLogsGo` | `KeepsEnough`, `KeepsNoMore` | As many logs are left as were asked for, no fewer and, of those listed, no more. |
| `SinkInvariant`, `NoLineIsTorn`, `MessagesArrive` | `SinkIInv`, `LinesWhole`, `DeliveredExactly` | No line is torn; a message goes once, in order, to exactly the sinks that admit it. |
| `ErrorInvariant`, `ReportsTellAll` | `ErrIInv`, `ReportTellsAll` | A report tells every frame made on the way up, in order, but those for debugging that it may leave out; a link is fatal once anything in it was, and otherwise as severe as what was said last. |

The assumptions are the named ones on the constants, and the runs evaluate them: `MaxTasks` a natural
number, `Workers` not empty, no property of a kind also one of its type, the logs there at the start
finite in number, `NoValue` and the like different from every value, and so on.

*Acyclicity.* `AddDependency` refuses an edge whose end reaches its start. `Acyclic` says
that every task can be separated from its predecessors by a set closed under the
edges; the proof extends the closed sets of the old graph by the new edge.

*Dependency order* is not inductive: a task that is queued must already have no
dependency left. `IInv` says where a task can be. `DegreeCovers` bounds the dependencies
that still owe their task a decrement by its in-degree, so an in-degree of zero, or of one
seen by the last to decrement, means that none is left. `OnePlace` says that a ready
task is about to be queued, queued or held by one worker, never two of these, which
also gives `NeverRefused`; `StateAtPlace` ties the state of a task to its place. The
proof has one lemma per step that moves a task (`Pop`, `BeginRun`, `EndRun`, `Count`,
`Release`, `addReadyTask`); all other steps are `Quiet`: they leave what `IInv` reads alone or only
skip a pending task.

*The answer* is `succeeded` against the number of tasks, and both are about tasks whose
workers are gone. `AnswerInv` follows a success from its callback to the record: each task is
recorded once and then belongs to nobody (`RecordedOnce`, `OneOwner`), what a worker
remembers of its task agrees with the task's state (`Verdict`), a task that finished is recorded or
still held (`Accounted`), and nothing is skipped without a failure (`SkippedForReason`). A
skipped task that is popped is recorded as a success; the answer is right all the same, because
the failed one never is.

*The refinement.* `TaskSchedule` sees the graph, the states and the answer. `BeginRun`, `EndRun`, the
skips, the calls that build and the return map to its actions, everything else to
a stutter. Its guards are what the invariants give: dependencies are over when a task starts
(`IInv`), a skipped task is below a failed one (`Verdict`), the answer is right (`ResultCorrect`).

*The count.* `completed` is added to outside any lock, after the fact. `CountCovered` bounds it by the
set `Counted` of tasks whose completion it can have taken in, so a second count of one task would
show. In a forest nothing is reached below a task that is not finished (`ReachedBelowFinished`),
so what is skipped was never queued, and a worker that skips has skipped exactly what it has gone
past (`VisitedSkipped`); without a failure nothing is skipped. These are the two cases of `CountsOnce`; in the others
the count does run ahead, as `MCTaskRunEarlyExit` shows. `NoEarlyExit` and `PopsReadyTask` compare a
cardinality with the number of tasks.

*The merged registry.* `SoleReaderFinds` is about the answer of a get; `RegIInv` follows the
get to it. The lock is held exactly by the thread that merges; a free lock leaves a table that is
empty or whole (`FreeIsWhole`), and once a get has ended in quiet the table is whole and stays so
(`WarmIsWhole`). Until then a thread is sole only because it is alone (`SoleIsAlone`), so what it
finds at each place is what it has itself inserted (`SoleProgress`). The threads that race for
the first merge are described only as far as their steps leave this true (`FirstMerge`: they
insert into a whole table, or are the first).

*Images.* The properties compare an image with all that was said to it, in any order. `Fits(i, G,
defaults)` says what the image `i` is for the set `G` of settings it accepted: only settings of `G` for the
layout wait, and none that it takes (`Stuck`, `Waits`); every other one is known and in force, or a
later one is (`KeepsAll`); a slot holds what was given for it, or its default (`SlotsFrom`), and so for
emulation and references (`EmuFrom`, `RefsFrom`); only an ISO9660 image has the properties of one
(`IsoOnly`). The set does not know the order, which is why the verdict cannot depend on it: where each
property is given once, `Fits` determines the layout, the format and the emulation (`SlotsSound`,
`EmuSound`), and with them what `Finalize` answers (`VerdictSound`); a setting refused on the way makes
the set unsound (`RefusedUnsound`). Each kind of call has a lemma that it preserves
`Fits`. The replay of deferred settings is a fold: `ReplayTrace` unfolds it into its
steps, and `ReplaysAll` says what it leaves, by induction over the steps.

*The set of images.* `RefsOfBlocks` keeps the list of references: each belongs to a block, and those
of one image stand in a row, in its block's order (`InARow`), which is what attaching partitions relies on.
`AsCalled` says what the images are as a function of the calls made so far: which are left after a filter,
which partitions are attached, which references are resolved. It is claimed for calls in the order
they are meant for (`InOrder`), which no code of the program keeps or breaks
yet; in another order a reference may be to something that is gone. `Attach` is a
recursive function, unfolded one reference at a time.

*A run of the program.* `DispatchIInv` says what each stage has established: of the options
(`OptionsInv`: only one front end's are in use), of the images selected (`SetInv`), of each image
(`ImagesInv`: as a front end made it, so that it `Fits` some block, until it is visited; checked from
then on) and of the files (`FilesInv`).

*The lexer.* `LexIInv` says where the line is: one more than the line ends passed, where a CR and a
LF after it are one. A CR just read is either known to be a line end of its own or the lexer is in the mode in which it
waits for the next character (`ReturnPending`). A pushed-back character has not been passed.

*The command line.* `Described` says what the first n texts make of a new image, a recursive function, unfolded
text by text. They are several images, since what waits waits in any order and is replayed in it. `CmdIInv` keeps
the image at hand among those (`ImagesRight`: they differ at most in what waits and in what a replay made of it;
they have the same components, and these decide what is refused, so what one refuses all refuse), the
partitions equal to those described, and what has been read of a text to what the place in it says
(`PlaceRight`: one value, or names and slashes in turn). At the token that is not taken, the text so far means nothing, or not
what its option may be (`RefusedMeans`).

*The log directory.* A thread that lists or deletes holds the lock (`LockHeld`), so between a look
at a log and its removal no other thread removes one: what it has listed is there (`Listed`,
`Victim`). `VisitedGone` keeps account of the others: each log visited is gone, in the list, about to be
removed, or opened again beside it, which gives `KeepsNoMore`. `BeatenBySome` remembers who
held the lock when a thread gave up.

*The sinks.* The lock of a sink is held by the thread that writes to it (`HolderWrites`), and the last line
of a sink whose lock is held is half of the holder's message (`LastLine`): hence the lines are
whole. `GivenSoFar` says of a message on its way which sinks it has been given to:
those that admit it, as far as the thread has come, and since sinks change their levels only
while nobody has the shared lock, these are the ones that admitted it at the start.

*The errors.* `ErrorOf` ties an error to what was said of it: its links, from the root cause on, share out
the sayings among them, in order, without a gap and without one told twice (`LinkSpans`). `Add` extends the
last link's share, `Chain` opens a new one. That the report of these links tells all follows by
induction over links and frames.

Induction over numbers is done with the least-element principle for sets of numbers (`NatSet` of
`ImageFacts`, from the library's well-founded order of the naturals), since the library's
own induction theorem takes a predicate as its parameter. What a fold or a recursive function computes
is proved with it: that there is such a function is shown first, then its value at each number. What a
RECURSIVE operator, or `SelectSeq`, computes is out of reach.

Model-checked only:

* liveness (`AllSettle`, `SoleWorkerReturns`), which is out of reach of the prover;
* `SearchesCorrect` and `RefusesOnlyCycles` of `TaskGraphSearch`, whose searches are RECURSIVE operators;
* what a text says: `TokensAreText` of `SimpleLexer` (a sum over the digits), and the properties of
  `ImageParser`, `ConfParser` and `KeyValue`, which compare a parser with a grammar stated over whole
  texts, by recursion or by picking from sequences;
* the properties that the code violates.

## Not modelled

* A second call of `RunTasks` on a graph: its counts are not reset, and no caller exists.
* Partitions are names and, in `ImageCmd`, typed properties; what the actions put into a target is
  empty today.
* The multiplication of sizes: `ImageNumId::Parse` refuses an overflow, which the models take as a
  value that is refused. 2^64-1 bytes is the value that means no size.
* How the bundled library splits a command line; help and version output; `StreamIntoSink`, which does nothing.
* Reading and decoding files; the texts of messages, the tables of error codes and source locations.
* Back ends and block device names, which nothing calls yet; wrappers of system services, bundled code,
  generated tables.

`PROJECT.json` lists every component with its status, and the hazards, each with the
properties that cover it or the reason why none does.

## Plan

1. The core: task graph and scheduler, images, `Dispatch`, the managed log, the text of a
   configuration file. Done.
2. Breadth: the image set, the registry, log sinks, options, the typed configuration, the command
   line's image, errors. Done; what is left is listed above.
3. Proofs. Done: the graph, `RunTasks` with its answer, count and refinement, one image, the registry,
   the set of images, a run of the program, the managed log, the sinks, the errors, the lexer's lines and the command line's image.
4. Proofs still worth having: those of the front end's texts, listed above, which need an account of
   the grammar that the provers can take apart.
