# Evil Haxe: specifications and proofs

Evil Haxe is a fork of the Haxe compiler (`src/src`, OCaml) and its standard
library (`src/std`, Haxe).  The fork adds *parser mods*: Haxe code that runs in
the compiler's macro interpreter and takes part in parsing.  This directory holds
TLA+ models of the parts of that program whose correctness depends on an order of
events: the hooks of the mods and the `defer` mod, conditional compilation, the
module cache of the compilation server, the concurrent classes of the standard
library that every threaded program uses, and the C and C++ code the compiler and
its programs are linked with: the walk that measures OCaml values, the XML parser,
child processes and the binding of PCRE2.
Paths below are relative to the repository.

## 1. Inventory

| component | state | operations | hard behaviour | properties |
|---|---|---|---|---|
| **Evil hooks** `src/evil/*.ml`, `std/Evil.hx` | ten global hook lists, `has_mods`, `defaults`, `conspiracies`, the table of mods | `on_compile_start`, `Evil.init`, `add_parser_mod`, `setup_hook`, `on_parse_file_start` (`parse_evil_header`, `clear_hooks`, `install_mod`) | globals outlive files, failed parses and server requests; a header fails half-way; a token is peeked before the mods are in | precedence of a file's own mods, mods that do not outlive their file |
| **defer mod** `std/evil/mods/Defer.hx` with `grammar.mly` block hooks and `TrailingLambda.hx` | `deferredExpressions`, a stack of stacks | `onBlockExpr`, `onExpr`, `onAfterBlockExpr` | nesting, failed parses, callbacks installed more than once, mods that parse blocks themselves | every block keeps its own deferred expressions |
| **Conditional compilation** `src/syntax/parserEntry.ml` | `conditional_stack`, `depths`, `mstack`, open dead blocks, the recursion of `skip_tokens` | `#if`, `#elseif`, `#else`, `#end` | nesting in skipped code, branches after the one taken | what is compiled is what the text says; conditions reported are right |
| **ElasticThreadPool** `std/sys/thread` | pool, queue, per worker: task, dead, deathMutex, waiter | `run`, `shutdown`, `Worker.loop` | threads that die on a time-out while a task is handed to them, throwing tasks, unprotected reads | no task lost, one thread per worker, no lost wake-up |
| **FixedThreadPool** | queue, `_isShutdown`, workers | `run`, `shutdown`, `Worker.loop` | no mutex; concurrent shutdowns; throwing tasks | tasks submitted in time run, workers end |
| **EventLoop** with `MainLoop`, `EntryPoint` | regular events, one-time events, promises, `waitLock` | `repeat`, `cancel`, `run`, `promise`, `runPromised`, `loop` | two critical sections per pass with callbacks and other threads in between | FIFO, exactly once, no oversleeping, no early end |
| **Lock** of C# and Java | tickets and an event; a count and a monitor | `wait`, `release` | time-outs racing releases, several waiting threads | each release lets exactly one wait go |
| **Module cache** of the compilation server `src/compiler/server.ml`, `compilationCache.ml` | per module its state, mark and file time; `unknown_state_modules`; the times of the directories; `module_lut` of the request | `check_module`, `check_module_shadowing`, `add_modules`, `taint_modules`, `cache_context` | cycles of dependencies, checks that fail half-way, edits during a request, new files that shadow others, failed requests | what is reused is unchanged and complete, nothing in doubt is left, an unchanged program is not typed again |
| **objsize** `libs/objsize` | colours of block headers, the bits of the colour log, the run being written or read, the activations of the walk | `c_objsize`: exclude, measure, flush, include, restore | a second walk must retrace the first over shared, cyclic and excluded blocks; runs at the limits of their encoding | headers are as before, sizes are those of the graph, every call returns |
| **XML parser** `std/cpp/NativeXmlImport.cpp`, `NativeXml.hx` | position, line, the locals of each activation of `do_parse_xml`, the events | one iteration of the loop per state | looking ahead and jumping, recursion that shares the position, texts that end anywhere | the events are the document, the end is respected |
| **Child processes** `libs/extc/process_stubs.c` | the descriptor table, the `vprocess` of each process, what each child holds | `process_run`, reads, write, `stdin_close`, `exit`, `kill`, `close` | numbers given out again, `pipe()` and `fork()` that fail, children that inherit each other's ends | own pipes only, nothing forgotten, an ended child is noticed |
| **Command lines on Windows** `libs/extc/process_stubs.c` | the chunks of the buffer | quoting, appending, joining | backslashes before quotes, chunk boundaries | the arguments arrive |
| **PCRE2 binding** `libs/pcre2/pcre2_stubs.c` | matches inside one another, roots, C blocks, match contexts, the offset vector | match with and without a callout, the callout handler, finalisation | OCaml code runs, collects, forgets and raises in the middle of a match | nothing stale, nothing leaked, own callouts, own groups |
| zlib and system stubs `libs/extc/extc_stubs.c`, mbedtls binding | that of the libraries | one library call each | | not modelled, see section 8 |
| Typer's delayed passes `src/context/typecore.ml` | pass queue | `delay`, `flush_pass` | passes that add passes | not modelled yet |
| Lexer, grammar, typing, unification, filters, DCE, generators, eval, display, the other mods, the rest of the library | | | data transformations, or pure I/O | not modelled, see section 8 |

How they interact.  A request to the compiler runs the conspiracies and `Evil.init()`,
which fill the table of mods; every file that is parsed then runs
`on_parse_file_start`, whose header decides which hooks the grammar calls.  The tokens
come from the stream of `parserEntry.ml`, which leaves out skipped code and passes
each token through the transmuters.  `defer` is one such mod, called by the grammar at
the start and at the end of each block.  In a compilation server the typer asks
`check_module` for a module before it parses the file, and a request that succeeds
puts its modules into the cache.  In the library, `EventLoop` and the workers of
`ElasticThreadPool` sleep on a `Lock`, pool tasks go through a `Deque`, and
`MainLoop`/`EntryPoint` sit on the main thread's `EventLoop`. The C stubs are called
by the compiler: `objsize` by its memory report (`context/memory.ml`), the processes
and regular expressions by the macro interpreter (`macro/eval/evalStdLib.ml`); all of
them run with the OCaml runtime held, and only PCRE2 calls OCaml back.  The XML parser
is linked into C++ programs and calls the methods of `NativeXmlState`.

## 2. Plan

Modules are written so that they can be proved about: parameters are CONSTANTS
with named assumptions, there is one action per operation, invariants are
conjunctions, and no module declares a RECURSIVE operator but `WinCommandLine`,
which nothing is proved about.
The theorems about a module M are in MProofs, but for three modules of proofs that hold
several: `ThreadProofs` has those about `FixedThreadPool` and `Locks`, `ParserProofs`
those about `DeferMod`, `Conditionals` and `XmlParser`, `StubProofs` those about
`ProcessStubs` and `ObjSize`.  What extends several modules needs names that differ, so
some have their own for the specification (CondInit, CondNext, CondSpec; XmlInit,
XmlNext, XmlSpec; SizeInit, SizeNext, SizeSpec).

Done:

1. `ElasticThreadPool`, with proofs: the finest interleavings in the repository.
2. `EvilHooks` and `DeferMod`, with proofs: what this fork adds to Haxe.
3. `EventLoop`, `FixedThreadPool`, with proofs.
4. `Lock` as the abstract specification, `CsLock` and `JavaLock` as refinements,
   compared in `Locks`, with proofs.
5. `Conditionals`, with proofs.
6. `ModuleCache`, with proofs: `check_module` with tainted modules, changed directories
   and cyclic dependencies.
7. `RleColors` and `ObjSize` on top of it, with proofs about the walk.
8. `XmlParser`, with proofs.
9. `ProcessStubs`, with proofs, and `WinCommandLine`.
10. `Pcre2Match`, with proofs.

Next, in this order:

1. `ModuleCache` with a macro context (two signatures, modules of one depending on
   modules of the other), the check policies of modules and the retyper, and files
   that are deleted.
2. `EventList`: the linked list of `EventLoop` and that of `MainLoop`, with their
   pointers, refining the sets of `EventLoop`.
3. `Deque`: a FIFO queue as abstract specification, and the C# `Deque` with its
   event as refinement; it is what both pools assume.
4. `EvilHooks` with files parsed inside the hooks of other files, and
   `parsing_switch_expr`.
5. The pass queue of `typecore.ml`.
6. Theorems: that the second walk of `ObjSize` visits the blocks in the order of the
   first (half of `MarkedOrOriginal`), and the events of `XmlParser` against a grammar
   of the parts of a document (`EventsMatchDocument`).

## 3. Modules and their code

**ElasticThreadPool.**  Each client and each worker thread has a program counter;
an action is one access to shared state or one operation of a mutex, lock or
queue.  `run()` is CallRun, Acquire, Scan, NewWorker / NoNewWorker, Waking,
WakeAlive / WakeDead, Store, Signal, Release; `Worker.loop` is TakePermit or
TimeOut, Begin, Return / Throw, Drain, Clear, Catch, Restart, and at its end EnterDeath,
LookAgain, Die or HandOver, LeaveDeath.  A worker's `deathMutex` is taken on two sides:
by `wakeup()`, inside the pool's mutex, and by EnterDeath, on the worker's own thread
and without it.  A
`Lock` is a count of permits, a `Deque` a sequence.  A worker object and its
threads are distinct, since a throwing task makes the worker start a new thread
while the old one is still unwinding.

**EvilHooks.**  A hook is identified by its owner, a mod or a conspiracy, and each
kind of hook has one list.  `StartFile` is `on_parse_file_start` up to
`clear_hooks`; InstallMod / UnknownMod is one step of `List.iter install_mod`;
ReadToken is the first token that the header has not peeked at.  `Cleared` and
`HasAnyHooks` keep the code's condition, a conjunction over all lists.  The
callbacks themselves are not called.

**DeferMod.**  `open` holds the blocks being read, with the elements read (`out`)
and, as history, the expressions the text defers there (`own`), the last one first;
`deferred` is the code's stack.  A `defer` leaves a `null` in the block (`Null`), which
`onExpr` returns.  `last` compares what a block has become with `out \o own`, without
the code's own order of popping; it is empty after any step that ends no block.  OpenBlock and CloseBlock are `on_block_start` and `on_block_next`
with the mod's callbacks; `installed` counts the copies of the callbacks on the
lists, which grow because `clear_hooks` does not remove them.  Abort leaves the
stack as it is, as an exception does.  `Plain` is the condition under which the mod
keeps its promise: one installation, and no trailing lambda so far.

**Conditionals.**  A condition is its truth value.  `skips` is the call stack of
`skip_tokens`, with the `test` of each call; `text` is history, from which
`LiveAsWritten` says what ought to be compiled.  The code accepts branches after
`#else`; `wellFormed` records that the text has none.

**ModuleCache.**  `disk` is what each module path resolves to: the time of the file,
what it imports and, in `hides`, the time of the file in the second directory that it
shadows.  A module in `cache` has the file it was typed from, its `m_cache_state` and
the mark of the compilation that checked it last.  `stack` is the recursion of
`check_module`, with the dependencies that are left of each call, so that files change
between any two of its steps: StartCheck, SkipDependency, EnterDependency,
DirtyDependency (the `Dirty` exception, which unwinds the whole stack and resets the
modules in `unknown`), LeaveDependency, FinishCheck.  The result is either `Reused`,
which is `add_modules` with all that the module reaches, or `Typed`.  `changed` is the
lazy list of changed directories and `RunDelays` the delay that lists them first.
`Wanted` lets the typer load what it needs in any order, which contains the order it
really has.  A file is parsed and its module made in one step.  `started`, `calm` and
`stale` are history.

**EventLoop.**  All operations are one critical section and one action.  A pass of
`__progress` is Collect, RunRegular*, RegularsDone, CollectOneTimers, RunEvent*,
EventsDone, RunMain*, TickDone, Decide, and Wake ends a wait.  Callbacks are between
RunX and Return, where the loop's own thread may call any operation (`OnLoopThread`);
other threads may at any moment, and `Adding` records in `stranger` that one did so
without a promise.  `isMainThread` is chosen once; it decides whether a pass calls
`MainLoop.tick()`.  `Sys.time()` is a bounded clock, read before the mutex is taken,
so Collect may use the time before.  The order in which due regular events run is left
open: the list is not sorted by time once events have run.

**FixedThreadPool.**  The test of `_isShutdown`, its assignment and each operation
of the queue are actions.  A worker whose task throws goes on in a new thread.

**Lock, CsLock, JavaLock, Locks.**  `Lock` states the documentation of
`std/sys/thread/Lock.hx`.  `CsLock` separates taking a ticket, calling `WaitOne`,
waiting in it (where `Set()` wakes all), comparing the ticket, and giving it back;
`ManualResetEvent` is modelled from how the code uses it.  `JavaLock` has the
monitor's wait set, with `notify()` waking any one thread, spurious wake-ups, and
threads that have to take the monitor again.  `Locks` puts either of them into a
program, which `use` describes: the target, the threads that wait (no other thread
calls `wait`, any thread calls `release`), and whether they do it with a time-out.
`IsALock` is the refinement of `Lock`, `ActsAsLock` the part of it without fairness.

**RleColors, ObjSize.**  The globals of the C file are the record `log`; a bit of the
log is an element of `bits`, so `writeint`, `writecolor`, `readcolor` and the two repeat
forms are translated bit for bit, and an ASSERT that fails sets `ok` to FALSE, after
which nothing happens.  `stack` has the activations of `c_rec_objsize` or
`restore_colors`: RecWalk is one turn of the macro REC_WALK, with `prev_block` held
back, the call for all but the last child and the `goto` for the last one, which
reuses the activation.  The phases of `c_objsize` are ExcludeNext, StartMeasure,
Measure, FlushLog, IncludeNext, StartRestore, Restore, Finish.  The expected sizes
(`Reachable`, `Within`) are computed from the heap as a graph.

**XmlParser.**  An action is one iteration of the loop of `do_parse_xml` in one of its
states; Break and Continue are its two ends, Fail is ERROR, and `activations` are the
calls of `do_parse_xml` that have not returned.  As in the code the first character is
read before the loop that counts line breaks.  A document is put
together from parts, so that `Meaning` can say, without parsing, what it means.

**ProcessStubs.**  `tab` is the parent's descriptor table with the lowest free number
given out first; `ctab` and `std` are what a child inherited and what is its 0, 1, 2.
`process_run` is StartRun, MakePipe (three times), PipeFails, ForkFails, Fork, and in
the child ChildSetup.  The stubs that may wait are entered by StartWait and left by
ReadReturns, WriteReturns and ExitReturns, and since they hold the runtime no other
stub runs meanwhile (`ParentIdle`), while children do.  Close is `process_close`, and
Collect the garbage collector, for which `vprocess_ops` has no finaliser.  The kernel
and the programs started are external.  No stub is called after `process_close`,
which leaves a pointer to freed memory.

**WinCommandLine.**  The buffer with its chunks and the quoting of arguments are
operators; `Argv` is the documented way a Windows program takes its command line
apart, which is external.  CallRun chooses a call of `process_run` and BuildCommandLine
does its Windows part, with commands and arguments of any characters, quotes included; the POSIX part is in `ProcessStubs`.  `MCProcessStubs` has both
builds of the file and chooses one in its initial state (`windows`).

**Pcre2Match.**  `frames` are the matches inside one another: a match calls out, the
callout is OCaml code, which may start the next one.  `stale` are the values a frame
keeps that a collection has moved behind its back, since they are not in `Roots`;
`mem` are the C blocks with the match they belong to; `callback` says whose `cod` a
match context calls.  The matcher and the OCaml code are external: any groups, any
exception, any order.  `Reported` is what a match that does not fail may return: the
number of groups, or 0 for a DFA match that found more than it has room for, which
`MatchSucceeds` takes for a success as the code does.

The definitions marked *Mutant of X* are plausible mistakes in the code of X.
None is used by a specification; replacing X by it makes the property it was
written for fail, which shows that the property depends on that code.

## 4. Runs

Passing runs (`tlc -config C.cfg M`):

| run | instance | shows |
|---|---|---|
| `elastic_pool` | 2 clients, 1 worker in 2 threads, 3 tasks, one throws, with fairness | one thread per worker, no task twice or lost, no lost wake-up, what a dying thread has seen holds when it acts; handed tasks run; shutdown ends waiting workers |
| `hooks` | 2 requests, 3 files, 3 mods, 2 conspiracies, 3 kinds | precedence of a file's own mods; mods that fill every list are cleared by the next file |
| `defer` | depth 2, 4 statements per block, 2 expressions, 3 frames, 2 installations, trailing lambdas | frames match blocks, and a block ends with its own defers, last first, until a second installation or a lambda |
| `conditionals` | depth 3, 3 branches per `#if`, in any order | compiled text and the conditions reported |
| `module_cache` | 3 modules with any dependencies, 3 requests for any of them, 1 change of a file, any invalidations | reused modules are unchanged, of one generation and complete; no module is left in doubt; shadowing files are noticed; no module is dropped without cause |
| `event_loop` | main or other thread, 2 one-time, 1 regular and 2 main events (1 blocking), 1 promise, time to 2, strangers | order, no oversleeping; with fairness: events run, loop ends |
| `fixed_pool` | 2 clients, 2 workers, 3 tasks, 2 throw | every task somewhere; with fairness: early tasks run, workers end |
| `locks` | C# and Java, any of 3 threads, with and without time-outs, 4 waits, 3 releases | with one waiting thread both implement `Lock`, its fairness included |
| `objsize` | heaps of 3 blocks with sharing, cycles, opaque and excluded blocks, lists of 31, 33 and 66 cells in one or two colours | headers restored, measures right, every call returns |
| `xml_parser` | documents of up to 3 parts of any kind, up to 5 tags and texts, broken parts, parts cut off anywhere, line breaks first | events are the document, position kept, and line from the second character on, accepts exactly what is well formed |
| `process` | 2 processes, both ends of all pipes, failing calls, standard streams closed early; commands around the size of a chunk and of up to three characters of any kind, arguments of up to five characters | own descriptors, descriptors accounted for, ended children noticed (fair system calls), arguments arrive when the command has no quote |
| `pcre2` | 2 regular expressions, 2 groups, matches 3 deep, any callouts, exceptions and collections | pointers valid, blocks freed, own callouts, own groups where any are reported |

Not listed in these configurations, and checked by adding the name to the INVARIANTS of
one of them: the type invariants (TypeOK of every module), and EarlyTasksAwaited
(FixedThreadPool), StacksAgree (Conditionals), NoFreePass (Locks), FlatBlocksKeepDefers
(DeferMod), EndedMeansDone (EventLoop) and NothingTypedTwice (ModuleCache); all of them
hold, and where section 6 names them they are proved.  So are SlicesAreOfTheText and
CallersWait (XmlParser), which hold in the instance of `xml_parser`.  ElasticThreadPoolTwo.cfg has the
safety invariants of `elastic_pool` with two workers and three threads, and
ObjSizeLists.cfg shows that lists are walked with one activation on the stack
(ListsInConstantStack, which is proved as well).

Bounds.  Two workers (ElasticThreadPoolTwo.cfg) and two clients give every pair of
conflicting threads; three tasks allow one running, one queued and one being
submitted.  In `hooks`, three files are an evil file, a plain one and another evil
one, across a request boundary and an error; the mods are a small one, one with a
transmuter, and one that fills every list.  Two nested blocks of
four statements (a `defer` counts, and so does a nested block) are enough for a block
that defers before and after a nested one which itself defers twice, and for three
deferred expressions in one frame; three frames leave room for one that a failed parse
has left below; what holds for `Plain` states is proved for any depth.  Three nested `#if`s are an
outer one, one whose sibling has been closed, and an inner one. Three modules have
every shape of two-step dependency and of cycle with an entrance; of three requests
the first fills the cache, the second lists the directories and the third can notice
that they changed.  ModuleCacheEdits.cfg has two changes in two requests instead.  A
heap of three blocks has every pair of a shared, a cyclic and an excluded block below
a root; the lists straddle 32 and 64, where the repeat forms change.  Three parts have
each kind of markup between any two others, five tags and texts two nested elements
with a text.  Two processes are one that inherits and one that is inherited from.
Three matches have an inner one that is itself an outer one.  In `EventLoop` one event
can be collected while another arrives, and the regular event can fall due again while
it is being run or while a one-time event is.  Waits and releases of the locks are
bounded by counters in the guards.  CHECK_DEADLOCK is off except in `elastic_pool` and
`pcre2`: elsewhere the bounds, the end of a text, of a pool or of a loop stop the
behaviours.

Symmetry is used for interchangeable tasks, clients, workers, expressions and modules,
and only in runs without liveness properties.

Fairness.  Threads inside an operation go on (weak fairness of each thread's steps),
and callbacks and tasks return or throw: the schedulers of the platforms run every
runnable thread.  No one is obliged to call an operation.  Time-outs are not fair in
`ElasticThreadPool`, so `HandedTaskRuns` does not rely on them.  In `EventLoop` the
clock goes on.  A system call of `ProcessStubs` that can return does: WF of
ReadReturns and ExitReturns, the scheduling of one waiting thread by the kernel;
children are not obliged to do anything.  `ObjSize` and `XmlParser` are sequential and
go on until they return.  In `Lock` a blocked wait returns when a release is left,
weakly fair for the threads together: with one waiting thread that is the promise the
loop and the workers need.

## 5. Disagreements between the code and its documentation

Each is expected to fail in the instance named, which is run by hand,
`tlc -config C.cfg M`; where a file has several, all but one are comments, with the
constants they need.

| instance | property | what happens |
|---|---|---|
| ElasticThreadPoolQueue.cfg, MCElasticThreadPool | SubmittedTasksExecuted | a task queued between a worker's last look at the queue and its `task = null` is not executed |
| EventLoopEnd.cfg, MCEventLoop | LoopRunsUntilDone | a MainLoop event that stops itself and adds an event lets the loop end with that event pending |
| EvilHooksDocs.cfg, MCEvilHooks | OnlyEvilFilesUseMods | hooks stay active in later files, also in those without `#evil`, because `has_any_hooks` is a conjunction |
| DeferModDocs.cfg, with Lambdas, MCDeferMod | DefersStayInTheirBlock | a trailing lambda pushes a frame that nothing pops |
| DeferModDocs.cfg, with MaxInstalled = 2, MCDeferMod | DefersStayInTheirBlock | callbacks installed twice lose the defers before a nested block |
| DeferModDocs.cfg, MCDeferMod | DeferAnywhere | a block that begins with `defer` is a syntax error (README.md:180 begins so) |
| EvilHooksDocs.cfg, MCEvilHooks | QuickHooksAreGlobal | when `clear_hooks` does clear, it drops the quick hooks too (std/Evil.hx:48: "Applied globally to all Evil Haxe modules.") |
| EvilHooksDocs.cfg, MCEvilHooks | FirstTokenTransmuted | the token after a bare `#evil` is peeked before the file's transmuters are installed (README.md:195 begins with one) |
| FixedThreadPoolLate.cfg, FixedThreadPool | AcceptedTasksRun | a `run()` that overlaps `shutdown()` returns normally and its task is never executed (FixedThreadPool.hx:75) |
| LocksDocs.cfg, Locks | OneWaitPerRelease | on C#, the release of a wait that timed out lets a wait with an earlier ticket return (Lock.hx:75: "Each call to `release` allows exactly one call to `wait` to execute.") |
| LocksDocs.cfg, Locks | NoLostRelease | on Java, two waits and one release leave both asleep; on C#, a second wait resets the event before the first has reached WaitOne |
| ModuleCacheDocs.cfg, MCModuleCache | NoShadowsWhenNew | the directories are listed at the end of the first request that looks at cached modules; a file that appeared before that is never noticed (server.ml:214: "Returning [] should be fine here because it's a new context, so we won't do any shadowing checks anyway.") |
| ModuleCacheDocs.cfg, MCModuleCache | TypedAgainstContext | a request types a dependency again without loading the module that depends on it; later that module is reused with a version it was not typed against (server.ml:223: "Checks if module [m] can be reused from the cache") |
| XmlParserDone.cfg, MCXmlParser | EveryNodeDone | `done()` is called for empty elements only, so after `</a>` the state stays inside `a` and what follows becomes its child (NativeXmlImport.cpp:368: "when an XML node is closed") |
| XmlParserDone.cfg, MCXmlParser | EveryBreakCounted | a line break that is the first character is not counted, so the lines in error messages are one too low (NativeXmlImport.cpp:99, 333-335) |
| ProcessStubsDocs.cfg, MCProcessStubs | CommandArrives | a quote in the command is not escaped (process_stubs.c:288-290), so another program name is read (process_stubs.c:252: `cmd` and `args` are auto quoted and escaped) |
| ProcessStubsDocs.cfg, MCProcessStubs | StdinCloseIsEof | a child forked meanwhile has inherited the write end, so the first one does not see the end of its input (process_stubs.c:520: "Close the process standard input.") |
| ProcessStubsDocs.cfg, MCProcessStubs | StdoutCloseIsEof | the child keeps `output[1]` besides descriptor 1, so closing its stdout is not seen by the reader (process_stubs.c:430: "Raise an exception if this process stdout is closed") |
| Pcre2MatchDocs.cfg, Pcre2Match | UnsetIsNoGroup | with a subject that starts later, a group that did not match is given as start - 1 instead of -1 (pcre2_stubs.c:117) |
| Pcre2MatchDocs.cfg, Pcre2Match | SuccessHasGroups | `pcre2_dfa_match` returns 0 when it finds more matches than the match data has room for (`a+` on `aaa`); only a negative value is an error to the stub, which then fills in no group, so the result is not that of the match (pcre2_stubs.c:488-494, 545) |
| Pcre2MatchDocs.cfg, Pcre2Match | BacktrackGoesOn | `Backtrack` has no argument, so the first field of the exception raised is its name and is never equal to the exception registered (pcre2_stubs.c:159) |
| Pcre2MatchDocs.cfg, with DfaCallouts, Pcre2Match | PointersValid | a DFA match with a callout uses `v_workspace`, which is not a root, after the collector has moved it (pcre2_stubs.c:582, 601) |

`EventLoop` and the workers of `ElasticThreadPool` have one waiting thread per
lock, for which both implementations of `Lock` are right (`IsALock`).

## 6. Proofs

`ElasticThreadPoolProofs`, for any number of clients, workers and tasks:

* `TypeCorrect` (Spec => []TypeOK), from which the others take their types.
* `OneThread` (OneThreadPerWorker).  Its induction needs to know at which step of
  its loop the thread of a dead worker can be.
* `DecisionsStand` (DeathDecisionStands): what a thread finds in its last look at
  `task` still holds when it marks its worker dead, or starts another thread for the
  task, which nobody has called then.  `wakeup()` may have chosen the worker before the
  time-out; its store needs the `deathMutex` that the thread holds.  `LockInv` says who
  holds that mutex: a client in `wakeup()` of that worker (`DeathOwner`), or a thread
  in the critical section at the end of `loop()` (`DeathThread`); `Decided` says what
  the thread has seen.  That the task has not been called comes from the invariants of
  the two theorems that follow.
* `NoLostWakeup` (HandedTaskIsAwaited): a worker that has been handed a task is
  alive and there is a permit, a signal about to come, or a thread about to read
  the task.  It is inductive only together with the facts above, since a worker may
  decide to die between the client's test and the store; `deathMutex`, by way of
  `Decided`, is what rules that out.
* `TasksSurvive` (NoTaskVanishes): a task is called once at most, and until then an
  accepted one is with its client, in the queue or in a worker's field.  `PlaceInv`
  says in which of the three places it can be, and that it is in one only
  (`Places`), and that a field whose task has been called belongs to a thread that is
  still running it (`CalledBusy`).  The last part is why a worker that is woken once
  too often does not call its task again; it needs `HandInv`, the invariant of the
  theorem before.

`ThreadProofs`, on `FixedThreadPool`, for any number of clients, workers and tasks: `TasksKept`
(TypeOK and EveryTaskSomewhere), whose invariant `PlaceInv` says the same of this pool,
and `EarlyAreAwaited` (EarlyTasksAwaited): a task queued before any shutdown began has a
worker left and is ahead of every `shutdownTask`.  Its invariant has the two halves,
`EarlyFirst` and `WorkerLeft` (the second needs the first when a worker takes a
`shutdownTask`), and that until `_isShutdown` is set no `shutdownTask` is queued and no
worker has ended (`ShutdownSeen`).

`ThreadProofs`, on `Locks`, for any threads, any number of calls and either target:

* `LocksAreLocks` (ActsAsLock): with one waiting thread each step of the C# and of the
  Java lock is a step of `Lock`, or a stutter, under the mapping of `Locks`.  The
  inductive invariant `AloneInv` says that what is left over is never negative and is
  the difference of the releases and the waits that returned, and that on C# the thread
  inside `wait()` has the last ticket.  The hypothesis that there is one such thread is
  `Alone`, part of the mapping: with two, the code is no `Lock` (section 5).
* `NoWaitIsFree` (NoFreePass), for any number of waiting threads: on Java, and on C#
  without time-outs or with one waiting thread, no more waits return true than there
  were releases.  `CountInv` gives the counts their meaning: on Java `releasedCount` is
  the releases less the waits that returned less the threads inside (`CountFits`); on
  C# every ticket beyond `releaseCount` is held by a thread (`TicketsFit`), which is
  what the release of a wait that timed out destroys.

`EventLoopProofs`, for any events and times: `TypeCorrect`, `EventsKeepOrder`
(InOrderOnce), `NoOversleeping` (NeverOversleeps) and `LoopEndsDone` (EndedMeansDone).
`NeverOversleeps` speaks of a loop that waits; `WaitInv` has what is already true
while the pass decides: unless a permit is there, the time found is a lower bound of
the list's (`TimeKnown`) and the queue, once taken, is empty (`QueueTaken`).  For
`LoopEndsDone`, `DoneInv` says that a pass which found no regular event to wait for either
takes a one-time event or sees a promise (`Found`), or leaves nothing that anyone
could still add to (`Quiet`).  It assumes what the property does, a loop off the main
thread that strangers do not use; for the main thread it is false (section 5).

`EvilHooksProofs`, for any mods, conspiracies, kinds of hooks and files: `TypeCorrect`,
`AskedFirst` (AskedModsFirst) and `CompleteSetsCleared` (CompleteSetsAreCleared).  `InstallInv` says of a header that is read in part what the first property
says of the whole one: the mods installed so far are at the front of every list, last
named first (`LedBy`).  It is inductive since `install_mod` only puts hooks in front
and, between the header and the end of the file, nothing else touches the lists.
`ClearInv` is the reason for the second: while `has_mods` is unset some list has no
mod's hook, since it is `install_mod` that looks at the lists after each mod, and a
file without `#evil` leaves it unset.  Conspiracies may fill that list meanwhile, with
hooks of their own, of which the property does not speak.  Mods that leave a list empty
do outlive their file (section 5).

`ModuleCacheProofs`, for any modules and any dependencies between them, any edits,
invalidations and failures: `TypeCorrect`, `AlwaysFound` (DependenciesCached),
`UnknownInCheck` (UnknownIsCurrent), `SameGeneration` (OneGeneration), `NeverOlder`
(CleanMeansUnchanged), `ShadowsSeen` (ShadowsNoticed), `NeverReplaced` (ModulesStay, an
action property) and `CalmTypesNothing` (NothingTypedTwice).  All of them follow from one
invariant, `IInv`:

* `FilesAge`: files get newer, and one that is shadowed stays shadowed.
* `Fits`: the cache is from earlier compilations, what a request reuses is what is
  cached, what it typed will not be reused, and what was accepted in this compilation
  is in the context.
* `Walk`: what `check_module` has passed, on its stack or in `unknown_state_modules`,
  would be clean if the check succeeded.  It is closed under dependencies but for
  those still to be checked (`WalkClosed`): when the stack is empty nothing is left, so
  the whole set may be accepted at once, cycles included.  This is the argument for
  the `unknown` state of modules, and the part that fails if one module of a cycle is
  accepted before the others.

`CalmTypesNothing` adds that in a calm request what has been passed is within reach
of the root, where everything is cached, unchanged and not tainted (`CalmCache`).

`Pcre2MatchProofs`, for any number of regular expressions, groups and nested matches:
`TypeCorrect`, `CalloutsOwn` (OwnCallouts), `BlocksFreed` (BlocksOfMatches),
`PointersStayValid` (PointersValid) and `ResultsOwn` (ResultGroups).  Each step leaves
the frames below the innermost match alone (`StepKinds`: a frame is added, changed on
top, or removed), so the invariants speak of each frame: a match with a callout has
the match context of its own depth, whose callback is set to it, and the contexts of the
regular expressions have none (`ContextsOwn`); the code of a regular expression in a
frame is not freed (`CodeKept`); a value that a collection has moved is not a root, and
is in a match with a callout (`ValuesMoved`).  `PointersStayValid`
has the hypothesis `DfaCallouts = FALSE`, that is, no DFA match with a callout: with one
the property is false, which is the last line of section 5.  `ResultsOwn` is about
matches that report groups; one that returns 0 is excluded by the property, and section
5 says what becomes of it.

`ParserProofs`, on `DeferMod`, for any text, nesting and number of failed parses:
`FramesFollowBlocks` (PlainFramesMatch) and `DeferCorrect` (PlainDefersStay).  The
inductive invariant says that the callbacks are installed at least once and that in a
`Plain` state the frames match the blocks, the last block read has kept its defers,
and the stack has its shape: the frame to which a deferred block will be added is the
one right below its own.  Since no step makes a state `Plain` again, it may be assumed
of the state before.  The code's frames grow at their end and are popped from it, while
`own` has the last expression first: a frame is the `Reverse` of it, and `ReverseAppend`
is the lemma by which the two stay so.  `FramesMatch` is stated from the top of the stack so that the
leftovers of failed parses do not matter.  DeferModDocs.cfg shows that neither half of
`Plain` can be dropped.

`ParserProofs`, on `Conditionals`, for any depth and any number of branches:
`CodeIsLiveAsWritten` (LiveAsWritten) and `ConditionsAreOfTheText` (ConditionMatches).
`cond_else` takes as many conditions off one stack as `depths` counts for the innermost
`#if`, so the invariant has to know to which `#if` each entry belongs.  `StackInv` says
so with the offset of each `#if` in the stack (`Offsets`), which needs no sum over
`depths`, and `Fits` says what the entries of one are: the negated conditions of the
branches passed, and the present one unless it is an `#else`.  `SkipInv` gives each
activation of `skip_tokens` its meaning: below `mstack` every branch is compiled, the
outermost activation looks for another branch exactly if none has been taken, and the
inner ones for their `#end` only.  `DeadInv` is what a dead block is reported with.

`ParserProofs`, on `XmlParser`, for any documents (sequences of characters, the
assumption `DocumentsAssumption` of the module) and any names:

* `XmlPlaceIsKept` (PlaceIsKept): the position is never past the NUL, and `line` is the
  number of line breaks from the second character up to it, each counted once; one that
  is the first character is never counted (section 5).  A state may look up to six characters ahead, but it
  jumps only over characters it has compared, none of which is NUL or a line break.
* `XmlSlicesAreOfTheText` (SlicesAreOfTheText): what is cut out between `start` and the
  position begins in the text and has no negative length.
* `XmlCallersWait` (CallersWait): the activations below the top wait for the one above,
  so the end tag that ends an activation finds its caller and the name it must have.

All three follow from `XmlInv`, which says of every activation on the stack what its
state, or the state that follows the spaces it skips, needs (`FrameOk`): a start that has
been set, the node's name once the tag has one, the parent's name where an end tag may
come; and of two neighbours that the lower is in CHILDS with the name of the element
whose contents the upper reads (`Called`).  The names matter: that an activation with a
parent's name is not the outermost is why WAIT_END_RET never returns from the bottom of
the stack.

`StubProofs`, on `ProcessStubs`, for any number of processes and descriptors and any size of the
pipes: `OwnDescriptors` (TypeOK and OwnFds) and `DescriptorsAccounted` (FdsAccounted).
`OwnFds` is inductive together with what `process_run` has done so far: `got` are the
descriptors of the pipes made for the one process being started (`RunInv`), an end of
a process that has not been started is nowhere in the table (`FreshInv`), and a stub
that waits does so for an open object (`WaitInv`).  Without `FreshInv` a pipe end
could be in the table twice, and `Fork` would not know which number it keeps.
`FdsAccounted` needs besides that no end is in the table twice (`Unique`) and that two
open objects name different descriptors (`NamedByOpen`), so that closing one does not
unname another's.

`StubProofs`, on `ObjSize`, for any finite heap, any value, any scan and reach lists and
any widths of the repeats in the log:

* `MeasuresAreReachable` (MeasuresReachable).  `SizeInv` describes the call phase by
  phase.  Its core is `WalkOk`: every excluded block is marked, so the walk stops there;
  the other marked blocks (`Walked`) are counted once each and lie within `acc_depth` of
  the value (`Counted`), which is less than their number; and every child of one of them
  is marked too, or is still to be looked at in an activation of that block
  (`AllPending`).  That last part is what the child held back in `prev_block` must not
  break, nor the activation that a last child takes over.  When no activation is left,
  the walked blocks are closed under the children that are not excluded, hence all of
  `Reachable`.  The reach list is answered when the excluded blocks have lost their
  marks: for that the log must never give a mark back as a colour (`NeverBlue`), which
  is all this theorem needs of it.
* `ListsWalkInPlace` (ListsInConstantStack).  The child held back is among the fields
  already passed (`PassedOk`), so a call before the last field takes a second child.

`Within` is defined by recursion over the distance.  What such a function is follows
from `LeastNumber`, the least element of a set of numbers, by way of the theorems of
`WellFoundedInduction`: `AllNumbers` is induction for a set of numbers instead of a
predicate, `BallsExist` shows that the function exists, and `WithinIs`, `WithinGrows` and
`WithinClosed` say what it computes.

Only model-checked:

* the liveness properties (HandedTaskRuns, ShutdownStopsWorkers, EventsRun, LoopEnds,
  EarlyTasksRun, ShutdownEndsWorkers, Returns, AcceptsWellFormed, EndedChildIsSeen) and
  the fairness in `IsALock` (its steps are proved): liveness under fairness and
  ENABLED are out of the prover's reach;
* `MarkedOrOriginal`: that the log gives back what was written needs facts about `2^n`,
  of which the provers know nothing, and about runs cut up by recursion;
* `EventsMatchDocument`, and of `StacksAgree` the sum over `depths`: they compare the code
  with a fold over a text or a list, for which the library has theorems only in a form
  that takes an operator, and `EventsMatchDocument` needs a grammar of the parts, which
  the module leaves to the instance;
* `ArgumentsArrive`: `WinCommandLine` has RECURSIVE operators, about which nothing can
  be proved.

## 7. Assumptions

The proofs and runs rest on the named ASSUMEs of the modules: constants have the types
the code gives them, the bounds on requests, files, changes, promises and time are
natural numbers of any size, heaps are finite, and `None`, `Pill` and the names of steps are not among the
data.  They rest as well on `Mutex`, `Deque` and, in the pools and the loop,
`Lock` keeping what their documentation says, and on assignments to fields being
visible to the thread that reads them later: the weaker memory models of some
targets are not modelled.
`ProcessStubs` rests on what POSIX says of descriptors, pipes and `fork`,
`WinCommandLine` on the documented parsing of command lines, `ObjSize` on headers with
the colours of OCaml 4 and on nothing else running, `Pcre2Match` on the callbacks
PCRE2 documents.

## 8. Not modelled

Of the C code, the zlib, path and terminal stubs of `extc_stubs.c` and the mbedtls
binding are not modelled: each stub is one call of a library with its arguments
converted, and what could go wrong is the protocol of that library, whose code is not
in the repository.  Of `pcre2_stubs.c` the information functions and name tables are
left out, and a collection by the allocation at line 568, when `v_substrings` is
already a root and has no value yet.  Of `process_stubs.c` the creation of a process on
Windows is left out and a `close` that fails in `process_stdin_close`; of
`NativeXmlImport.cpp` the byte order mark; of
`NativeXml.hx` the tree the events build (only the depth of `cur` is kept).

The typer's passes are planned (section 2).  Of the compilation server, the macro
context, policies and the retyper, deleted files and changes of the class path are
left out, and so are the cache of parsed files, native libraries and the sockets.
`make_module` takes the time of a file after the file has been parsed; a change in
between, which the model does not have, would give the old text the new time.
The lexer, the grammar beyond its hook points, typing, unification, optimisation,
filters, dead code elimination and the generators transform data without
interleaving; they are better served by the test-suite.  Macro evaluation is an
interpreter.  The remaining mods rewrite one token or expression and keep no state.
Of `MainLoop`, priorities, delays and `sortEvents` are left out; of the locks, the
targets whose implementation is a platform semaphore.  In conditional compilation
the evaluation of conditions and the end of the file inside an `#if` are left out.
Not modelled although it is a hazard: `parsing_switch_expr` in `grammar.mly`, and
a hook that makes the compiler parse another file (section 2, item 4).
