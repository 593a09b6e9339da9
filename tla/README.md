# Verification project for drang

drang is a scripting language for Windows: a lexer, parser, compiler and virtual
machine (with a tree-walking evaluator beside it), channels, tasks and `pmap`
on goroutines, supervised child processes, a persistent key/value store, a
module system, a small GUI server, and a formatter. This directory holds TLA+
models of the parts whose correctness depends on the order in which things
happen, or on two algorithms that must agree; TLC configurations that check them
on small instances; and TLAPS proofs for any instance. Paths below are relative
to `src/`.

    tlc -workers 2 -config MCOutside.cfg MCOutside  # one run (see "Runs")
    tlapm StoreProofs.tla                           # one module of proofs

## 1. The system

| component | state | operations | works with |
|---|---|---|---|
| **Scheduler** (`internal/eval/concurrency.go`, `executionContext`) | count of runnable strands, channel waiters, awaiters, `mainActive` | `beginRun`/`endRun`, `suspend`/`resume`, `blockChannel`/`wakeChannel`, deadlock claims | every strand that can wait |
| **Channels** (same file, `Chan`) | buffer, waiting senders and receivers, closed flag, count of callers in entry | send, recv, recv_ok, drain, close | a waiter belongs to a scheduler context, and is registered while the channel lock is held |
| **Tasks** (same file) | done channel, result, live-task quota | spawn, completion, await | the scheduler (a lease per await), closure snapshots |
| **pmap** (`hof.go`) | job queue, results, first failure, remaining workers | hand out items, cancel, last worker resumes the caller | the scheduler |
| **Store** (`store.go`, `value/map.go`) | the map in memory, its version, an open batch or active updates, the data file, `.bak`, `.lock` | open, close, get/set/delete/clear, `store_update`, `with_store` | other processes (lock file), callbacks run by the evaluator, the file system |
| **Modules** (`module.go`, `Env` in `eval.go`) | registry of entries, each with its promise and wait edges; per environment its import chain | `use`, load, finish, retry | the scheduler (a load runs a program), snapshots |
| **Processes** (`exec.go`, `winexec.go`, `internal/winjob`) | a child and its job object, pipes and drains, timers, limit events | run, capture, pipe, start, await, kill, status | the scheduler (await), goroutines per pipe |
| **Closure snapshots** (`closureSnapshot` in `eval.go`) | the graph of environments, functions and containers | clone for spawn, pmap, send | tasks, pmap, channels |
| **Evaluator** (`eval.go`, the *walker*) | scopes, call depth, count of depth-guard answers | run a program, a statement, an expression, a call | everything |
| **Compiler and VM** (`compiler.go`, `capture.go`, `vm.go`) | code, registers and jumps to patch; frames, registers, iterators | compile a program or a body, run it | shares values, scopes and builtins with the walker |
| **GUI server** (`serve.go`, `serve_browser.go`) | a mutex around handlers, the browser, its profile directory | serve, handle a request, watch the browser, shut down | the scheduler, the captured graph of the program |
| **Commands that replace files** (`stream.go`, `fs.go`, `cmd/drang`: `fmt.go`, `bundle.go`) | target, backup and temporary files | in-place edit, `fmt -w`, copy, bundle | the file system |
| **Front end and formatter** (lexer, parser, printer) | the text, its comments, the tree | lex, parse, print, format | each other: the printer must know what the parser does |
| **Integers and ranges** (`arith` in `eval.go`, `value/range.go`) | none | `+ - * %` with overflow, `len` | both backends |
| **Data builtins** (json, csv, regex, format, strings, math, datetime, http, fs, ...) | none | functions of their arguments, or one system call | |

What is hard here: strands that wait for each other while the scheduler decides
by a count whether anyone can still progress; several locks (a channel's, the
context's, the handle's) taken one after the other with work in between;
callbacks that run outside the lock that protects what they compute from;
crashes in the middle of a rewrite; loads that wait for loads. `PROJECT.json`
lists each hazard at its line, with the properties that cover it.

### What makes each part correct

* *Scheduler, channels, tasks.* The runnable count is exact; a match, a close
  and a deadlock claim answer each waiter exactly once; "would deadlock" is said
  only when no strand of the context could progress, and is always said then;
  channels are linearizable FIFO buffers; every finite program ends.
* *Store.* An opener finds the old or the new snapshot after a crash; memory and
  file agree after every failure; `store_update` loses no update; `with_store`
  is all or nothing; nothing is left registered.
* *Modules.* One strand runs a module and all importers get its outcome; real
  cycles are errors and others are not; every import ends.
* *Processes.* The result of a child is published once, after its output is
  complete; a timeout, a kill or a breach is reported iff it ended the child.
* *Backends.* A program cannot tell whether it is walked or compiled: same end,
  same output, same depth, for every nesting of loops, calls, scopes and errors.
* *pmap.* Every call and worker ends; each item is applied once at most; results
  keep their order; an abort wins; every slot of the budget comes back; the count
  of runnable strands is never zero in between.
* *Snapshots.* A strand works on a copy of what it reaches, of the same shape,
  which shares handles with its parent and nothing else.
* *GUI server.* Handlers lose no update; every request is answered; the profile is
  gone when the program can exit.
* *Files.* A target, a data file and a backup change only as a whole.
* *Integers.* A result is exact or the operation fails.
* *Formatter.* A formatted program is the program that was written, and is
  formatted once and for all.

## 2. Modules

| module | models | extends / instantiates |
|---|---|---|
| `Scheduler` | executionContext, Chan, spawn/await, the scheduling side of pmap | `AbsChannel` as `Promise` |
| `AbsChannel` | what channels promise: a linearizable bounded FIFO queue with a history | |
| `SchedulerImports` | `Scheduler` composed with the import of one module (`loadModule` and the nested `beginRun` of `runModule`) | `Scheduler` |
| `SchedulerProofs` | theorems about `Scheduler`, its refinement of `AbsChannel`, freedom from deadlock | `Scheduler`, TLAPS |
| `Store` | the store handle, its lock, transactions, processes | `AbsStore` as `Promise` |
| `AbsStore` | what a store promises: one durable map changed atomically | |
| `StoreFiles` | one rewrite of the data file, step by step, with crashes | |
| `StoreProofs` | theorems about `Store`, its refinement of `AbsStore`, the bound on conflicts | `Store`, TLAPS |
| `Rewrites` | in-place edit, `fmt -w`, copy, bundle: one target after the other, step by step, with crashes | |
| `FilesProofs` | theorems about `StoreFiles` and `Rewrites` | these, TLAPS |
| `Modules` | the import registry, cycle detection | |
| `ModulesProofs` | theorems about `Modules`, freedom from deadlock without circles | `Modules`, TLAPS |
| `Pmap` | the worker budget, the items, cancellation and the lease of each call | `AbsMap` as `Map` |
| `AbsMap` | what `pmap` promises: a map in input order, or a failure | |
| `PmapProofs` | theorems about `Pmap`, its refinement of `AbsMap`, freedom from deadlock | `Pmap`, TLAPS |
| `Serve` | requests, the handlers' mutex, the watcher of the browser | |
| `ServeProofs` | theorems about `Serve`: updates, profiles, the count, freedom from deadlock | `Serve`, TLAPS |
| `Snapshot` | the clone of a graph of scopes, functions and containers | |
| `Process` | one child of `start` or `capture`, with its reaper, drains, watcher, timer, killers and a descendant | |
| `ProcessProofs` | theorems about `Process`: its results, and that its end is reached | `Process`, TLAPS |
| `Numbers` | words, the overflow rules, the length of a range | |
| `Accumulator` | an integer variable updated again and again | `Numbers` |
| `AccumulatorProofs` | theorems about `Numbers` and `Accumulator` | `Accumulator`, TLAPS |
| `Lang` | the syntax tree, values, scopes, containers, operators and builtins that both backends share | `Numbers` |
| `Walker` | the tree-walking evaluator, as operators | `Lang` |
| `Compiler` | the analysis of captures and the compiler, as operators | `Lang` |
| `VM` | the register machine, one instruction a step | `Walker` |
| `Syntax` | the lexer's newline rule and the parser, as operators | |
| `Printer` | the printer and the guarded formatter, as operators | `Syntax` |
| `Formatting` | a file that `fmt` rewrites again and again | |
| `MCScheduler`, `MCSchedulerImports`, `MCImports`, `MCProcess`, `MCServe` | constants for TLC | the module each is named after |
| `MCVM` | the programs that both backends are given | `VM`, `Compiler` |
| `MCHeaps` | the heaps that are snapshot | |
| `MCText`, `MCFormatting` | the texts that are formatted; the formatter on them | `Printer`, `Formatting` |
| `MCOutside` | a run of `Store`, `StoreFiles`, `Rewrites` and `Process` | these and `MCProcess` |
| `MCModules` | a run of `Modules`, `Pmap`, `Serve` and `Snapshot` | these, `MCImports`, `MCServe`, `MCHeaps` |
| `MCLanguage` | a run of `VM`, `Accumulator` and `Formatting` | these and `MCVM`, `MCFormatting` |

The last three put components that do not interact into one run. A behaviour has
one of them as its *scene*, chosen at the start; the others stand still in one
initial state, their fairness is vacuous and their invariants are those of that
state. Next is written action by action, so that TLC reports each one's coverage.
A liveness property of such a component is stated as `[]<>` or `~>` so that it
holds of one that stands still, and its scene is where it says something.

Operators named `X_Y` beside an operator `X` (for instance `Wake_Uncounted`,
`BatchUndone_Kept`) are *slips*: X as a plausible bug would have it. No
specification uses them; `PROJECT.json` pairs each checked property with a slip
that makes TLC report it violated.

### Scheduler

A *strand* is a goroutine that evaluates drang code: `Main`, or a member of
`Pool` (spawned tasks and pmap workers, whose goroutine structure is the same).
`pc[s]` is where the strand is in a runtime call; each action is a stretch of
code under one lock, so every place where the code releases a lock and goes on
is a place where the others may act. The parts of the code and their actions:

* `beginRun`/`endRun`: `BeginRun`, `EndRun`; a session submits up to `MaxRuns`
  times, and goroutines of an earlier submission live on.
* a channel call: `Enter` (counts the caller in `pending`), one of `SendClosed`,
  `SendMatch`, `SendBuffer`, `SendBlock` (`RecvBuffered`, `RecvMatch`,
  `RecvClosed`, `RecvBlock`) under the channel lock, then `FinishPending`,
  `CollectContexts` and `Recheck` for the last caller to leave, then `Return`.
* `close`: `Close` under the lock, `CloseWake` per detached waiter, `CloseDone`.
* `claimDeadlockedLocked` is `Claimed`/`ClaimDeadlocked`, part of every action
  whose code calls it; a `runnable` that reaches 0 claims all channel waiters
  that no pending caller might still match, and only then awaiters.
* spawn, task completion, quota release, await: `Spawn`, `SpawnRefused`,
  `Complete`, `ReleaseTask`, `Await`, `AwaitDone`, `AwaitResult`,
  `AwaitDeadlock`.
* pmap: `Pmap`, `WorkerDone`, `WorkerExit`, `PmapReturn`.

Abstractions: one context per session; a claim reads the `pending` counters of
all channels at one instant and hands out its answers in the same step (the
answers go to one-slot reply channels nobody else reads); the completion of a
task is one step; the first suspend of pmap is merged with the counting of its
workers; a sequential pmap and a refused snapshot are no step; values are
identified by who sent them. Detached entries of a waiting line identify their
waiter by strand and channel, as the code does by pointer. Finished programs
stop, which is why deadlock checking is off; that no strand is stuck is
`EveryStrandEnds`.

### Store and StoreFiles

`Store` has processes (`Sessions`) and strands in each. `open` and `close` hold
the registry lock and are single steps; a *plain write* (`Set`, `Delete`,
`Clear`) is one critical section of the handle and one action, with the three
outcomes of `setLocked`: in memory only (in a batch), flushed, or undone after a
failed flush. `store_update` is `UpdateBegin`, then one of `UpdateCommit`,
`UpdateUndone`, `UpdateRetry`, `UpdateBusy`, `UpdateAbort`; between them the
callback runs without the lock. `with_store` is `BatchBegin`, plain writes of its
owner, `BatchCommit` or `BatchUndone`. `Crash` ends a process anywhere.
The version counter is abstracted to the set `stale` of updates that observed an
older version (a version never returns, so the comparison is all that matters).
The ordered map keeps its keys in order; a failed `delete` puts the key back at
the end, so memory and file may differ in order, and properties compare values.

`StoreFiles` opens up the flush that `Store` takes as one step: `Load`, `Change`
and `ReadPrevious`, then the temporary file, its sync and rename, first for `.bak`
(`BakWrite`, `BakSync`, `BakRename`, whose failure is ignored), then for the data
file (`WriteData`, `SyncData`, `RenameData`, whose failure undoes the change).
`PowerFails` may tear whatever was not synced; `Damage` is another program ruining
the data file, which is not locked. Renames are taken to be atomic and durable.

### Rewrites

The other commands that replace a file do it alike: open or read the source
(`OpenSource`; `Formatted` is a file `fmt` leaves alone), `Create` a temporary file
beside it, `Write`, `Sync`, give it its permissions (`Chmod`), `Rename`. An in-place
edit with a suffix copies the target to its backup in between, by the same steps
(`BackupWrite`, `BackupSync`, `BackupChmod`, `BackupRename`). Every step may fail,
which ends the command (`fmt` goes on to its next file), but for one: where the mode
of the target is to be read and `os.Stat` fails, the code goes on without it
(`StatFails`), so that the new file or the backup keeps the private mode of the
temporary one, and `fmt` does not see that a file is read-only. `unread` records for
which targets this happened; no action reads it. `PowerOff` may come between any two
steps. A file is its contents, its permissions and whether they are durable. Left
out: what is written, and temporary files a crash leaves behind.

### Modules

The *import graph* (`graph`) says what the code of each module names; the top
level of a module and its functions import any part of it in any order, and a
load ends well or badly. `entry` are the `moduleEntry` objects, created in order
and never reused, so that an environment that outlives a failed load keeps the
old one. A strand's `stack` holds its activations: the program or a spawned
closure, loads it leads, calls of functions of loaded modules. An import is
`Refuse` (chain or edges), `Wait` + `Resume`, or `Lead` + `Finish`; a cached hit
changes nothing. Paths are taken as canonical. A load that fails because its
import failed is one of the outcomes of `Finish`.

### Pmap

Calls of `pmap`, made by strands of the program or by callbacks of other calls,
share one budget of worker slots. A call takes slots one by one without waiting
(`Acquire`), then either applies its items itself (`RunHere`, `ApplyHere`,
`CollectHere`) or starts workers and suspends (`Launch`, `Collect`); or the captures
of its callback exceed a limit of the snapshot (`SnapshotFails`). A worker takes an
item (`Take`), applies the callback (`Apply`), and at the end of the queue leaves the
scheduler's count (`Exit`), the last one handing its slot to the caller. What a
callback does with an item is an input: it succeeds, answers an Err, aborts, or
calls `pmap`; `ran` and `result` are what `AbsMap` sees. `Scheduler` has the same
hand-off among channels and tasks, without items. Left out: the copies of the
callback (`Snapshot`) and a panic, which ends as an Err.

### Serve

A request is `Arrive`, `Parse`, `Lock`, `Enter`, `Read`, `Write`, `Unlock`, with a wait for
a spawned strand (`Await`, `Awaited`) for handlers that have one. A handler updates
one captured variable in two steps, so that two handlers inside would lose an
update. The watcher opens the window, looks for the profile until it has been
absent for a while (`Check`), and shuts the server down, at which the caller of
`serve` goes on (`Shutdown`, `Continue`). `Recreate` is a helper of the browser that
makes the profile again. net/http is external: a goroutine per request, panics
recovered, `Serve` returning as soon as `Shutdown` begins.

### Snapshot

A memory is a sequence of scopes and one of objects; functions refer to scopes,
scopes to their parent and to what they bind. `CloneValue`, `CloneEnv` and
`CloneFunction` thread the copy through as the recursive Go methods do, with the
two maps of what was copied (`envs`, `objs`) and the count of nodes; an order of the
bindings is chosen for each spawn, because Go walks maps in any order.
`SnapshotFaithful` is stated without them: starting from the roots, original and
copy are walked in parallel, and every pair of places met must be alike, fresh
unless it may be shared, and in one-to-one correspondence. Arrays and maps are one
kind of container; what a scope keeps beside its bindings is left out.

### Process

One call of `start`, `capture` or `capture_all` (`mode` says which, with which
options) and everything that runs beside it. Each action is what one goroutine
does between two points where another could see the difference, so that a flag
and the kill that follows it are two actions everywhere:

* the child and its heir, a descendant that inherited its handles: `Fork`,
  `Writes`, `Breach`, `ChildExits`, `HeirExits`. Nothing is assumed of them.
* the call: `Start`, or `StartFails` after any of its steps.
* one drain per output pipe (`procStream.drain`, the copiers of a capture):
  `Take` reads and reserves, `Exceed`, `MarkOverflow`, `KillOverflow` are
  `onLimit` inside its `sync.Once`, for which `ExceedAgain` waits, `Keep` appends,
  `Finish` is the end of the pipe. `Recv` is `recv_stdout` and `recv_stderr`.
* `drainLimitEvents`: `Notice`, `KillBreach`, `WatchEnds`.
* the timer of a capture: `TimerExpires`, `StoreTimeout`, `KillTimeout`; stopping
  it (`StopTimer`) does not wait for a callback under way.
* `kill`: `MarkKilled`, `KillProc`; `send_stdin`: `Send`, then `Written` or
  `BrokenPipe`, with the mutex held in between; `close_stdin`: `CloseInput`.
* the end, in the order of the code: `ReapExit`, `StopMonitor`,
  `MonitorStopped`, then for a started process `CloseStdin`, `CloseJob`,
  `GraceOver` or not, `Drained`; for a captured one `EndTree`, `Drained`. `Publish`
  computes the result from the flags as they are then, and closes `done`.

Abstractions: output is counted in units, its content does not matter; both
output pipes are always asked for; one descendant stands for all; the budget of
a capture counts what it allows (the code adds what was asked for, which allows
the same, see `Allowed`); `child = "killed"` means that a `Terminate` of drang's
found the child running; a memory breach that makes the child fail by itself is
an exit with a code. `await` and `status` read what `Publish` wrote and are no
actions.

### Backends: Lang, Walker, Compiler, VM

drang runs a program on a register machine and keeps the tree walker as its
oracle (`vm.go:95-99`, `DESIGN.md` 26). The two share values, scopes, containers
and builtins, which is `Lang`: there the memory is a record of scopes, objects,
output and the counter of the depth guard, and everything else refers into it.

* `Walker` is `eval.go`: `Eval` and `Exec` return a result with its *signal*
  ("ok", "return", "break", "next", "err", "abort"), as the Go functions return a
  value and an error. `Walk` gives the end of a program.
* `Compiler` is `compiler.go` and `capture.go`, as operators from a tree to code.
  Its state is a record handed from operator to operator. `RegisterEligible`
  decides between the two modes: a body whose locals no closure sees keeps them
  in registers, any other in scopes. In registers a `while` is tested below, in
  scopes above. `break` and `next` are jumps patched at the end of the loop,
  after the pops `EmitScopePops` counts.
* `VM` is `vm.go`: one action per group of opcodes that differ in their operator
  only (the comparisons fused into a jump are `JmpFalse` and `JmpTrue`). A
  *frame* is one activation of `vmRun`, with its registers, iterators and scope;
  the Go stack is `frames`. The machine is given code and the walker's verdict by
  the constants `Code` and `Expected`, and knows neither the compiler nor the
  programs.

Abstractions: integers up to `MaxInt` stand for int64, whose overflow aborts, and
strings are sequences of what was displayed into them, with a limit of a few
pieces; the machine's fast paths for integers do what the shared operators do;
constants stand in the instruction; copies of constants are not shared. Left out
are floats, regexes, slices, indexes into strings, `<=>`, `/`, builtins that call
back, `use`, special blocks, positions of errors, the length limit on what `say`
prints at once, and what makes the compiler
give a body back to the walker. Default expressions call no user function. Where
the two backends are known to differ (below), the programs of `language` keep off.

### Integers: Numbers, Accumulator

`Numbers` is one operator per Go function: `AddOverflows`, `SubOverflows`,
`MulOverflows` compute in words that wrap, as the code does, and `RangeLen` in
unsigned ones. `Wrap`, `Quotient` and `Unsigned` are Go's arithmetic. `Lang` uses the
same operators. `Accumulator` is a variable that takes any word and is updated by
any operator with any word, or set to the length of a range; its properties
compare with integers that do not wrap.

### Formatter: Syntax, Printer, Formatting

A text is a sequence of *lexemes*, among them line ends and comments. `Syntax!Lex`
is the lexer's rule for newlines and the positions of comments; `Parse` is the
parser: one operator per parse function, by its name. `Printer` is `printer.go`, with
wrapping when a construct is too wide for its line, the parentheses `RightNeedsParens`,
`Operand`, `BareSafe` and `StartsWithBrace` decide about, and the comments woven back
by source lines (`FlushBefore`, `TrailingOn`, `Opening`, `Closing`, `ElseSep`). `Format` is
the guard around it: the result must parse and keep the comments, or the file is
left alone. `Understanding` is what a text means: its tree without positions and
its comments. `Formatting` rewrites a file again and again.

Abstractions: the spelling of lexemes, indentation, blank lines and spaces; widths
are counted in lexemes. Left out: interpolation, regexes, `qw`, match forms, sugar
of the parser for file tests and the like, limits on nesting, blocks inside the path of
a `use`, `fmt --fix`.

## 3. Runs

| run | instance | size | shows |
|---|---|---|---|
| `scheduler_safety` | Main and 3 goroutines (symmetric), 1 channel with one slot, 2 operations each, quota 2 | 1.6 M states | the count, the counters, waiting lines and claims stay right, and no wait is broken early |
| `scheduler_channels` | 2 goroutines, an unbuffered channel and one with a slot, quota 1 | 0.27 M | refinement of `AbsChannel`; every strand ends |
| `import_wedge` | 2 goroutines, 1 unbuffered channel, one module | | **violation**, finding 1 |
| `outside` | four scenes. *store*: 2 processes, 2 + 1 strands, 2 keys, values modulo 2, 3 tries per update. *files*: 3 snapshots, at most one damage. *rewrites*: 5 commands, 2 targets. *process*: two starts and two captures with different options, a budget, a pipe and a queue of one | 0.37 M | all store properties and refinement of `AbsStore`; old or new after every failure and crash; targets replaced whole, with their modes or private ones, backup first; budget, completeness of output, cause, release, and an end to everything |
| `store_backup` | the files alone | | **violation**, finding 2 |
| `modules` | four scenes. *modules*: 2 strands, 3 modules, 3 entries, 3 uses per strand, 3 graphs. *pmap*: 3 calls, 2 slots, two patterns of nesting and failure. *serve*: 3 requests, a helper, a window, 4 looks at the profile. *spawn*: every heap of a function, two scopes and two more objects | 0.23 M | edges, true refusals, termination; refinement of `AbsMap`, termination, the count, the slots; no update lost, every request answered, no profile left; a faithful copy |
| `import_deadlock` | the circle of three modules | | **violation**, finding 3 |
| `process_stdin` | a start fed by `send_stdin`, the heir holds the read end | 14 k | **violation**, finding 4 |
| `serve_return` | 3 requests, the window closes | | **violation**, finding 6 |
| `language` | three scenes. *machine*: 1107 programs (43 fragments, each before 3 others, in 3 contexts, with 3 argument lists), depth 3, guard 2. *integers*: words of four bits. *text*: every expression two operators deep, nine programs with two comments or a line break anywhere, lines of 8 lexemes | 89 k | both backends end alike, scopes balanced, no endless loop; integers exact or refused; formatting keeps the meaning and settles |
| `backends_assign` | 3 programs that assign a register local from itself | | **violation**, finding 5 |
| `formatter` | an `if` with `else if` and an empty `else`, two comments anywhere | | **violation**, finding 7 |

Why the bounds are enough for the questions asked. *Scheduler:* a claim, a
match and a close need three strands to collide on one waiter, the fourth makes
the waiting line longer than one; two operations let a strand come back to a
channel whose line still holds its old entry; one slot exercises the buffer, the
refill from a blocked sender and the full case. *Store:* a retry needs two
strands of one process and the lock needs a second process; two keys tell
order and content apart; three tries reach both the retry and the give-up.
*StoreFiles:* the rewrite of a rewrite after a recovery needs three contents.
*Rewrites:* the second target shows what a failure on the first leaves behind.
*Pmap:* two slots are one worker and somebody it shares with; the pattern with two
nested calls under one that holds both slots makes the nested ones run in place,
the other has an Err and an abort in one call and an empty call inside another;
four items outnumber the workers. *Serve:* one handler inside, one at the lock, one
not yet arrived; the profile is made again after it was removed and seen absent
once. *Snapshot:* two scopes and three objects make every kind of edge, alias and
cycle (scope to function to scope, container to itself, argument to capture); with
`MaxDepth = 4` and `MaxNodes = 7` some graphs are refused for either limit and most are
not. *Integers:* the rules look at signs, zero and the ends of the word, which words
of four bits have; any width is proved. *Formatter:* parentheses are decided from an
operator and the one under it, which pairs exhaust; a comment is woven by its
distance to the nodes around it, and two are needed for one to push the other;
eight lexemes make short calls fit and longer ones wrap.
*Modules:* a circle that the edges alone do not see needs three modules and two
strands; three entries allow a retry after a failure. *Process:* with a budget
of one unit over two pipes the second drain meets a full budget, a spent one, or
one that a reader has just relieved; a pipe of one unit makes writers wait; a
queue of one lets a second breach come while the first is handled. The four
calls put each option beside those it interacts with; all twelve were checked
once for the inductive invariant. *Backends:* the code of a construct depends on
the mode of its function, on the register its value goes to, and on the loops
and scopes around it; the contexts give every fragment either mode and the top level, the
fragments nest loops, blocks and calls in one another, and the one that follows
meets the registers, slots and scopes the first has left. A depth
of three lets a call overflow, return an Err and be overflown again; the second
answer and the abort after it are the whole life of the guard. Every opcode the
compiler emits for these trees is run.

`CHECK_DEADLOCK FALSE` everywhere: programs end (scheduler, backends), and the
bounds on uses and damage run out. What must not be stuck is stated as a property
instead. A second submission of a session is in the model and in the theorems,
which hold for any `MaxRuns`; the runs have one.

Fairness. The scheduler's `WF_vars(Step(s) ...)` per strand is Go's: a goroutine
that can run is run, and no lock is held across a wait. It says nothing of
`BeginRun` (nobody must submit) nor of how the choice between ready cases of a
select falls. `Store` assumes weak fairness of the end of each update callback,
`Modules` of the end of module code and of waking up on a closed channel;
callbacks and modules that never return are programs that do not end. Imports,
calls and plain writes have no fairness. `Process` assumes weak fairness of each
goroutine of drang, of the grace timer (part of `Reap`) and of the system's
refusal of a write nobody can read, and strong fairness of `CloseStdin`, because a
`sync.Mutex` hands itself to a waiter that starves; it assumes nothing of the
child, its heir, the time-out or the callers, so that a child need not exit and
`ExitIsPublished` speaks of one that has. `Pmap` and `Serve` assume that their
goroutines run and that callbacks, handlers and the strand they wait for end; nobody
must send a request or close the window. `VM` assumes weak fairness of its next
step: it is one loop of one goroutine, and no instruction waits.

## 4. Findings

1. *An import hides a deadlock* (`import_wedge`, `module.go:177`). A strand
   that waits for another strand's import stays counted runnable. If the
   importing strand blocks on a channel, nobody can progress and nothing is
   claimed, although `concurrency.go:33-34` says it is. The same composition
   with `MaxRuns = 2` violates `DeadlockSound`: `beginRun` (`concurrency.go:84`)
   tells the outer entry by `mainActive` only, so a goroutine that imports
   between two submissions of a session is taken for the owner; the next
   submission is not counted, and a wait it could serve is answered "would
   deadlock". That instance is not among the runs.
2. *The last good copy is overwritten first* (`store_backup`, `store.go:378`).
   After a recovery from `.bak`, the next write renames the ruined bytes over
   `.bak` before it replaces the data file; a crash in between leaves neither.
3. *Nested loads deadlock* (`import_deadlock`, `module.go:162`). A load that
   leads a nested load has no wait edge to it. With a -> b -> c -> a imported
   from two strands, both park for ever; `REFERENCE.md:339` says such cycles are
   errors and never deadlock. The test (`module_test.go:199`) has two modules,
   for which `NoFlatDeadlock` shows the edges suffice.
4. *A full stdin keeps the exit from being published* (`process_stdin`,
   `exec.go:497`). A `send_stdin` that waits on a full pipe holds `stdinMu`; the
   reaper wants it before it closes the job. If a descendant keeps the read end
   open and does not read, `await` and `status` never end, although
   `exec.go:91-93` and `CHANGELOG.md:44-46` say that no descendant can bring
   that about. With `InheritStdin = FALSE` (run `outside`) the property holds.
5. *A local is overwritten before it is read* (`backends_assign`,
   `compiler.go:604`). A plain assignment to a register local is computed
   straight into the local's register. `$x = "v$x"` starts by storing the empty
   string there; `$x = $a // $x`, `$x = $a || $x` and `$x = $a && $x` store `$a`. The
   walker evaluates the whole right side first. `vm.go:95-99` promises byte-identical
   results; no test assigns a local from itself in these forms.

6. *serve returns before its handlers do* (`serve_return`, `serve.go:527`).
   `openAndWatch` shuts the server down, and net/http's `Serve` returns at once,
   while `Shutdown` waits for handlers. The caller of `serve` goes on beside a handler,
   on the same captured variables, which only the handlers' mutex protects.
   `REFERENCE.md:755` says "Blocks until shutdown", `MANUAL.md:4541` that handler calls
   are serialized.
7. *A formatted file formats differently* (`formatter`, `printer.go:405`). `elseSep`
   gives every comment on the line of a then-block's `}` to that brace and puts `else`
   on the next line. An empty `else` stands on the same line, so that a comment behind
   the whole statement moves behind the then-block when the output is formatted
   again. `MANUAL.md:5306` and `fuzz_test.go:39` say formatting is idempotent.

Met on the way, without a run of its own:

* a local in a register is unknown to the dispatch of calls by name:
  `fn .f($len) { len("abc") }` calls the builtin when compiled and aborts when
  walked, and the manual says that the binding shadows the builtin. The analysis
  of captures likewise counts `$x`, not a callee written as a bare name;
* the analysis of bound names skips the index expressions of assignment targets
  (`capture.go:161`);
* a default expression that calls its own function is evaluated at the depth of
  the definition, so this recursion never meets the guard, which
  `eval.go:64-70` gives as the protection of the Go stack;
* the rollback of a failed `store_delete` re-inserts the key at the end, so
  `store_keys` can change order after an operation that failed (`store.go:430`);
* a `kill` between the exit of a child and the reaper's look at the flag makes
  the result "was killed" (137) for a child that ended by itself, although the
  comment at `exec.go:368` says the flag is there to tell the two apart; and a
  timer that expires between the exit and `timer.Stop` reports a finished
  command as timed out. The converse is excluded: `TellsTheCause`;
* a file can lose its mode: the mode is copied only
  `if fi, e := os.Stat(path); e == nil` (`fmt.go:243`, and `stream.go:222` and 263 for
  an in-place edit and its backup). When this `Stat` fails, the file is replaced all
  the same, with the private mode of the temporary file, and nothing is reported,
  although `MANUAL.md:5232` and `fmt.go:220-221` say that the original mode is
  preserved. `ReplacedWhole` and `BackupFirst` say what is left: the mode is the one
  meant, or private, and private only when a `Stat` failed;
* the operands of an `example` are printed without parentheses
  (`printer.go:350-359`), so that `example ($x or $y) == 1` comes out as
  `example $x or $y == 1`, another assertion; and the statement `(example)(1)`, a call
  of a function of that name, as `example(1)`, an assertion. Comments are all the
  guard compares. The texts of `language` keep off both;
* whether a graph is refused for its depth depends on the order in which Go walks
  the bindings of a scope, so the same spawn can be refused in one execution of a
  program and pass in the next (`eval.go:293`);
* an unsupervised descendant that exceeds the budget within the grace, after
  `closeJob`, is not ended, although `exec.go` and the manual speak of the tree.

## 5. Proofs

`SchedulerProofs`, `StoreProofs`, `FilesProofs`, `ProcessProofs`, `ServeProofs`,
`PmapProofs`, `ModulesProofs` and `AccumulatorProofs` are checked by TLAPS for every
value of the constants that satisfies the named assumptions (`ConstantsAssumption`,
`StoreAssumption`, `FilesAssumption`, `RewritesAssumption`, `ProcessAssumption`,
`ServeAssumption`, `PmapAssumption`, `ModulesAssumption`, `MaxIntAssumption`): sets are
disjoint from the null values, bounds are naturals, the pool, the requests and the calls
of `pmap` are finite, update functions map values to values, no option is given to a
builtin that does not take it, the watcher is more patient than the browser's helpers,
the largest integer is positive. A program has finitely many module files, and a call of
`pmap` is one activation: one callback makes it, on one item (the two conjuncts that the
theorems on progress below need). Import graphs, nestings of `pmap` calls, capacities of
channels are any.

*Scheduler.* `Inductive` proves
`IInv == TypeOK /\ Waits /\ Roles /\ CountersExact /\ RunnableExact`. The count
`RunnableExact` is not inductive alone: to see that a step changes both sides
alike one must know which strands are in which waiting set (`Waits`: a waiter,
an awaiter and a parked caller are different strands, at the label and operation
that put them there) and which strand plays which part (`Roles`: workers of a
call, live and finished tasks); and the counter that decides who hands the
caller's slot back must be exact (`CountersExact`). Each action has a lemma with
one step per conjunct it can disturb; `ClaimStep` and `ClaimEffect` carry the
cardinality argument for a deadlock claim. From it follow `TypeCorrect`,
`RunnableIsExact`, `CountersAreExact`, and the action properties `DeadlockIsSound`
and `ChannelsAreBrokenFirst`.

*Channels.* What a channel promises depends on its waiting lines, which hold more
than waiters: an operation that a claim gave up stays in its line until somebody pops it
or its strand returns. `LinesInductive` proves `LInv` beside `IInv`. `LinesExact` says what a
line may hold: sends (receives) of that channel under way, each once, that wait or were
answered "would deadlock", so that an active entry is always somebody still to be served.
`NoLostWaiter` is the converse. `Served` is `NoMissedMatch` stated of *waiters* instead of
lines: `close` empties the lines at once but answers their waiters one by one without the
lock (`CloseWake`), and meanwhile no line tells that they exist. `CallsExact` ties
operation, place and wait of a strand together: whoever is under way without an
answer is a waiter. `Deferred` is stronger than `NoForgottenClaim`: with nobody runnable,
some strand is about to recheck, or is leaving a channel *in which another waits*,
which is what makes its recheck see that context. Most steps are quiet (`Quiet`: a waiter
may be given up and nothing else about channels changes); the others either let one
strand out of its entry with an answer or a place in line (`Releases`), or are those of
`close`, `Enter` and `Return` (`Local`). The theorems are `NothingMissed`, `NobodyLost`,
`NothingForgotten`.

`Implements` is the refinement of `AbsChannel`, step by step: `Enter` is a call and
`Return` a return; a match is the one abstract step in which sender and receiver meet; a
buffered receive that refills from a blocked sender is one step with both effects; `CloseWake`
refuses one operation of a closed channel; all else stutters, except that a claim gives up
those it answers. That the abstract channel allows this needs `DeadlockSound`: nobody
else can progress, so no operation is in entry and no closer at work; the channel is open,
because the waiter is in a line, and nobody open is on its other side (`Served`). The
conditions of the other steps (the buffer is empty when two meet) are `Served` too.

*Store.* `StoreInvariant` proves
`IInv == TypeOK /\ KeysListed /\ MemoryIsDisk /\ Exclusive /\ FreshBase`, where
each part needs others: an update commits what it computed because its base is
fresh, its base is fresh because memory is disk when it began and every later
flush outdates it, memory is disk because a batch excludes updates, and the
rollbacks restore the map because keys are listed once. First come lemmas on the
ordered map (`PutOK`, `RemoveOK`, `UnsetOK`, `ReinsertOK`), then what an open
session excludes (`OneSession`), then one lemma per action. `StoreKeepsPromise`
proves the refinement: one lemma per action names the step of `AbsStore` it is,
or shows that it changes nothing `AbsStore` sees.

*Files.* `FilesInv` adds to `OnlyAcknowledged` and `BackupIsGood` what each step of a
rewrite finds: what is not durable is the temporary file, before its sync
(`Unsynced`); that file holds the next contents where it is about to replace another
(`TempHolds`); what was read for the backup is the data file (`Previous`), which is whole
(`Undamaged`). `OldOrNewUndamaged` follows from it step by step: only `RenameData` changes
what an opener finds, and a power failure ruins only what is not durable. `RewriteInv` is the
same for the other commands, per target: no target or backup is ever not durable
(`Durable`, `DurableSurvives`), the temporary file is what the step says (`Prepared`), with
the mode of the target or, if that is `unread`, a private one (`Kept`), what comes later is
as it was (`Untouched`), and `fmt` works on no file it sees is read-only (`OnlyUnseen`). The theorems are `FilesAreAcknowledged`,
`BackupsAreGood`, `CrashFindsOldOrNew`, `BackupComesFirst`, `TargetsAreReplacedWhole`.

*Serve.* An update is lost when a handler adds to what it read before another's
write. `Serialized` says that whoever is inside holds the lock, and that what it read
is still there when it writes; `Evaluated`, that a handler which writes is one that counts;
each write then raises variable and count by one (`WriteStep`). `Watched` says that a
profile which was absent for as long as helpers linger stays so, and that the program goes on
only after the watcher has seen enough. The theorems are `UpdatesAreKept` and
`ProfilesAreRemoved`.

*Process.* `Inductive` proves
`IInv == TypeOK /\ BudgetExact /\ Marks /\ Forms /\ Stages /\ Drains /\ Verdict`
for every limit, pipe, queue and combination of options. A result of the child's
own must exclude a kill by drang (`Verdict`): every killer leaves its mark
before it kills (`Marks`), a captured child has no caller of `kill` and a started
one no timer (`Forms`), and from the exit on no kill can find the child running
(`Stages`). That the result comes with all output follows from what a drain may
have dropped and why (`Drains`); that all is released, from what each stage of the
reaper leaves behind. `BudgetExact` needs that a drain has nothing in hand when
it reserves. The theorems are `TypeCorrect`, `BudgetIsExact`, `OutputIsComplete`,
`CauseIsTold`, `EverythingIsReleased`.

*Pmap.* That the slots come back is `SlotsAreHeld`: those in use are the pairs of a call
and one of the slots it holds, counted. `Runnable` compares three sets: the strands of
the program that have not ended, the live workers and the suspended callers; their
cardinalities make `runnable` (`Counted`). A caller is suspended while its call has a live
worker (`Leases`), so suspended callers map one to one to live workers; a nested call is
made inside a worker of another, hence the calls under way lead back to one of the
program (`Rooted`), and what is left of the difference is a strand that can run. For
`Implements` the items handed out are a prefix of the input, each applied, under way in
one worker, or dropped after a failure (`Handed`); what is recorded is what the callbacks
came to (`Recorded`); after the first failure only what the other workers had in hand is
applied (`Bounded`). A step of a worker is then the abstract application of one item, the
collection is the abstract answer, and all else stutters.

*Modules.* `Base` says who leads what: a load in flight has one leader, whose frame is in
one place of one stack (`OneLeader`), code runs only in modules whose load was begun
(`FramesHeld`), and who waits, waits for such a load (`Waiters`). `Edges` then follows: the
edge of a waiter is added where it parks and taken away where it wakes, by a strand that
may share its environment with others, which keep their own reasons for the edge.
`NoDeadlock` needs that the recorded edges form no circle (`Acyclic`, preserved because the
code looks for a path before it adds an edge), and that the frames of a strand with one load
make its waits edges. `Refusals` needs that chains hold only modules whose imports lead to
the load (`ChainsReach`) and that edges are imports (`EdgesImport`).

*Integers.* `AccumulatorProofs` shows for words of any width that each overflow
rule says what it should: `AddRule`, `SubRule` and `MulRule` state that the rule, computed
in words that wrap, holds exactly when the mathematical result is no word. The
argument is one lemma, `SmallMultiple`: a whole number of turns smaller than one
turn is none. A wrapped product that divides back to the other factor differs from
the product by whole turns, and by less than the divisor (`QuotientRest`); so it is
the product, unless the quotient itself wrapped, which it does only in the case the
code excludes first (`QuotientFits`). `LengthRule` does the same for the unsigned span
of a range. The theorems are `UpdatesAreExact`, `LengthsAreExact`, `TypeCorrect`; the
type of the variable is all the invariant needs.

*Progress.* Liveness is out of the prover's reach, since it rests on fairness; but why each
liveness property holds is a safety argument, and for all but `MachineHalts` that is
proved for every value of the constants. It has two halves. *Somebody can step* as long as there is something to do:
the predicates `CanStep`, `CallerCan`, `WorkerCan`, `HandleCan`, `CanEnd`, `CanReap`, ... repeat
the guards of the actions (their agreement with ENABLED was checked with TLC on the
instances of the runs for `Modules` and `Process`). *Steps run out*: each one lowers a
measure, or takes from a finite set, and none adds. Weak fairness of the processes then
gives the end; that last inference is what TLC checks on the small instances, and no more.

- `StrandsAreNeverStuck`, `StrandsRunOut` (beside `EveryStrandEnds`). If the exact count is
  positive, somebody counted can step, or is a `pmap` caller whose workers can. If it is
  zero and somebody waits, a caller on its way out of `finishPending` can step, which is
  `Deferred`. Of nested `pmap` calls the innermost can return; that there is one is
  `Descends`: no set of strands in which each has a worker in the set, kept because a
  worker starts with nobody of its own. `Leases` says who among those that wait is counted.
- `PmapIsNeverStuck`, `PmapRunsOut` (beside `PmapEnds`). Nobody waits for a slot: a caller that
  finds none works in place. Were nobody able to step, each call under way would wait for a
  nested one; no two wait for the same (`Single`), so that, as they are finitely many, each is
  waited for by another of them, and none was begun from outside, against `Rooted`. The
  steps ahead are a finite set (`AheadFinite`).
- `ServeIsNeverStuck`, `ServeRunsOut`, `CountIsExact` (beside `RequestsAnswered`). Whoever holds
  the handlers' mutex is inside; whoever is inside can go on or waits for the helper. The
  exception (`Stuck`) is a program whose helper waits for a handler in turn.
- `ImportsNeverDeadlock`, `ImportsAreNeverStuck`, `ImportsRunOut` (beside `ImportsEnd`).
  `NoFlatDeadlock` needs no premise on the program but speaks of strands with one load each;
  that loads of several modules per strand may wait in a circle is finding 3, and here is the
  other side: it takes a circle of imports. By `Descents` each frame of a strand is an
  import of the one below and the module it waits for is an import of the top, so that every
  module it leads reaches the one it waits for. Were strands to wait for each other, the
  modules reachable from what one of them waits for would be fewer for the next, and for
  the next again; but strict subsets of a finite set are well-founded. By `Led` somebody leads
  each load in flight, so that nobody waits for a load that no one will finish.
  The descent along a stack is an induction, and within reach: `Least`, the least element of
  a set of naturals, follows from `WFMin`, which takes a set and not an operator.
- `ReaperIsNeverStuck`, `TheEndRunsOut` (beside `ExitIsPublished`). The reaper waits for the
  watcher only after it told it to stop, for the drains only after the writers ended or
  their pipes were closed, and a busy `sync.Once` has somebody who runs it (`Awaits`). The
  exception is an heir that keeps the read end of stdin and does not read: finding 4.
- `ConflictsRunOut` (beside `UpdateEnds`). Each attempt ends an update or is one conflict more,
  below the limit, whatever others do.

The type invariants of `Scheduler`, `Store`, `Process`, `Pmap`, `Modules` and `Accumulator`
are proved, and so are `ChannelFirst`, `KeysListed`, `FreshBase` and `LengthExact`, which no
run checks; that of `StoreFiles` is part of `FilesInv`; that of `VM` was checked on the
instance above without being listed.

Only model-checked: the liveness properties (`EveryStrandEnds`, `UpdateEnds`,
`ImportsEnd`, `ExitIsPublished`, `PmapEnds`, `RequestsAnswered`, `MachineHalts`), as far as
they need fairness and ENABLED; and what is recursive, which TLAPS cannot treat: the snapshot
(`SnapshotFaithful`), the evaluator and compiler (`Parity`, `ScopesBalanced`), the parser and
printer (`FormatKeepsMeaning`, `FormatSettles`). What the violation runs refute are
statements of documents, not theorems.

## 6. Not modelled, and the plan

To prove next: the theorems of `Scheduler` for its composition with an import
(`SchedulerImports`), as far as finding 1 leaves them true; that the order `StoreFiles` finds
after a crash is what `Store` takes its one-step flush to do.

To model: pipelines of several commands and `stream_lines` with its early stop,
beside `Process`; in the backends, slices and string indexes, builtins that call back
(map, filter), `use` and special blocks, the fallback of the compiler; in the front
end, match forms and interpolation, `fmt --fix`; floats, whose comparison with integers
has rules of its own.

Left out for good: the data builtins (json, csv, regex, format, strings, datetime:
text and mathematics, no order of events; their fuzzers and tests are the right
tool), the linter (an inspection that changes nothing), single system calls (`http.go`
and most of `fs.go`), options of the command line, the terminal. `PROJECT.json` has every
component with its reason.
