# A verification project for ZnetServer

ZnetServer (`src/server/`) is the foundation of a C++ network server: coroutines
on top of `ucontext`, a scheduler that runs them on a pool of threads, a thread
wrapper, a logging system, and a configuration system that reconfigures the
loggers while the program runs. The event loop, the sockets and the HTTP server
that `src/README.md` announces have no code yet.

This directory holds TLA+ modules for the parts whose correctness is hard to
test, the TLC configurations that check them on small instances, and TLAPS
proofs of their safety properties, and of the scheduler's refinement, for every
number of threads, fibers, loggers and variables and for patterns and documents
of every size. `PROJECT.json` lists components, runs, mutants, the lines each
definition models, findings, hazards and theorems.

    tlc -workers 2 -config SchedulerPool.cfg MCScheduler      # a run
    tlapm SchedulerProofs.tla                                 # a proof module

## 1. Inventory

| Component | State | Operations | Hard behaviour | What makes it correct |
|---|---|---|---|---|
| **Fiber** (`fiber.{h,cpp}`) | saved context, state and callback of each fiber; per thread: `t_fiber`, `t_thread_main_fiber`, `t_scheduler_fiber` | `GetThis`, `call`/`back`, `swapIn`/`swapOut`, `Yield`, `MainFunc`, `reset` | a fiber continues on another thread; contexts saved into the wrong object; a finished fiber resumed; null scheduler fiber | one thread per stack; the current pointer names the executing stack; what is suspended can be resumed |
| **Scheduler** (`scheduler.{h,cpp}`) | `m_fibers`, `m_stopping`, `m_threads`, mutex and condition variable, `m_rootFiber` | constructor, `start`, `stop`, `schedule`, `run` | workers, producers, tasks and `stop()` interleave; notifications after unlocking; restart; a thread that cannot be created | no lost wakeup; `stop()` drains and returns; no task lost, run twice or run past its end |
| **Thread**, **Semaphore** (`thread.{h,cpp}`, `mutex.h`) | `m_thread`, `m_id`, `m_cb`, `m_joined`, the count | constructor, `run`, `join`, destructor | the owner and the new thread race on the object | constructed means initialised; joined means done; nothing leaks; no use after destruction |
| **Loggers, appenders, LoggerManager** (`log.{h,cpp}`) | the map of loggers, `m_root`, level/formatter/appenders of each logger, open files | `getLogger`, `createLogger`, `updateLogger`, `configureLogger`, `removeLogger`, `toYamlString`, `log` | long sequences of reconfigurations; pointers kept across them; the logger logs about itself | loggers are what the configuration says; pointers stay valid; what is exported is what is in use |
| **Configuration of the loggers** (`config.h`, `log.cpp`) | the variable `loggers` | `setValue` and the listener | equality decides whether a reload is applied | every reload takes effect |
| **ConfigVar, Config** (`config.{h,cpp}`) | registry of variables, values, listeners | `Create`, `Lookup`, `setValue`, `fromString`, `LoadFromYaml`, `addListener`, `removeListener` | listeners that throw, set variables again or change the listener list in the middle of the loop; documents in which some entries fail | one variable of a name; listeners learn the value in force; one entry of a document does not disturb the others |
| **LogFormatter** (`log.cpp`) | `m_pattern`, `m_items` | `init`, `setPattern`, `format` | a hand-written parser with two indices that step back | the items spell the pattern; it ends |
| **Mutex, ScopedLock, NullMutex** (`mutex.h`) | | `lock`, `unlock` | unused by the repository; `ScopedLockImpl` copies its mutex | mutual exclusion |
| **LexicalCast** (`config.h`, `log.cpp`) | | conversions between values and YAML text, for containers, maps and `LogDefine` | exceptions of elements; empty containers; scalars where a container is expected | what is written can be read back |
| **LogEvent**, **Singleton**, **noncopyable**, **util** | | records, thread ids, lower case | | |

Interactions. `Scheduler::start` makes `Thread`s, whose callbacks enter
`Scheduler::run`; `run` exchanges contexts with fibers through
`Fiber::swapIn`/`swapOut`, which find their partner in the thread-local pointer
`Scheduler::GetMainFiber()`. Tasks and other threads call `schedule`, which
shares `m_fibers` with the workers under `m_mutex`. `Config::LoadFromYaml` sets
the variable `loggers`, whose listener calls `LoggerManager`; everything logs
through `LoggerManager::m_root`.

## 2. Modules

| Module | What it is |
|---|---|
| `Fiber` | state and operations of the coroutines: no `Next`, used by the next two |
| `FiberUse` | threads that use fibers without a scheduler; the invariant `UseInv` |
| `Scheduler` | the scheduler composed with `Fiber` and with the handshake of `Thread` |
| `TaskPool` | abstract specification: what the scheduler promises its clients |
| `SchedulerRefinement` | the refinement mapping from `Scheduler` to `TaskPool` |
| `SchedulerInv` | the inductive invariant `IInv` of `Scheduler` |
| `Thread` | Thread objects, their owners and their OS threads; the invariant `ThreadInv` |
| `LogDefine` | levels, `LogDefine`, its conversions and its equality: pure operators |
| `LoggerManager` | loggers, appenders, the configuration variable `loggers` |
| `LexicalCast` | the conversions of `config.h`: pure operators; a container's takes the converted elements |
| `Config` | the registry, variables with listeners, loading a document |
| `LogFormatter` | the pattern parser, round by round, and what it prints |
| `MCScheduler`, `MCFiberUse`, `MCThread`, `MCLoggerManager`, `MCConfig`, `MCLogFormatter` | small instances for TLC |
| `SchedulerProofs`, `FiberUseProofs`, `ThreadProofs`, `ConfigProofs`, `LoggerProofs`, `LogFormatterProofs` | theorems about one component each |
| `SchedulerRefinementProofs` | the proof that `Scheduler` implements `TaskPool` |
| `DataLemmas` | lemmas about finite sets, induction, `Max`, `Min`, lists made of pieces, used by the last three of those and by no model |

### Fiber

A thread's own identity stands for its main fiber. `stack[t]` is the stack
thread *t* really executes on, `pc[t]` where it is; a saved context `m_ctx[f]`
is a stack and a place. `SwapContext` is libc's `swapcontext`: it stores the
place of the thread in one context and continues from another; storing and
loading the same context continues where the thread is, which is what happens
to `m_rootFiber` at its end. `MainFuncReturns` is a context that runs off the
end of `MainFunc` with a null `uc_link`: libc ends the process. A null pointer
dereference ends it too. `cur` is the local of `MainFunc`, which lives on the
fiber's stack and moves with it.

`FiberUse` is the code of a program that has fibers and no scheduler, like
`tests/test_fiber.cpp`. Its clients resume a fiber only while no thread
executes it and from outside any fiber; they may reset a suspended one.

### Scheduler

One action per critical section of `m_mutex`, per notification, per context
switch and per thread operation. `RunWaits`, `RunTakes` and `RunFindsNothing`
are the three outcomes of the critical section of `run`; a thread whose `pc` is
`"waiting"` is blocked in `m_condition.wait`, and leaves it by `Notify`,
`StopNotify` or `SpuriousWakeup`. `RunBreaks` is the second, unlocked test of
`m_stopping`. `idle_fiber` is created and never swapped in, so it has no action.
`fiber[t]` is `run`'s local from the moment it takes a fiber to the moment it
swaps it in; afterwards nothing reads it.

The clients are part of the model: any thread outside the pool and any running
task may schedule a fiber that is idle; by `ClientOps` they may also resume
fibers that have yielded, reset finished ones, and schedule themselves before
they yield. `start()` and `stop()` are called alternately, by the owner, as
often as it likes. The `due` variable is history: what was in the list when
`stop()` set `m_stopping`.

`TaskPool` has neither threads nor locks: a task is new, ready, running,
suspended or finished, the pool is open, stopping or stopped, and it is closed
only when nothing runs and all that was ready at the request has had its turn.

### Thread

The owner's program and `Thread::run` as two sequences of steps on the object's
members. The kernel's side is `resource`: joinable, detached or reclaimed. A
second `join()` is a step with the outcomes `pthread_join` may have.

### LoggerManager

Loggers are addresses in a heap (`logger`); the map, `m_root` and the callers
hold them, and an object nobody holds is freed. Texts, patterns and paths are
model values; a record is its level. Each operation is one step, with the
records it writes to `m_root` itself: they may open files, and the report of a
file that cannot be opened is a record as well (`LogOn`, `Recurses`). `Reload`
is `fromString`: the document is converted by `LogDefine`'s `ToDefines`, which
may throw, and then `setValue` with its equality test and the `LogInit`
listener. Callers that hold a logger set its level and add, delete or clear its
appenders. A document is a sequence of nodes; a member that is missing is NULL,
and the texts of levels are the real ones, in either case or unknown.
`ExportFaithful` sends what `toYamlString` writes through the same conversions
and compares the loggers by what they do with records (`Effective`): an appender
of an unknown level is written without one and reads back with its logger's,
which lets the same records through.

### Config

One thread runs everything; what interleaves is the code of the listeners. A
`setValue` in progress is a frame on `stack`: the variable, the new and old
values, the id of the listener it stands on, and whether `fromString` is around
it to catch exceptions. Each listener call is one step. A listener returns,
throws, sets a variable (with `setValue` or `fromString`, its own variable
included), or adds or removes a listener of the variable that calls it.
`Unwound` is where an exception (a `std::exception`, the repository throws no
other) goes: to the innermost `fromString`, which returns false, or to the client, and then `LoadFromYaml` is left as well. A
listener that replaces or erases the element a loop stands on makes the rest
`undefined`, and nothing is claimed about it. `members` is what the loop of
`LoadFromYaml` has still to look at; `Listed` is `ListAllYamlMember`. `heard`
(what each listener was told last), `disturbed` and `load` are history.

`ListenersInformed` says exactly how much the loop guarantees: listeners up to
the first that threw, or led back to a `setValue` of the same variable, know the
value in force; the ones after it may not. `LoadIsolated` gives the value each
variable must have after a load from the document alone: the last entry of its
name that converts. `LoadCompletes` holds as long as the listeners agree
(`ListenersAgree`): a change of a variable may come back to it by way of
listeners, but not as two different values. Two listeners of one variable that
set it to different values recurse without end (§6); `ConfigLoad` has such a
pair, and the model stops there at the depth `MaxDepth`.

A name is the sequence of its parts, a text is its YAML node (parsing and
dumping undo each other). The types of the variables are `int`, `set<int>` and
`map<string, vector<int>>`, which use all the conversions.

### LogFormatter

One step per round of `init()`'s outer loop over text and of its inner loop over
a field, on sequences of characters: letters, and `percent`, `lbrace`, `rbrace`
and `other` for `%`, `{`, `}` and the rest. `Push` is the end of a round with a field;
`Finish` turns the list into items. `PrintsWhatItSpells` compares with a
reference: sequences of texts and fields (`Sentences`), their spelling, and what
`log.h` says each field stands for (`Meaning`); `Delimited` are those whose
spelling is not ambiguous. Where the comments and the code disagree (§6) it
claims nothing: `%p` may be the process number or the level, the texts of
sentences have no `%`, and a text after the last field may be missing
(`UpToLastField`). `ConsumedIsKept` speaks of all patterns, well-formed or not,
but only up to the first `%%`.

## 3. Runs

| Run | Instance | Result |
|---|---|---|
| `SchedulerPool` | owner, producer, 2 workers, 2 tasks, resume and reset, restarts (116 549 states) | all safety properties, `IInv`, and the refinement of `TaskPool` hold; no deadlock |
| `SchedulerCaller` | `user_caller`, producer, 1 worker, 2 tasks, all client operations, `pthread_create` may fail (18 554 states) | `stop()` drains the list on the root fiber; finished tasks are not resumed |
| `SchedulerLive` | owner, 2 workers, 2 tasks, fairness (14 700 states) | every scheduled fiber is taken, `stop()` returns |
| `FiberCalls` | 2 threads, 2 fibers (904 states) | contexts and pointers stay consistent |
| `ThreadLifecycle` | 2 Thread objects, fairness (619 states) | handshake, join and reclamation are right |
| `LoggerReload` | 2 names, 4 addresses, 1 caller, 4 documents, 2 sets of arguments for create and update, all operations of a held logger (89 562 states) | loggers match the configuration, the export matches the loggers, pointers stay valid |
| `ConfigLoad` | 2 callers, 3 names of which one is not valid, 3 types, up to 3 listeners of a variable, 7 kinds of listener, 1 document, fairness (294 899 states) | one variable of a name; loads are isolated, and end if listeners agree; listeners know the value in force; values survive their text |
| `FormatterParse` | patterns of up to 5 characters, spellings of up to 3 tokens and of sentences like the default pattern (`log.h:177`) and that of `tests/config.yml:4`, one `setPattern`, fairness (183 203 states) | the parser ends, keeps what it passes up to a `%%`, and prints what the pattern spells up to the last field |
| `SchedulerCallerStop` | `user_caller`, 1 worker | **violated**: `stop()` never returns |
| `ThreadDestroyed` | 1 Thread object | **violated**: a Thread destroyed after its constructor is still used |
| `LoggerLevelOnly` | two configurations that differ in one appender's level | **violated**: the second is not applied |
| `LoggerUnopenable` | one file cannot be opened | **violated**: its report recurses without end |

The violated properties state what a comment or a test of the repository says;
`findings` in `PROJECT.json` quotes it.

**Bounds.** Two workers and a producer are needed for every race on the list
and on the condition variable: one worker that sleeps, one that is between its
wakeup and the lock, and a thread outside that schedules. Two tasks give a
schedule that finds the list empty (and notifies) and one that does not. The
theorems below remove the bounds for the safety properties and the refinement of
every component; for liveness and for `user_caller` they remain. Two threads and two fibers let a fiber
migrate while another one is in its place. In `LoggerManager` two names are
root and another; four addresses are two more than the names, so that a removed
logger that is still held can coexist with its successor. The documents
differ in everything the code distinguishes: own and inherited levels and
formatters, files and stdout, an appender of an unknown type, a level in upper
case and one that is not known, with and without a second logger, one logger
twice, and a document that does not convert. `MaxAppenders` bounds what a caller
adds to. Callers ask for the second logger only; root changes by documents,
creations and removals. In `Config` two callers are needed for a name created
with two types; three listener ids put a listener before and after the one that
misbehaves. `MaxDepth` is above the deepest nesting that listeners that agree
reach here, and of the three ids of variables one is spare. The document has a name that is not
valid, and a variable twice, once in a way that does not convert. In
`LogFormatter` five characters are a text or a `%%` and a whole field with a
format, and `MaxPatterns` allows one `setPattern()` after the constructor.
Addresses, workers and tasks are symmetric; liveness is checked without
symmetry.

**Fairness.** `FairSpec` of `Scheduler` assumes weak fairness of the owner's
steps inside `start()` and `stop()`, of every pool thread's steps and of a new
thread's first steps: the OS runs runnable threads, a contended mutex is
acquired eventually, and callbacks return or yield. Nothing is assumed about
what clients decide: no `schedule`, `start` or `stop` has to happen, and no
spurious wakeup. `SchedulerLive` schedules every task once; with clients that
keep resuming tasks `ScheduledRuns` is false, because `run` takes the newest
fiber first (§6). `FairSpec` of `Thread` assumes that OS threads run and that
owners inside the constructor or `join()` go on when they can. `Config` and
`LogFormatter` assume weak fairness of the steps inside a call (listeners return
or throw, loops go on), and nothing of what clients call.

**Deadlock** is checked in `SchedulerPool`, `SchedulerLive` and `LoggerReload`.
It is switched off where the program may really end: the process exits or dies
(`SchedulerCaller`, `FiberCalls`), all objects are destroyed
(`ThreadLifecycle`), a formatter has been given all its patterns
(`FormatterParse`), or what follows is undefined (`ConfigLoad`).

**Mutants.** Each property of each passing run has a mutant, an operator named
`<definition>_<what is wrong>` before the definition it mutates; with it the
property fails.

## 4. Proofs

All theorems hold for every value of the constants, under the assumptions named
in the modules that declare them. TLC evaluates these assumptions on each run.

| Assumption | What it asks |
|---|---|
| `FiberAssumption`, `SchedulerAssumption`, `ThreadAssumption` | threads and fibers are different things, the owner is a thread and no producer, the root is a fiber; the switches of the model are Boolean |
| `ConfigAssumption` | ids of listeners are positive numbers, finitely many (the code's are `int` keys of a `std::map`, of which only the order matters); what clients assign is of the variable's type; no conversion gives the marker of a missing value |
| `NodesAssumption` | documents are finite trees of nodes, as yaml-cpp makes them |
| `LoggerAssumption` | levels, patterns and paths of documents and arguments are of their kinds; addresses are finitely many |
| `FormatterAssumption` | patterns are sequences of characters; the letters do not include `%` and the braces; sentences are sequences of texts and fields |

The names in `Config` are sequences over any set `Parts`, and nothing is assumed
about how many.

**`SchedulerProofs`** is about a scheduler whose owner's thread takes no part
and whose clients do not schedule running fibers (`PlainPool`); threads may
fail to be created. `Invariance` proves `IInv`, and from it follow
`TypeCorrect`, `ContextsSafe` (`OneThreadPerFiber`, `CurrentIsExecuting`),
`WakeupsSafe` (`NoLostWakeup`), `StopWakes`, `NeverPastTheEnd` and `StopSafe`
(`StopDrains`). None of these is inductive alone. `IInv` adds:

- `Places`, `Pointers`, `Contexts`: on its own stack a worker is at a label of
  `run`, on a task's stack at a label of the task; its pointers name that
  stack, and the context it will return to is the top of `run`'s loop.
- `Ownership`: a task is once in the list, or held by one thread, or on one
  stack. This is what makes `OneThreadPerFiber` inductive: `swapIn` itself
  checks nothing.
- `Handshakes`: the owner waits for at most one new thread, whose semaphore is
  posted once.
- `Recorded`, `Phases`: what `m_threads`, `thrs` and the workers' places are in
  each phase of `start()` and `stop()`; while the list holds something that was
  in it when `stop()` began, a worker remains that will look at it. This
  carries `StopDrains` and `NoLostWakeup` through the joins.

There is one step per action in the proof of `IInv`, on top of lemmas about the
list (`Append`, `Last`, `Front`), about a thread that only moves its program
counter, and about entering and leaving a fiber.

**`SchedulerRefinementProofs`** proves `SchedulerImplementsTaskPool`: the
initial state maps to an empty pool, and each action of `Scheduler`, from a
state with `IInv`, to one step of `TaskPool` or to none. `schedule`, `swapIn`,
`swapOut`, the end of a fiber and a `reset` move one task (`OneTaskMoves`); what
waits, notifies, locks or hands over a semaphore is invisible (`Invisible`). The
two steps that need most of `IInv` are the return of `stop()`, where no task may
be running and none of `due` waiting, and `RunTakes`, where `Ownership` makes
sure that the task that leaves the list is nowhere else.

**`FiberUseProofs`** proves `UseInv`, and with it `CurrentIsExecuting`,
`OneThreadPerFiber`, `MainContextKept` and `SuspendedIsResumable`. The
strengthening `Attached` says where a thread can be and that its main fiber
exists as soon as it has a current one.

**`ThreadProofs`** proves `ThreadInv`, object by object, and with it `TypeOK`,
`ConstructedIsInitialised`, `JoinedMeansDone` and `NothingLeftJoinable`.
`Lockstep` relates the owner's place to the OS thread's: this is what the
semaphore is for.

**`ConfigProofs`** proves all safety properties of `Config`.

- `OneVariable` (`OneVariablePerName`) from `RegistryInv`: the registry leads
  from each name to a variable of that name, so that neither a new variable nor
  a second `Create` can take one away from a pointer that was handed out.
- `ConfigTypeOK` and `ConfigListenersInformed` from `ConfigInv`. Its part
  `Informed` is what one round of `setValue`'s loop preserves: a call in
  progress hands out the value in force unless the loop has come past the
  listener that led to another one (`FramesInformed`), and a listener that does
  not know the value in force has such a call still coming to it
  (`ValuesKnown`). With an empty stack that is the property.
- `ConfigRoundTrip`, for the three types of the model and values of any size:
  what a variable holds is of its type (`ConfigInv`), and the conversions of a
  `set<int>` and of a `map<string, vector<int>>` undo each other.
- `ConfigLoadIsolated` from `LoadInv`: when the loop of `LoadFromYaml` has
  looked at *j* members, each variable no listener has set has the value of the
  last of these that is its own and converts. `ListedType` shows what
  `ListAllYamlMember` collects from a tree of any depth.

**`LoggerProofs`** proves all properties of `LoggerManager`.

- `LoggerTypeOK` and `LoggerKeys` from `LoggerInv`: the objects in the heap are
  whole and `Consistent`, which includes that an appender not flagged as having
  its own formatter has its logger's, and the map, `m_root` and the callers lead
  to objects that are there (`Wired`), in the map under their own names. This
  holds although objects are freed as soon as nobody holds them, and addresses
  are used again.
- `LoggerExportFaithful`, from the same invariant and a proof that
  `ToDefines` reads back what `FromDefine` writes.
- `LoggerConfigInForce` from `InForceInv`. It has a hypothesis: documents that
  define different loggers are not taken as equal by `operator==`. The code does
  not have this for all documents: `operator==` ignores an appender's own level
  and formatter (`log.h:320`), and `LoggerLevelOnly` shows the property fail
  because of that. The theorem says that this is the only reason why it can:
  with documents that satisfy the hypothesis, as those of `LoggerReload` do, the
  loggers are what was loaded.
- `ReloadInPlace` (`StableHandles`): only a document that converts to another
  value changes `m_value`, and the listener then makes new loggers for exactly
  the names that had none.

**`LogFormatterProofs`** proves all safety properties of `LogFormatter`, for any
alphabet and patterns of any length.

- `FormatterTypeOK` from `ScanInv`, which adds to the bounds of `i`, `j` and
  `fmt_begin` what a format in progress remembers of the field before it.
- `FormatterConsumes` (`ConsumedIsKept`) from `Accounted`: each round keeps that
  what was listed and collected spells what was passed. `Accounted` follows the
  code through a `%%` as well, because otherwise the claim for what comes before
  would not be inductive; `ConsumedIsKept` does not.
- `FormatterPrints` (`PrintsWhatItSpells`) from `PrintInv`. `Reading` says where
  the two indices can be while `init` reads a pattern that spells a sentence: at
  a token, inside a text, or inside a field or its format, with the tokens
  before it in the list. `ReadingNext` has one case for each of these, and in
  each the guards leave exactly one round. At the end the list is the sentence,
  perhaps without a text at its end (`AllRead`), and its items write what it stands for (`PrintedExpected`); items
  of earlier patterns stay in front (`PrintedConcat`).

**`DataLemmas`.** Induction over the numbers is used in the form `Induction`, on
a set instead of a predicate, which these provers can instantiate; with it what
`FlattenSeq`, `Max`, `Min`, `SetToSeq` and the recursive functions of the models
(`Listed`, `WithTypes`) give is proved and not assumed.

**Only model-checked**: liveness (`ScheduledRuns`, `StopCompletes`,
`DestroyedIsReclaimed`, `LoadCompletes`, `InitTerminates`), which needs fairness
and is out of the prover's reach, and everything with `user_caller` or with
clients that schedule running fibers (`SchedulerCaller`). The violated
properties of §3 are refuted by TLC's counterexamples.

## 5. Not modelled

- Data races in `LoggerManager` and `Config`, which take no lock: the model has
  one administrating thread. A race on a `std::map` has no outcomes to list.
- The unlocked write of `m_stopping` in `start()` and its unlocked read in `run`
  are single steps; the flag is one byte.
- Reference counts, the memory of fibers (`MainFunc`'s local `cur` is never
  destroyed, so a finished fiber is never freed), the fiber counters.
- The text of records, the layout of times, the syntax of YAML.
- `Logger::setFormatter`, `Logger::setName`, the setters of appenders and
  `FileLogAppender::reopen` called from outside: only `LoggerManager`'s code
  calls them. A direct `setFormatter` would leave the appenders on the old
  formatter without the flag `toYamlString` looks at, and `setName` would make
  the map's key and the logger's name differ.
- Listeners that create variables or load documents.
- `Mutex`, `ScopedLock`, `NullMutex`: nothing uses them. `ScopedLockImpl` copies
  the mutex it is given (`mutex.h:50`); locking a copied `pthread_mutex_t` is
  undefined, so there is no behaviour to model.
- A callback that lets an exception out of `Thread::run` (the process ends).
- Nested `call()`, and a `reset` that races with the end of the fiber: the
  clients of `FiberUse` and `Scheduler` resume fibers from outside any other and
  reset those that have left their thread.

## 6. Other observations

Disagreements that were met while modelling and that have no run of their own:

- `run` takes fibers from the back of the list where `schedule` puts them
  (`scheduler.cpp:81,111`); the comment says queue. Old fibers can starve.
- `tests/test_scheduler.cpp:16` says that `stop()` waits until all tasks have
  been executed; a task that has yielded is left in the middle of its callback
  (`scheduler.cpp:110`).
- `tests/test_fiber.cpp:9` resumes a fiber with `swapIn()` after `GetThis()`,
  with no scheduler; `Scheduler::GetMainFiber()` is null there and is
  dereferenced (`fiber.cpp:109`; `UserSwapsIn`).
- A task that calls `schedule(GetThis())` and then `Yield()` can be swapped in
  by a second worker before it has saved its context; with one worker it is
  safe (`SchedulerCaller`).
- A failed `pthread_create` in `start()` leaves null slots that `stop()`
  dereferences (`JoinNull`).
- A reload without an entry for root removes it from the map while `m_root`
  keeps the object; the next reload with one makes a second root logger, and
  `ZNS_LOG_ROOT()` stays on the first (`log.cpp:610`).
- `getLogger` sets `logger->m_root` as a fallback (`log.cpp:481`), which
  `Logger::log` never reads.
- `updateLogger` changes the path of an open file appender, which goes on
  writing to the old file (`log.cpp:525`).
- `toYamlString` writes inherited levels (`log.cpp:717`), against the comment
  at `log.cpp:682`.
- `reopen()` truncates the file (`log.cpp:307`), and a reload makes new
  appenders: records written before it are lost.
- `%%` puts a `%` into the text and leaves the second one to be parsed again
  (`log.cpp:355`), against the comment at `log.cpp:352`; text after the last
  field is dropped (`log.cpp:400`); the braces of an empty format are too. The
  properties of `LogFormatter` leave these patterns out, or open.
- `setPattern` adds items without removing the old ones (`log.cpp:332`); nobody
  calls it.
- `%p` is documented as the process number (`log.h:111`) and prints the level
  (`log.cpp:422`). `PrintsWhatItSpells` allows both.
- A document loaded before `Create` is forgotten: the variable gets its default
  (`config.cpp:28`). A scalar where a vector is expected makes it empty
  (`config.h:73`). An empty string in a container reads back as `~`
  (`config.h:53,76`).
- Two listeners of one variable that set it to different values call each other
  without end: only the comparison with the current value ends the nesting
  (`config.h:209-217`). The same happens by way of other variables.
- A listener that throws out of a client's own `setValue` reaches the client;
  out of a `fromString` it is reported as a failure although the value has been
  set (`config.h:231`).
- Reloading the same configuration after `createLogger` changed a logger
  changes nothing: `setValue` compares with the last value, not with the
  loggers. `ConfigInForce` therefore speaks of loggers that nothing else has
  changed since.

## 7. Plan

Done: all modules above; every invariant and action property of the passing
runs, and the refinement, is stated by a theorem for a plain pool and for the
other components without restriction. Left:

1. `IInv` extended to `user_caller`: the root fiber, on which `run` saves and
   loads one context, and the owner's thread as one more worker.
2. Clients that schedule a running fiber when there is one worker: `Ownership`
   with a task that is in the list and on the only stack.
3. Further client operations of `Fiber`: nested `call()`, and `reset` of a fiber
   whose state is TERM but whose context is not saved yet.
4. `Config` composed with `LoggerManager`: a listener of another variable that
   reconfigures the loggers while `loggers` is being set.
