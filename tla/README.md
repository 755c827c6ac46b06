# TLA+ models of SvrFrame (primo)

SvrFrame is a small C++ server framework: coroutines ("fibers") on `ucontext`,
an N-M scheduler that runs them on a pool of threads, a thread wrapper, typed
configuration variables with change listeners, and a logger. This directory
holds TLA+ models of its concurrent core, TLC runs that check them on small
instances, and TLAPS proofs for instances of any size.

One remark on the source. `CMakeLists.txt` builds `Logger.cpp`, `util.cpp`,
`config.cpp` and `thread.cpp`; `fiber.cpp` and `schedule.cpp` are not in the
build, and `schedule.cpp` spells some of Fiber's members differently
(`swapIn`, `reset`, `call`, `m_state` for `SwapIn`, `Reset`, `Call`, `mState`)
and `GetThis` of `fiber.cpp` lacks its class prefix. The models read these
names as the members they stand for.

## Inventory

| component | state | operations | interacts with |
|---|---|---|---|
| Scheduler (`schedule.*`) | queue `m_fibers`, counters, `m_stopping`, `m_autoStop`, threads | `schedule`, `start`, `stop`, `run`, `idle`, `switchTo` | resumes Fibers, creates and joins Threads; bodies call back into `schedule` and the yields |
| SchedulerSwitcher | the scheduler it came from | constructor, destructor | `switchTo` of two schedulers |
| Fiber (`fiber.*`) | `mState`, `mContex`, `mCallback`, thread-local `t_fiber` and `t_threadFiber`, `sFiberCount` | constructors, `Reset`, `SwapIn/SwapOut`, `Call/Back`, yields, `MainFunc` | `run()` stores HOLD after `SwapIn`; glibc's `swapcontext` |
| Thread, Semaphore (`thread.*`) | `mThread`, `mId`, `mCb`, the semaphore, thread-local `t_thread` | constructor, `run`, `join`, destructor | created by `start()` |
| locks (`thread.h`) | who holds them | lock, unlock, scoped locks | all |
| CfgVar (`config.h`) | `mVal`, `mCbs`, `sFuncId`, RWMutex | `SetValue`, `GetValue`, `FromString`, listeners | the logger's configuration listener |
| Config (`config.*`) | the map of variables | `LookUp`, `LoadFromYaml`, `Visit` | CfgVar, yaml-cpp |
| Logger, appenders, LoggerMgr (`log/`) | levels, appender lists, formatters, files, spin locks | `Log`, `AddAppender`, `SetFormatter`, `ReOpen`, ... | root logger, CfgVar |
| Logger configuration | `g_log_defines` | conversion, listener | CfgVar, Logger |
| LogFormatter | parsed items | `Init` | Logger |
| utilities | none | thread id, backtrace | |

What is hard here: wake-ups that race with a fiber's yield; the two counters on
which `stopping()` relies; the window between a decrement and the requeueing
that follows it; contexts that are saved where another one still lives; a
constructor that hands `this` to a thread; a setter that works under two
different locks one after the other; listeners that throw, or register
variables while others visit them; a log file that is truncated by a timer and
whose stream keeps an error. `PROJECT.json` lists these hazards by line.

What makes each part correct: the scheduler runs every body at most once, on one
thread at a time, and returns from `stop()` with nothing left behind; a fiber
continues where it left off, on the stack it left; a Thread object may go as
soon as its constructor is over; listeners end on the value; a message is
written by somebody; the log file holds what its three seconds say; a variable
ends with what the documents give to its name; a pattern is cut into just the
items it spells.

## Modules

`Scheduler.tla` models `schedule.{h,cpp}` with the part of Fiber that `run()`
uses. A section that the code executes under `m_mutex` is one action; every
access outside of it (states, counters, flags) is an action of its own. `pc[t]`
is the position of thread t in `run()`, `opc` the position of the owner in
`start()`/`stop()`; `ft`, `cb_fiber` and `idle_fiber` are `run()`'s locals.
Fiber bodies are arbitrary: they schedule, hand out the right to wake them
(`HandOff`), switch thread, yield, return or throw. `hand`, `yields`,
`entries` and `posted` belong to the callers and to the properties, not to the
scheduler. `Setups` holds the constructor's arguments and the callers' `Habits`
that a run tries, and Init chooses one: `disciplined` callers keep at most one
pending wake-up per fiber, which the code needs when there is more than one
thread (`SchedulerDupWake`); `late` ones go on calling `schedule()` from outside
while `stop()` is under way; with `ready` bodies call `YieldToReady`; `pins` are
the threads they ask for. The variable `late` remembers what was scheduled from
outside since `stop()` began, and nothing that a body schedules. The owner makes
every call of `start()` and `stop()` and destroys a scheduler only when it is not
running, so the assertions on the calling thread (`schedule.cpp:89-93`) are left
out, and the destructor's on `m_stopping` (line 37) cannot fail.
`tickle()` and `dump()` only print.

`FiberPool.tla` is what the scheduler promises the bodies it is given, without
queue, states, counters and locks: a pool that is open or not, bodies that are
new, live or over, and the threads each is on. A body begins once, is taken up
by one thread at a time and only by one that has no other, and the pool closes
only when no thread is on a body. The end of `Scheduler.tla` maps its state to
this one (`On`, `Phase`), and `ImplementsPool` says that Scheduler implements it.

`Fiber.tla` models `fiber.{h,cpp}` on its own, with what `Scheduler` takes for
granted: contexts. A `ucontext_t` is abstracted to the stack it continues, and
`live[s]` records where the one usable continuation of stack s is. `Nested`
allows bodies to resume fibers, as `run()` does when it is itself the body of
`m_rootFiber`; `RunLoop` says that resumers store HOLD after `SwapIn` like
`run()`. Which entry function the constructor installs is nondeterministic,
because it tests a member that nothing has initialised. Callers reset only what
`Reset` accepts (its assertion is a guard; `Scheduler` has it as an assertion),
and `Reset(nullptr)` is in `Scheduler` (`AfterCb`). `Call` is used on a fresh fiber, as by
`stop()`, whose fiber ends without a yield, so that the store of HOLD that
`RunLoop` adds after it changes nothing there. A fiber that executes is not let go of by its last
owner, since its resumer keeps it, as `run()` does: the raw pointer that `MainFunc`
uses after `cur.reset()` is not put to the test. That every switch reads the
thread-locals of the thread it happens on is assumed. The stacks, `mId` and the
failure of `getcontext` are left out.

`Thread.tla` models `thread.{h,cpp}`: the object, its POSIX thread, the
semaphore between them, and an owner that joins or not; it joins the objects of
`Kept` before it destroys them. `pthread_join` does not fail: it would for a thread
that was joined or detached already, which `ReapedOnce` excludes. `notify` and `wait`
end without a `return` statement; the build uses no optimisation, where this
has no effect, and so it has none in the model.

`CfgVar.tla` models one variable of `config.h` and its RWMutex. A call waits
for the lock, acts inside it and leaves; `SetValue` does so twice. `Apart` says
that callers let `GetListener`, which inserts a missing key under the read
lock, overlap no other call.

`Logger.tla` models the loggers with console appenders, the manager and the
configuration listener. A thread's `work` is the sequence of calls it has yet
to make: one for a caller, all those of the listener for the thread that sets
the variable "logs". The spin locks of loggers and manager are variables
because they are held across calls; an appender's guards only leaf sections.
The appenders that a define asks for are named in the define; the listener makes
such an object (`NewAppender`) under a name that is in no list, and callers, who
never see it, neither add it to a logger nor set its formatter. Callers may add
their own appenders to several lists, twice to one, and again after they were
taken out; `giver[a]` remembers the logger from which a has its formatter. Two
things they keep to (`MayCall`): with `Apart`, an appender's own `SetFormatter`
overlaps no `AddAppender` of it; and they do not set the formatter of a listed
appender to nullptr, which its next `Log` would dereference. A logger's
`SetFormatter` is called with a pattern, which is refused or not; the overload
that takes a formatter is only called from there in the repository, so a refused
or null formatter never reaches it. A removed logger has level 0 and no appender,
so that its messages go to root; it and a define without a formatter keep the
formatter they had, as in the code.

`FileAppender.tla` models the file appender: events that are stamped before they
reach `Log`, the test of `mLastTime`, `ReOpen`, the store, the write. `io` is the
`std::ofstream` together with the file behind its name; what `close`, `open` and
`<<` do to them, with their error bits, is external and follows libstdc++. The
fault model: at any time the file is removed, the path can no longer be opened,
or the disk is full, and any of these ends again. `shared` says that several
loggers use the appender, whose calls then overlap; otherwise the logger's lock
keeps them apart. `SetName`, which nothing calls, is left out.

`LexicalCast.tla` has the conversions between text and values: `FromStr` and
`ToStr` for ints and nested containers (`config.h`), `FromDefine` and `ToDefine`
for LogDefine (`Logger.cpp`). A string that holds YAML is replaced by the node
it stands for, as if writing and reading it were inverse to each other. That is so
for ints, LogDefines and containers of them. It is not for elements of type
`std::string`: `config.h:112` and `262` parse the string as YAML, so that `""` or
`a: b` come back as something else. Such types are left out, and `RoundTrip` says
nothing about them.

`LogFormatter.tla` has the pattern parser `Init`, loop by loop, and beside it
the meaning of a pattern as a grammar (`Readings`, `SpelledBy`).

`Config.tla` models the registry: `LookUp` with and without a default value,
`LoadFromYaml` node by node, `Visit` callback by callback. Each thread follows a
program, a sequence of calls. `FromString` is split where `SetValue` gives the
variable's read lock up, and listeners call `LookUp` in between. The nodes that a
document is listed as (`AllNodes`) and the conversion of a node to a type
(`Casts`, a set with one value, or with none when it throws) are parameters, so
that what is proved of the registry holds for any of them.

`ConfigDocs.tla` supplies the former, `ListAllMember`, beside what the documents
themselves, `LexicalCast` and `LogFormatter` say the variables must hold
(`LoadedAsWritten`, `RoundTrip`, `ParsesRight`); `MCConfig` puts it together.
`ListAllMember` refuses a key with a capital letter before `LoadFromYaml` would
make it lower-case, so such keys are ignored with all that is below them.

The operators named `Bug...` are variants of the definition below them with one
mistake each. No specification uses them; they are there to show that each
property can fail: with the variant in place of the original, TLC reports it.

`MCScheduler`, `MCFiber`, `MCThread`, `MCCfgVar`, `MCLogger`, `MCFileAppender` and
`MCConfig` name the constants of the runs.

## Runs

Every run that passes explores the complete state space of its instance.

* **SchedulerSafety** one client fiber, one callback, one yield per fiber, and
  five setups: two workers with every choice of pins and so `switchTo`, with and
  without `YieldToReady`; two workers and callers that go on during `stop()`;
  `Scheduler(1, false)` and `Scheduler(1, true)` with undisciplined callers (fibers
  that are queued several times or dead, calls with nothing to schedule), `start`
  after `stop`, and the owner in `run()` inside `stop()`. Two threads are what a race needs, and one
  yield allows every order of wake-up and yield. `Drained` speaks of callers
  without pins and excepts only what came from outside since `stop()` began.
  `PinnedDrained` speaks of all pins, for callers that are quiet during `stop()`
  and bodies that do not call `YieldToReady`: a thread leaves because it has once
  seen `stopping()`, and then it stays true, so that no task for it can follow. The
  refinement of FiberPool is checked here.
* **SchedulerLive** two workers and two callbacks, so that a thread reuses its
  `cb_fiber`, without pins: liveness.
* **SchedulerDupWake, SchedulerPinHang** are expected to fail and show where the
  code departs from its assertions or comments: a fiber that is scheduled twice,
  and pinned tasks that keep `stop()` from returning. "findings" in `PROJECT.json`
  explains each.
* **FiberFlat** two threads, two fibers, each name used twice (`MaxMade`), so
  that fibers migrate and are Reset.
* **FiberNestedThis** fails: after a nested `SwapOut`, `GetThis` is wrong. The
  cause, one `t_threadFiber` for every switch of a thread, also keeps a `stop()`
  with `use_caller` from being returned to once it has run the loop in
  `m_rootFiber` (`RootBack` of Scheduler: the owner is then nowhere defined).
* **Threads** two objects that are joined, one that is destroyed right away.
* **CfgVarListeners** one setter and another thread, three values, two listener
  keys, all operations, three calls each: two changes of the value and a call
  that falls between any two of their steps.
* **CfgVarTwoSetters** fails: notifications and assignments of two setters cross.
* **Loggers** a thread sets "logs" three times, among the empty configuration,
  one with `net`, and one with another `net` and the root logger; another thread
  makes three calls: it logs to both and changes the root logger. Three settings
  are a first definition, a change and a removal. `Delivered` excuses a message
  that is logged while the root logger has no appender: root's own rebuilding
  does lose messages.
* **FileAppends** two threads, four messages, a clock that reaches 7, a buffer of
  one message, initial values of `mLastTime` with and without overflow of
  `mLastTime + 3` (integers modulo 16): two reopenings with messages before,
  between and after them, and every fault between any two steps.
* **ConfigYaml** two threads over about a thousand programs: pairs of documents
  with nested and dotted keys, repeated names, capital letters and values that do
  not convert, loaded by two threads, or by one beside look-ups and visits; pairs
  of log configurations; and one log configuration for each pattern of up to
  three characters out of `% { } m q -`, also behind `%`, `%m{` and `-%m{`.
  `LoadedAsListed` says what the variables hold in terms of the listed nodes,
  `LoadedAsWritten` in terms of the documents: the difference is `ListAllMember`.

Other things the models show beside the findings, each by a change of a constant
or by reading an action: `NothingLeft`, which is `Drained` and `PinnedDrained`
without their conditions, fails with two workers, pins and two yields per fiber,
because in the window of `SchedulerPinHang` a body can schedule a task for a
thread that has left, while the last thread, whose idle fiber has ended as well,
leaves without looking at the queue again: `stop()` returns and the task is never
run; what `run()` queues after `YieldToReady` is no longer pinned
(`schedule.cpp:187`, `AfterFiber`), although `schedule.h:66` speaks of the thread
that the fiber executes on; a fiber that called `YieldToHold`
stays EXEC until its resumer stores HOLD (`fiber.cpp:210`), so that with
`RunLoop = FALSE` a second `SwapIn` aborts; with `Nested = TRUE` a `SwapOut` may
load a context that another switch has already used; with `Apart = FALSE` and
two callers, `AddAppender` overwrites a formatter that the appender was given
between its two accesses (`Logger.cpp:103-105`); an appender that got its formatter
from a logger keeps it when it is added to another logger, or again to the same
one after a `SetFormatter`, since `AddAppender` gives a formatter only to an
appender without one (`Logger.cpp:103`), and nothing of `FormattersFollow` but
that it has a formatter is true of it; a file appender whose write
failed once writes nothing any more, since `ReOpen` skips `close()` on a stream
with an error and `open()` of an open stream fails (`Logger.cpp:304`); with
several loggers on one file appender both of its window properties fail; a
formatter of a file appender is read from its `file` key (`Logger.cpp:732`), and
an appender's level is written by `ToDefine` but read by nobody; a scalar for a
vector or a set makes it empty; `%%` is not one `%`: its second `%` is read again
as the beginning of an item (`Logger.cpp:491`).

Deadlock is not checked: a scheduler that was destroyed, a program that makes
no more calls and a model that has met a failed assertion really stop.

Bounds: `MaxYields` (yields of one fiber), `MaxQueue` (queue length at which
undisciplined callers stop), `MaxMade` (uses of one fiber name), `MaxKey`
(listener keys), `MaxCalls` (calls of one thread in CfgVar and Logger),
`MaxTime`, `MaxMsgs` and `BufSize` (FileAppender), `MaxLength` (patterns).

Fairness: a thread that `start()` created keeps taking the steps of `run()`,
and of bodies towards giving the thread back; `stop()` continues once called
(`FairSpec` of Scheduler). That is what an operating system's scheduler and
terminating bodies give; nobody is assumed to schedule, start, stop or wake
anything. Weak fairness suffices because `m_mutex` is free between actions. In
Thread, callbacks end; in CfgVar and Logger, calls go on, and `MaxCalls` keeps
readers from overtaking a writer, and one thread from winning a spin lock, for
ever, which glibc's locks would allow. In Config the programs end, so that weak
fairness of Next as a whole is enough.

## Proofs

Each theorem holds for every value of the constants that meets the module's
`ConstantsAssumption`; TLC evaluates that assumption in every run, and it has
checked every inductive invariant below on the run's instance, but for the type
of `arg` in CfgVar, a set of strings and numbers that it cannot compare.

`SchedulerProofs.tla` (any threads, fibers, callbacks, pins, bounds, constructor
arguments and habits of the callers):

* `CountsAreExact`: `Spec => []CountsExact`. The counters move by one in a
  step of some thread, which has to be exactly the step in which that thread
  enters or leaves the counted phase (`CountsFollow`). The invariant `CountInv`
  adds the types and `RootInv` (where the owner thread is when it has not
  entered `run()`), without which `StopCall` could move a counted thread.
* `TypeCorrect`: `Spec => []TypeOK`. `Types` and `CtorTypes` are `TypeOK`
  without the counters: that those are in `Nat` is no fact about types but
  follows from `CountsExact`, since cardinalities are natural numbers.
* `DestroyIsSafe`: `Spec => []DestroySafe`. `StopInv` says at which points of
  `start()` and `stop()` a worker may be in `run()` (it is then one that the
  owner has yet to join), and that an idle fiber has ended only after `stop()`
  began.
* `StopDrains`: `Spec => []Drained`. A callback that was posted is in one queue
  entry, in the hands of one thread, or has been entered once (`CallbackInv`).
  The heart is `LeftInv`: when none of the threads to be joined will look at the
  queue again, the queue holds only what came late. It needs the exact counters, because
  `stopping()` trusts them, and that a fiber in EXEC is held by some thread.
* `PinnedStopDrains`: `Spec => []PinnedDrained`. `StillInv` says that no fiber is
  READY, and that once the idle fiber of a thread to be joined has ended the queue
  is empty and `m_activeThreadCount` zero. With the exact counters no thread then
  has a task, so none can queue anything, and `StopInv` keeps callers from outside
  away. Without `~habits.ready` this is not inductive, and not true: the READY
  fiber between the decrement and the requeueing breaks it.

`SchedulerTaskProofs.tla` (callers with one pending wake-up per fiber, pinned or
not, any number of everything):

* `AssertionsHold`, `StacksAreExclusive`: `NoAbort` and `ExclusiveStack`.
  `TaskInv` has three parts. `Waiting`: what is queued, or taken and not yet
  dispatched, can be entered, and no task waits twice. `Rights`: who may wake a
  fiber follows its state. `Stacks`: a fiber is EXEC only on one thread, and a
  kept `cb_fiber` is INIT, without a callback, and of one thread. None is
  inductive without the others: a thread takes an entry without marking the
  fiber, so that only the uniqueness of entries and rights keeps others off.
* `SchedulerIsPool`: `Spec /\ [](habits.disciplined) => ImplementsPool`; the
  habits never change. `BodyInv` adds that a body which is not over is in one
  fiber, so that each step of the scheduler is a step of FiberPool or leaves `On`
  and `Phase` as they are.

`FiberProofs.tla` (any threads and fibers, if only native stacks resume fibers):

* `FlatGetThis`, `FlatContexts`, `FlatDefined`: `GetThis` names the executing
  fiber, no two threads share a stack, no continuation is overwritten and none
  that is gone is loaded. The invariant `FlatInv` says that the main fiber's
  context belongs to the native stack, that every stack that is not executing is
  in its own context, and that a native stack off the processor waits for a fiber
  that its thread executes.
* `FlatNoAbort`: if resumers also store HOLD, no assertion of `fiber.cpp`
  fails. `AssertInv` adds who owes a fiber that store, and that a fiber
  suspended in its body is owned by its own stack.
* `FlatCount`, `FlatTypes`: `sFiberCount` is the number of objects, and so never
  wraps. `ExistInv` adds which owners imply that there is an object. `TypeOK` of
  Fiber is in no run: beyond the types it says what `CountExact` implies.

`ThreadProofs.tla` (any objects): `ThreadHandshake`, `ThreadInLifetime`,
`ThreadReaped`, `ThreadJoined`. `ThreadInv` ties the position of the thread to
the lifetime of the object: before the semaphore is posted the constructor waits
(`Handed`), after it `run()` has its callback and needs the object no more
(`Taken`), and each state of the object says whether the thread was reaped
(`Owned`).

`CfgVarProofs.tla` (any threads, setters, values, listeners and calls):

* `LocksSuffice`: if `Apart`, then `Spec => []NoRace`. The invariant says which
  lock a thread at each position of its call holds, that a writer is alone, and
  that a call of `GetListener` has no other call beside it.
* `TypeCorrect` and `KeysAreFresh` (`ListenersStay`), also without `Apart`:
  `KeyInv` says that there is a key for every `AddListener` under way, and that
  beyond `sFuncId` only `GetListener` has put something.
* `ListenersInStep`: with one setter, `ListenersFollow`. `AheadInv` says what the
  listeners know during the loop and between the two locks.

`FileAppenderProofs.tla` (any threads, messages, buffer and clock, any garbage in
`mLastTime`, any faults): `TimerExact` (`EraseWindow`), `WindowIsKept`
(`WindowKept`), `ReopenIsEnough` (`ReopenRestores`). `TimerInv` says that with one
logger one thread is inside, and what `mLastTime` is at each step; `DueIsLater`
that the unsigned addition wraps only for the initial garbage. `WindowInv` adds
what file and buffer hold together while the stream is good.

`LoggerProofs.tla` (any threads, loggers, appenders, configurations and calls):

* `IteratorsStayValid`, `MessagesAreDelivered`: `CallInv` says which lock each
  call holds at each position, that a list does not change under its walker, and
  that a walk has written or was excused once it is past the first appender.
* `FormattersAreFollowed`: if `Apart`, then `FormattersFollow`. `FollowInv` says
  that an appender to which a logger gave a formatter has the logger's present
  one, unless a `SetFormatter` has yet to reach it (`Follows`, `Ahead`), and that
  an appender's own formatter stays and keeps loggers away (`OwnKept`). It needs that what
  `AddAppender` found out under the appender's lock is still so when it stores the
  logger's formatter (`FreshInv`): the calls on an appender are made by one thread,
  and the listener adds only appenders it makes itself (`Private`, `WorkInv`). The
  calls of the listener come from nested `FlattenSeq`s, about which `FlattenClosed`
  shows, by a minimal counterexample, that all elements keep a property.
* `ConfigurationIsApplied`: `ConfigApplied`. `ApplyInv` says of a setter under way
  that the calls it has yet to make bring every logger that nobody else changes
  from its present state to what the new value says (`Brings`, by a trace of
  states, `Leads`). Between two settings the loggers are what `logs` says. A
  setting begins with all of the listener's calls before it, and these fall into
  words, one for each logger: a word that sets a logger's level brings that
  logger to its define from whatever state it was in, any other leaves it alone
  (`Parts`), which concatenation keeps. A logger that the listener skips is equal
  in the old and the new value. A `SetFormatter` takes several steps;
  `FormatterStored` says that what it has stored stays.

`ConfigProofs.tla` (any threads, programs, documents, conversions and listeners):

* `OneVariablePerName`: `HandlesShared`. `RegInv` says that names and variables
  are in one-to-one correspondence, and that neither a name nor a type changes;
  without it a handle could outlive its registration.
* `LoadsTakeEffect`: `LoadedAsListed`. The threads' places in their programs and
  in the lists of nodes (`TodoInv`, `NodesInv`) say which nodes they are through
  with (`Past`). In every state, not only the last, a variable holds the value of
  the last node for it that some thread is through with (`Holds`). A step is
  through with one node at most, which is then the thread's last one; between
  comparison and assignment, where other threads may assign the variable, the
  value to come is still the present node's (`SettingInv`), and a comparison that
  finds the value already there needs no assignment.

The assumptions are what the code gives: finite sets of threads and fibers, a
clock that starts at 1, distinct names for distinct things, `Order` a sequence of
loggers, callers of Logger that do not use the listener's own appenders, static
LookUps of distinct names, and documents that list at least their root.

Only model-checked: `LoadedAsWritten` beyond `LoadedAsListed` (that is,
`ListAllMember` lists what the documents give to a name), `RoundTrip` and
`ParsesRight`, because they are about recursive operators and would need induction
over documents, values and patterns; and every liveness property, since fairness
is out of the prover's reach.

## Plan

Every safety property of the passing runs that does not rest on a recursive
operator is proved. What could be added to the models is listed below.

## Not modelled

SchedulerSwitcher, a scope that moves a body to another scheduler and back:
`switchTo` is modelled, but two schedulers side by side are out of TLC's reach,
and nothing in the repository uses the class. Memory of stacks (`pStack` is
never freed), names, ids, printing, the format items and backtraces; the Null
lock classes, which do nothing; listeners that call their own variable and
callbacks of `Visit` that register variables, which would wait for a lock of
their own thread and of which the repository has none; the other variables that
share `sFuncId`; conversions of `std::string` elements, whose text `YAML::Load`
may read back as something else; a failing `pthread_join`.
