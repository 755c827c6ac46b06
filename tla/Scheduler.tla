----------------------------- MODULE Scheduler -----------------------------
(***************************************************************************)
(* The N-M fiber scheduler of primo/schedule.{h,cpp}, with the part of     *)
(* primo/fiber.cpp its run loop uses (the fiber's mState, SwapIn, the      *)
(* yields, the end of MainFunc, Reset).                                    *)
(*                                                                         *)
(* Every section the code runs under m_mutex is one action, so the mutex   *)
(* itself is not a variable; everything the code does outside the mutex    *)
(* (changing mState, the two thread counters, m_stopping) is an action of  *)
(* its own, so that it interleaves with the other threads.  tickle() only  *)
(* writes a log line in this class and is left out.                        *)
(*                                                                         *)
(* A fiber made by run() for a callback c (schedule.cpp:197) is named      *)
(* after c: every callback is posted at most once, so the name is fresh.   *)
(*                                                                         *)
(* The operators named Bug... are variants of the definition they precede, *)
(* each with one mistake; the specification does not use them.  A property *)
(* that none of them breaks would say nothing about the code.              *)
(***************************************************************************)
EXTENDS Integers, Sequences, FiniteSets

CONSTANTS
  Workers,       \* thread ids that start() may give to its threads
  Root,          \* the thread that constructs, starts and stops the scheduler
  Setups,        \* <<threads, use_caller, habits>>: the constructor's arguments
                 \* and what its callers may do, see Habits
  ClientFibers,  \* fibers made by the clients, passed to schedule(Fiber::ptr)
  Cbs,           \* callbacks passed to schedule(std::function)
  Pins,          \* thread arguments that callers use
  MaxYields,     \* bound: how often one fiber gives up its thread
  MaxQueue,      \* bound: queue length beyond which clients stop
  None,          \* nullptr
  AnyThread            \* thread == -1

Threads == Workers \cup {Root}
Fibers  == ClientFibers \cup Cbs

\* What callers may do: keep at most one pending wake-up per fiber, or not; call
\* from outside while stop() is under way, or not; call YieldToReady, or not; use
\* some thread arguments.
Habits == [disciplined : BOOLEAN, late : BOOLEAN, ready : BOOLEAN,
           pins : SUBSET Pins]

ASSUME ConstantsAssumption ==
  /\ IsFiniteSet(Workers) /\ Root \notin Workers
  /\ Setups \subseteq (Nat \ {0}) \X BOOLEAN \X Habits   \* P_ASSERT(threads > 0)
  /\ MaxYields \in Nat /\ MaxQueue \in Nat
  /\ ClientFibers \cap Cbs = {}
  /\ None \notin Fibers
  /\ AnyThread \notin Threads /\ Pins \subseteq Threads \cup {AnyThread}

VARIABLES
  use_caller,          \* there is a m_rootFiber
  m_threadCount,       \* threads that start() creates
  m_fibers,            \* the list of FiberAndThread
  m_activeThreadCount,
  m_idleThreadCount,
  m_stopping,
  m_autoStop,
  m_threads,           \* threads created and not yet handed to join
  thrs,                \* stop()'s local: the threads it joins
  opc,                 \* where the owner (Root) is in start()/stop()
  pc,                  \* where each thread is in run()
  ft,                  \* run()'s local FiberAndThread
  cb_fiber,            \* run()'s local cb_fiber
  idle_fiber,          \* mState of run()'s local idle_fiber
  mState,              \* Fiber::mState, "NONE" before the fiber exists
  mCallback,           \* Fiber::mCallback
  aborted,             \* a P_ASSERT failed
  \* What the callers keep track of, not the scheduler:
  habits,              \* what they may do
  late,                \* what was scheduled from outside since stop() began
  posted,              \* callbacks already given to schedule()
  hand,                \* who may wake the fiber, see HandOff
  yields,              \* yields the fiber's body has left
  entries              \* how often each body was entered

ctorVars   == <<use_caller, m_threadCount, habits>>
queueVars  == <<m_fibers, posted, late>>
stopVars   == <<m_stopping, m_autoStop, m_threads, thrs, opc>>
countVars  == <<m_activeThreadCount, m_idleThreadCount>>
fiberVars  == <<mState, mCallback, hand, yields, entries>>
threadVars == <<pc, ft, cb_fiber, idle_fiber>>
vars == <<ctorVars, queueVars, stopVars, countVars, fiberVars, threadVars, aborted>>

State == {"NONE", "INIT", "HOLD", "EXEC", "TERM", "READY", "EXCEPT"}
Dead  == {"TERM", "EXCEPT"}

\* FiberAndThread: a fiber or a callback, and the thread it must run on.
Entry == [fiber : Fibers \cup {None}, cb : Cbs \cup {None},
          thread : Threads \cup {AnyThread}]

\* FiberAndThread() and reset()
NoTask == [fiber |-> None, cb |-> None, thread |-> AnyThread]

FiberEntry(f, p) == [fiber |-> f, cb |-> None, thread |-> p]
CbEntry(c, p)    == [fiber |-> None, cb |-> c, thread |-> p]

IsNull(e) == e.fiber = None /\ e.cb = None

Init ==
  /\ \E c \in Setups :
       /\ use_caller = c[2]
       /\ m_threadCount = c[1] - (IF c[2] THEN 1 ELSE 0)
       /\ habits = c[3]
  /\ m_fibers = <<>>
  /\ m_activeThreadCount = 0
  /\ m_idleThreadCount = 0
  /\ m_stopping = TRUE
  /\ m_autoStop = FALSE
  /\ m_threads = {}
  /\ thrs = {}
  /\ opc = "ready"
  /\ pc = [t \in Threads |-> "unborn"]
  /\ ft = [t \in Threads |-> NoTask]
  /\ cb_fiber = [t \in Threads |-> None]
  /\ idle_fiber = [t \in Threads |-> "INIT"]
  /\ mState = [f \in Fibers |-> IF f \in ClientFibers THEN "INIT" ELSE "NONE"]
  /\ mCallback = [f \in Fibers |-> IF f \in ClientFibers THEN f ELSE None]
  /\ aborted = FALSE
  /\ posted = {} /\ late = {}
  /\ hand = [f \in Fibers |-> IF f \in ClientFibers THEN "armed" ELSE "none"]
  /\ yields = [f \in Fibers |-> MaxYields]
  /\ entries = [f \in Fibers |-> 0]

\* P_ASSERT(X) with X false: assert() ends the process.
Abort == aborted' = TRUE
         /\ UNCHANGED <<queueVars, stopVars, countVars, fiberVars, threadVars>>

----------------------------------------------------------------------------
(* schedule() *)

\* scheduleNoLock: an entry with neither a fiber nor a callback is dropped.
Push(q, e) == IF IsNull(e) THEN q ELSE Append(q, e)

\* What a caller may pass to schedule(): nothing, a callback it has not posted
\* yet, or a fiber that it was given to wake.  An undisciplined caller passes
\* any fiber that exists.
MayPass(e) ==
  /\ e.thread \in habits.pins
  /\ \/ IsNull(e)
     \/ e.fiber = None /\ e.cb \in Cbs \ posted
     \/ /\ e.cb = None /\ e.fiber \in Fibers
        /\ \/ hand[e.fiber] = "armed"
           \/ ~habits.disciplined /\ mState[e.fiber] # "NONE" /\ Len(m_fibers) < MaxQueue

\* The callers' own bookkeeping for what they pass.
Passed(e) ==
  /\ posted' = posted \cup ({e.cb} \ {None})
  /\ hand' = [f \in Fibers |-> IF f = e.fiber THEN "woken" ELSE hand[f]]

Schedule(e) ==
  /\ MayPass(e)
  /\ m_fibers' = Push(m_fibers, e)
  /\ Passed(e)
  /\ UNCHANGED <<stopVars, countVars, mState, mCallback, yields, entries,
                 threadVars, aborted>>

\* Clients outside the scheduler's threads may call while the owner is in
\* stop(): nothing keeps the entry from coming after the last thread has left.
Outside(tasks) ==
  /\ \/ opc \in {"ready", "started"}
     \/ habits.late /\ opc \notin {"destroyed", "undefined"}
  /\ late' = IF opc \in {"ready", "started"} THEN late
             ELSE late \cup (tasks \ {None})

ClientSchedule(e) == Outside({e.fiber, e.cb}) /\ Schedule(e)

\* schedule(begin, end): two entries under one lock, each without a thread.
ScheduleBatch(e1, e2) ==
  /\ e1.thread = AnyThread /\ e2.thread = AnyThread
  /\ e1 # e2 /\ MayPass(e1) /\ MayPass(e2)
  /\ Outside({e1.fiber, e1.cb, e2.fiber, e2.cb})
  /\ m_fibers' = Push(Push(m_fibers, e1), e2)
  /\ posted' = posted \cup ({e1.cb, e2.cb} \ {None})
  /\ hand' = [f \in Fibers |->
                IF f \in {e1.fiber, e2.fiber} THEN "woken" ELSE hand[f]]
  /\ UNCHANGED <<stopVars, countVars, mState, mCallback, yields, entries,
                 threadVars, aborted>>

----------------------------------------------------------------------------
(* start(), stop(), ~Scheduler(), on the owner thread *)

\* BUG: does not ask whether a thread still executes a task.
BugStoppingWhileActive == m_autoStop /\ m_stopping /\ m_fibers = <<>>

\* BUG: tests only that there is no work.
BugStoppingWhenIdle == m_fibers = <<>> /\ m_activeThreadCount = 0

\* stopping(), evaluated under m_mutex
Stopping == /\ m_autoStop /\ m_stopping
            /\ m_fibers = <<>> /\ m_activeThreadCount = 0

\* start() holds m_mutex from the test of m_stopping to the last thread, and
\* the threads it creates cannot take a task before it releases it.
Start(W) ==
  /\ opc = "ready"
  /\ m_stopping
  /\ W \subseteq Workers /\ Cardinality(W) = m_threadCount
  /\ \A t \in W : pc[t] = "unborn"
  /\ IF m_threads # {} THEN Abort
     ELSE /\ m_stopping' = FALSE
          /\ m_threads' = W
          /\ late' = {}
          /\ pc' = [t \in Threads |-> IF t \in W THEN "pick" ELSE pc[t]]
          /\ opc' = "started"
          /\ UNCHANGED <<m_fibers, posted, m_autoStop, thrs, countVars,
                         fiberVars, ft, cb_fiber, idle_fiber, aborted>>

\* stop(), lines 75-79: m_autoStop, and the choice of the path.  The root
\* fiber is still INIT here: once it was called, stop() never returns.
StopBegin ==
  /\ opc \in {"ready", "started"}
  /\ m_autoStop' = TRUE
  /\ opc' = IF use_caller /\ m_threadCount = 0 THEN "stop_early" ELSE "stop_set"
  /\ UNCHANGED <<queueVars, m_stopping, m_threads, thrs, countVars, fiberVars,
                 threadVars, aborted>>

\* lines 81-85
StopEarly ==
  /\ opc = "stop_early"
  /\ m_stopping' = TRUE
  /\ opc' = IF m_autoStop /\ m_fibers = <<>> /\ m_activeThreadCount = 0
            THEN "ready" ELSE "stop_set"
  /\ UNCHANGED <<queueVars, m_autoStop, m_threads, thrs, countVars, fiberVars,
                 threadVars, aborted>>

\* lines 89-102.  The P_ASSERTs of lines 89-93 want stop() on the constructing
\* thread with use_caller, and otherwise on none of the scheduler's own threads:
\* they hold for Root, which makes every call of stop() here, and are left out.
StopSet ==
  /\ opc = "stop_set"
  /\ m_stopping' = TRUE
  /\ opc' = IF use_caller THEN "stop_call" ELSE "stop_swap"
  /\ UNCHANGED <<queueVars, m_autoStop, m_threads, thrs, countVars, fiberVars,
                 threadVars, aborted>>

\* lines 114-116: m_rootFiber->Call() enters run() on the owner thread
StopCall ==
  /\ opc = "stop_call"
  /\ IF Stopping
     THEN opc' = "stop_swap" /\ UNCHANGED pc
     ELSE opc' = "in_root" /\ pc' = [pc EXCEPT ![Root] = "pick"]
  /\ UNCHANGED <<queueVars, m_stopping, m_autoStop, m_threads, thrs, countVars,
                 fiberVars, ft, cb_fiber, idle_fiber, aborted>>

\* The root fiber ends and Back() loads the context of t_threadFiber.  Every
\* SwapIn of run() on this thread saved its own position there (module Fiber),
\* so the frame it resumes is one of the run() that has just returned.
RootBack ==
  /\ opc = "in_root" /\ pc[Root] = "exited"
  /\ opc' = "undefined"
  /\ UNCHANGED <<queueVars, m_stopping, m_autoStop, m_threads, thrs, countVars,
                 fiberVars, threadVars, aborted>>

\* lines 119-123
StopSwap ==
  /\ opc = "stop_swap"
  /\ thrs' = m_threads
  /\ m_threads' = {}
  /\ opc' = "stop_join"
  /\ UNCHANGED <<queueVars, m_stopping, m_autoStop, countVars, fiberVars,
                 threadVars, aborted>>

\* BUG: detaches the threads.
BugJoinNobody == TRUE

\* join() has returned for every thread that start() created.
Joined == \A t \in thrs : pc[t] = "exited"

\* lines 125-127
StopJoin ==
  /\ opc = "stop_join"
  /\ Joined
  /\ thrs' = {}
  /\ opc' = "ready"
  /\ UNCHANGED <<queueVars, m_stopping, m_autoStop, m_threads, countVars,
                 fiberVars, threadVars, aborted>>

\* ~Scheduler().  The owner destroys a scheduler that it has not started or has
\* stopped, so the assertion on m_stopping (line 37) cannot fail here: destroying
\* a running scheduler is not a call that the model's owner makes.
Destroy ==
  /\ opc = "ready"
  /\ IF ~m_stopping THEN Abort
     ELSE /\ opc' = "destroyed"
          /\ UNCHANGED <<queueVars, m_stopping, m_autoStop, m_threads, thrs,
                         countVars, fiberVars, threadVars, aborted>>

----------------------------------------------------------------------------
(* run(), on thread t *)

\* BUG: does not look at the state of the fiber.
BugTakesExecuting(t, e) == e.thread \in {AnyThread, t}

\* The scan stops at entry e: it may run here and its fiber is not executing.
Takes(t, e) ==
  /\ e.thread \in {AnyThread, t}
  /\ e.fiber # None => mState[e.fiber] # "EXEC"

\* The position at which thread t's scan of m_fibers stops, 0 for end().
FirstFor(t) ==
  IF \E i \in DOMAIN m_fibers : Takes(t, m_fibers[i])
  THEN CHOOSE i \in DOMAIN m_fibers :
         /\ Takes(t, m_fibers[i])
         /\ \A j \in DOMAIN m_fibers : j < i => ~Takes(t, m_fibers[j])
  ELSE 0

\* BUG: copies the entry and leaves it in the list.
BugEraseNothing(q, i) == q

\* m_fibers.erase(it)
Erase(q, i) == [j \in 1..(Len(q) - 1) |-> IF j < i THEN q[j] ELSE q[j + 1]]

\* lines 149-175, under m_mutex
Pick(t) ==
  LET i == FirstFor(t) IN
  /\ pc[t] = "pick"
  /\ IF i # 0 /\ IsNull(m_fibers[i]) THEN Abort
     ELSE /\ ft' = [ft EXCEPT ![t] = IF i = 0 THEN NoTask ELSE m_fibers[i]]
          /\ m_fibers' = IF i = 0 THEN m_fibers ELSE Erase(m_fibers, i)
          /\ m_activeThreadCount' = m_activeThreadCount + IF i = 0 THEN 0 ELSE 1
          /\ pc' = [pc EXCEPT ![t] = "dispatch"]
          /\ UNCHANGED <<posted, late, stopVars, m_idleThreadCount, fiberVars,
                         cb_fiber, idle_fiber, aborted>>

\* The fiber that SwapIn resumed from the run() of thread t.
Cur(t) == IF ft[t].fiber # None THEN ft[t].fiber ELSE cb_fiber[t]

\* Fiber::SwapIn of fiber f, whose callback is b and whose mState is s: the body
\* is entered when the fiber is INIT, else it continues.  hand: see HandOff.
Enter(f, b, s) ==
  /\ mState' = [mState EXCEPT ![f] = "EXEC"]
  /\ mCallback' = [mCallback EXCEPT ![f] = b]
  /\ hand' = [hand EXCEPT ![f] = "none"]
  /\ entries' = [g \in Fibers |->
                   IF s = "INIT" /\ g = b THEN entries[g] + 1 ELSE entries[g]]
  /\ UNCHANGED yields

\* lines 181-183: a live fiber is resumed; SwapIn asserts mState != EXEC
DispatchFiber(t) ==
  LET f == ft[t].fiber IN
  /\ pc[t] = "dispatch"
  /\ f # None /\ mState[f] \notin Dead
  /\ IF mState[f] = "EXEC" THEN Abort
     ELSE /\ Enter(f, mCallback[f], mState[f])
          /\ pc' = [pc EXCEPT ![t] = "exec"]
          /\ UNCHANGED <<queueVars, stopVars, countVars, ft, cb_fiber,
                         idle_fiber, aborted>>

\* lines 193-200: a callback runs in this thread's cb_fiber, which is Reset, or
\* in a new fiber; Reset asserts that the old body is over
DispatchCb(t) ==
  LET c == ft[t].cb
      f == IF cb_fiber[t] # None THEN cb_fiber[t] ELSE c
  IN
  /\ pc[t] = "dispatch"
  /\ ft[t].fiber = None /\ c # None
  /\ IF cb_fiber[t] # None /\ mState[f] \notin Dead \cup {"INIT"} THEN Abort
     ELSE /\ Enter(f, c, "INIT")
          /\ ft' = [ft EXCEPT ![t] = NoTask]
          /\ cb_fiber' = [cb_fiber EXCEPT ![t] = f]
          /\ pc' = [pc EXCEPT ![t] = "exec"]
          /\ UNCHANGED <<m_fibers, posted, late, stopVars, countVars, idle_fiber,
                         aborted>>

\* lines 213-216: the fiber that was taken has ended already
SkipDead(t) ==
  /\ pc[t] = "dispatch"
  /\ ft[t].fiber # None /\ mState[ft[t].fiber] \in Dead
  /\ m_activeThreadCount' = m_activeThreadCount - 1
  /\ ft' = [ft EXCEPT ![t] = NoTask]
  /\ pc' = [pc EXCEPT ![t] = "pick"]
  /\ UNCHANGED <<queueVars, stopVars, m_idleThreadCount, fiberVars, cb_fiber,
                 idle_fiber, aborted>>

\* lines 217-220: nothing to do and the idle fiber has ended
RunExit(t) ==
  /\ pc[t] = "dispatch" /\ IsNull(ft[t]) /\ idle_fiber[t] = "TERM"
  /\ pc' = [pc EXCEPT ![t] = "exited"]
  /\ UNCHANGED <<queueVars, stopVars, countVars, fiberVars, ft, cb_fiber,
                 idle_fiber, aborted>>

\* BUG: enters idle() without the increment.
BugIdleInUncounted(t) ==
  /\ pc[t] = "dispatch" /\ IsNull(ft[t]) /\ idle_fiber[t] # "TERM"
  /\ idle_fiber' = [idle_fiber EXCEPT ![t] = "EXEC"]
  /\ pc' = [pc EXCEPT ![t] = "idle"]
  /\ UNCHANGED <<queueVars, stopVars, countVars, fiberVars, ft, cb_fiber,
                 aborted>>

\* lines 222-223
IdleIn(t) ==
  /\ pc[t] = "dispatch" /\ IsNull(ft[t]) /\ idle_fiber[t] # "TERM"
  /\ m_idleThreadCount' = m_idleThreadCount + 1
  /\ idle_fiber' = [idle_fiber EXCEPT ![t] = "EXEC"]
  /\ pc' = [pc EXCEPT ![t] = "idle"]
  /\ UNCHANGED <<queueVars, stopVars, m_activeThreadCount, fiberVars, ft,
                 cb_fiber, aborted>>

\* idle(): one test of stopping(), then YieldToHold or the end of the fiber
Idle(t) ==
  /\ pc[t] = "idle"
  /\ idle_fiber' = [idle_fiber EXCEPT ![t] = IF Stopping THEN "TERM" ELSE @]
  /\ pc' = [pc EXCEPT ![t] = "idle_ret"]
  /\ UNCHANGED <<queueVars, stopVars, countVars, fiberVars, ft, cb_fiber,
                 aborted>>

\* BUG: leaves the state as SwapOut found it.
BugSettledExec(s) == s

\* The mState that run() leaves a fiber with once it has given up the thread:
\* one that ended or asked to be READY keeps its state, the others are held.
Settled(s) == IF s \in Dead \cup {"READY"} THEN s ELSE "HOLD"

\* lines 224-228
IdleReturned(t) ==
  /\ pc[t] = "idle_ret"
  /\ m_idleThreadCount' = m_idleThreadCount - 1
  /\ idle_fiber' = [idle_fiber EXCEPT ![t] = Settled(@)]
  /\ pc' = [pc EXCEPT ![t] = "pick"]
  /\ UNCHANGED <<queueVars, stopVars, m_activeThreadCount, fiberVars, ft,
                 cb_fiber, aborted>>

\* BUG: forgets the decrement.
BugReturnedUncounted(t) ==
  /\ pc[t] = "ret"
  /\ pc' = [pc EXCEPT ![t] = "post"]
  /\ UNCHANGED <<queueVars, stopVars, countVars, fiberVars, ft, cb_fiber,
                 idle_fiber, aborted>>

\* lines 184 and 201: SwapIn has returned
Returned(t) ==
  /\ pc[t] = "ret"
  /\ m_activeThreadCount' = m_activeThreadCount - 1
  /\ pc' = [pc EXCEPT ![t] = "post"]
  /\ UNCHANGED <<queueVars, stopVars, m_idleThreadCount, fiberVars, ft,
                 cb_fiber, idle_fiber, aborted>>

\* lines 186-192: what becomes of a fiber that gave up the thread; a READY one
\* may continue on any thread, wherever it was pinned
AfterFiber(t) ==
  LET f == ft[t].fiber IN
  /\ pc[t] = "post" /\ f # None
  /\ m_fibers' = IF mState[f] = "READY"
                 THEN Push(m_fibers, FiberEntry(f, AnyThread)) ELSE m_fibers
  /\ mState' = [mState EXCEPT ![f] = Settled(@)]
  /\ ft' = [ft EXCEPT ![t] = NoTask]
  /\ pc' = [pc EXCEPT ![t] = "pick"]
  /\ UNCHANGED <<posted, late, stopVars, countVars, mCallback, hand, yields,
                 entries, cb_fiber, idle_fiber, aborted>>

\* lines 202-211: the same for cb_fiber, which is kept only if its body ended
AfterCb(t) ==
  LET f == cb_fiber[t] IN
  /\ pc[t] = "post" /\ ft[t].fiber = None
  /\ m_fibers' = IF mState[f] = "READY"
                 THEN Push(m_fibers, FiberEntry(f, AnyThread)) ELSE m_fibers
  /\ mState' = [mState EXCEPT ![f] = IF @ \in Dead THEN "INIT" ELSE Settled(@)]
  /\ mCallback' = [mCallback EXCEPT ![f] =
                     IF mState[f] \in Dead THEN None ELSE @]
  /\ cb_fiber' = [cb_fiber EXCEPT ![t] = IF mState[f] \in Dead THEN @ ELSE None]
  /\ pc' = [pc EXCEPT ![t] = "pick"]
  /\ UNCHANGED <<posted, late, stopVars, countVars, hand, yields, entries, ft,
                 idle_fiber, aborted>>

----------------------------------------------------------------------------
(* The body of the fiber that thread t executes *)

\* A disciplined body that has handed out the right to wake it, or that has put
\* itself into the queue, does nothing but YieldToHold.
Free(f) == hand[f] = "none" \/ ~habits.disciplined

\* The body gives Fiber::GetThis() to somebody who will schedule() it once.
HandOff(t) ==
  LET f == Cur(t) IN
  /\ pc[t] = "exec" /\ mCallback[f] # None
  /\ hand[f] = "none" /\ yields[f] > 0
  /\ hand' = [hand EXCEPT ![f] = "armed"]
  /\ yields' = [yields EXCEPT ![f] = @ - 1]
  /\ UNCHANGED <<queueVars, stopVars, countVars, mState, mCallback, entries,
                 threadVars, aborted>>

\* The body schedules something itself.
BodySchedule(t, e) ==
  pc[t] = "exec" /\ Free(Cur(t)) /\ Schedule(e) /\ UNCHANGED late

\* switchTo(p) up to its YieldToHold; it returns at once for p = -1 or p = t
SwitchTo(t, p) ==
  LET f == Cur(t) IN
  /\ pc[t] = "exec" /\ mCallback[f] # None
  /\ p \in habits.pins \ {AnyThread, t}
  /\ Free(f) /\ yields[f] > 0
  /\ m_fibers' = Push(m_fibers, FiberEntry(f, p))
  /\ hand' = [hand EXCEPT ![f] = "woken"]
  /\ yields' = [yields EXCEPT ![f] = @ - 1]
  /\ UNCHANGED <<posted, late, stopVars, countVars, mState, mCallback, entries,
                 threadVars, aborted>>

\* YieldToReady: READY is stored before the context is saved
YieldToReady(t) ==
  LET f == Cur(t) IN
  /\ pc[t] = "exec" /\ mCallback[f] # None
  /\ habits.ready /\ Free(f) /\ yields[f] > 0
  /\ IF mState[f] # "EXEC" THEN Abort
     ELSE /\ mState' = [mState EXCEPT ![f] = "READY"]
          /\ yields' = [yields EXCEPT ![f] = @ - 1]
          /\ pc' = [pc EXCEPT ![t] = "swapout"]
          /\ UNCHANGED <<queueVars, stopVars, countVars, mCallback, hand,
                         entries, ft, cb_fiber, idle_fiber, aborted>>

\* BUG: stores HOLD before the context is saved (the line commented out there).
BugYieldToHoldEarly(t) ==
  LET f == Cur(t) IN
  /\ pc[t] = "exec" /\ mCallback[f] # None
  /\ hand[f] # "none"
  /\ mState' = [mState EXCEPT ![f] = "HOLD"]
  /\ pc' = [pc EXCEPT ![t] = "swapout"]
  /\ UNCHANGED <<queueVars, stopVars, countVars, mCallback, hand, yields,
                 entries, ft, cb_fiber, idle_fiber, aborted>>

\* YieldToHold leaves mState at EXEC: run() stores HOLD
YieldToHold(t) ==
  LET f == Cur(t) IN
  /\ pc[t] = "exec" /\ mCallback[f] # None
  /\ hand[f] # "none"
  /\ IF mState[f] # "EXEC" THEN Abort
     ELSE /\ pc' = [pc EXCEPT ![t] = "swapout"]
          /\ UNCHANGED <<queueVars, stopVars, countVars, fiberVars, ft,
                         cb_fiber, idle_fiber, aborted>>

\* MainFunc: the callback returns
BodyReturns(t) ==
  LET f == Cur(t) IN
  /\ pc[t] = "exec" /\ mCallback[f] # None /\ Free(f)
  /\ mCallback' = [mCallback EXCEPT ![f] = None]
  /\ mState' = [mState EXCEPT ![f] = "TERM"]
  /\ pc' = [pc EXCEPT ![t] = "swapout"]
  /\ UNCHANGED <<queueVars, stopVars, countVars, hand, yields, entries, ft,
                 cb_fiber, idle_fiber, aborted>>

\* MainFunc: the callback throws, as an empty std::function does
BodyThrows(t) ==
  LET f == Cur(t) IN
  /\ pc[t] = "exec" /\ (Free(f) \/ mCallback[f] = None)
  /\ mState' = [mState EXCEPT ![f] = "EXCEPT"]
  /\ pc' = [pc EXCEPT ![t] = "swapout"]
  /\ UNCHANGED <<queueVars, stopVars, countVars, mCallback, hand, yields,
                 entries, ft, cb_fiber, idle_fiber, aborted>>

\* SwapOut: the context is saved and run() continues
SwapOut(t) ==
  /\ pc[t] = "swapout"
  /\ pc' = [pc EXCEPT ![t] = "ret"]
  /\ UNCHANGED <<queueVars, stopVars, countVars, fiberVars, ft, cb_fiber,
                 idle_fiber, aborted>>

----------------------------------------------------------------------------
\* The calls that callers make: no task, a callback, a fiber, with a thread.
Calls == {NoTask} \cup {CbEntry(c, p) : c \in Cbs, p \in Pins}
                  \cup {FiberEntry(f, p) : f \in Fibers, p \in Pins}

Owner == \/ \E W \in SUBSET Workers : Start(W)
         \/ StopBegin \/ StopEarly \/ StopSet \/ StopCall \/ RootBack
         \/ StopSwap \/ StopJoin \/ Destroy

Client == \/ \E e \in Calls : ClientSchedule(e)
          \/ \E e1, e2 \in Calls : ScheduleBatch(e1, e2)

Run(t) == \/ Pick(t) \/ DispatchFiber(t) \/ DispatchCb(t) \/ SkipDead(t)
          \/ RunExit(t) \/ IdleIn(t) \/ Idle(t) \/ IdleReturned(t)
          \/ Returned(t) \/ AfterFiber(t) \/ AfterCb(t)

\* Steps of a body that give the thread back, and SwapOut itself.
BodyLeaves(t) == \/ YieldToReady(t) \/ YieldToHold(t)
                 \/ BodyReturns(t) \/ BodyThrows(t) \/ SwapOut(t)

BodyStays(t) == \/ HandOff(t)
                \/ \E e \in Calls : BodySchedule(t, e)
                \/ \E p \in Pins : SwitchTo(t, p)

\* A failed assertion has ended the process; only the constructor sets the
\* variables of ctorVars.
Live(step) == ~aborted /\ UNCHANGED ctorVars /\ step

Next == \/ Live(Owner)
        \/ Live(Client)
        \/ \E t \in Threads : Live(Run(t) \/ BodyLeaves(t) \/ BodyStays(t))

Spec == Init /\ [][Next]_vars

\* Every created thread keeps running, gets m_mutex in the end, and runs bodies
\* that give the thread back; stop() goes on once it was called.  Nobody has to
\* call anything.
StopSteps == StopEarly \/ StopSet \/ StopCall \/ RootBack \/ StopSwap \/ StopJoin

FairSpec == /\ Spec
            /\ \A t \in Threads : WF_vars(Live(Run(t) \/ BodyLeaves(t)))
            /\ WF_vars(Live(StopSteps))

----------------------------------------------------------------------------
(* Properties *)

Pc == {"unborn", "pick", "dispatch", "exec", "swapout", "ret", "post", "idle",
       "idle_ret", "exited"}

OwnerPc == {"ready", "started", "stop_early", "stop_set", "stop_call",
            "in_root", "stop_swap", "stop_join", "undefined", "destroyed"}

\* Every variable of the scheduler, of its threads and of its fibers has its
\* type; in particular the size_t counters never go below zero.
TypeOK ==
  /\ use_caller \in BOOLEAN /\ m_threadCount \in Nat
  /\ m_fibers \in Seq(Entry)
  /\ m_activeThreadCount \in Nat /\ m_idleThreadCount \in Nat
  /\ m_stopping \in BOOLEAN /\ m_autoStop \in BOOLEAN
  /\ m_threads \subseteq Workers /\ thrs \subseteq Workers
  /\ opc \in OwnerPc
  /\ pc \in [Threads -> Pc]
  /\ ft \in [Threads -> Entry]
  /\ cb_fiber \in [Threads -> Fibers \cup {None}]
  /\ idle_fiber \in [Threads -> State]
  /\ mState \in [Fibers -> State]
  /\ mCallback \in [Fibers -> Fibers \cup {None}]
  /\ aborted \in BOOLEAN
  /\ posted \subseteq Cbs /\ late \subseteq Fibers
  /\ habits \in Habits
  /\ hand \in [Fibers -> {"none", "armed", "woken"}]
  /\ yields \in [Fibers -> Nat]
  /\ entries \in [Fibers -> Nat]

\* No P_ASSERT of the run loop, of SwapIn, of the yields, of Reset, of start()
\* or of the destructor fails.
NoAbort == ~aborted

\* Threads on the stack of a fiber: from SwapIn until SwapOut has saved it.
OnStack(t) == pc[t] \in {"exec", "swapout"}

\* No two threads ever execute on the stack of one fiber, even while a wake-up
\* arrives between a fiber's decision to yield and its swapcontext.
ExclusiveStack ==
  \A t, u \in Threads : t # u /\ OnStack(t) /\ OnStack(u) => Cur(t) # Cur(u)

\* Thread t counts as active: it has taken a task and not yet decremented.
Active(t) == \/ pc[t] \in {"exec", "swapout", "ret"}
             \/ pc[t] = "dispatch" /\ ~IsNull(ft[t])

\* The two counters are exact: m_activeThreadCount is the number of threads
\* between taking a task and the decrement, m_idleThreadCount the number inside
\* idle().  stopping() relies on the first, and neither size_t ever wraps.
CountsExact ==
  /\ m_activeThreadCount = Cardinality({t \in Threads : Active(t)})
  /\ m_idleThreadCount =
       Cardinality({t \in Threads : pc[t] \in {"idle", "idle_ret"}})

\* When join() has seen the last thread end, every callback that was posted
\* before stop() began, or by a body at any time, has been started exactly once,
\* and what is left in the queue came from outside during stop().
NothingLeft ==
  opc = "stop_join" /\ thrs # {} /\ Joined =>
    /\ \A i \in DOMAIN m_fibers : {m_fibers[i].fiber, m_fibers[i].cb} \cap late # {}
    /\ \A c \in posted \ late : entries[c] = 1

\* Without pinned tasks nothing is left behind: the last thread out drains what
\* the others leave, whatever arrives from outside meanwhile (schedule.h:73).
Drained == habits.pins \subseteq {AnyThread} => NothingLeft

\* With pinned tasks nothing is left behind either, as long as nobody schedules
\* from outside during stop() and no body calls YieldToReady: stopping(), once
\* true, then stays true, so no task can appear for a thread that has left.  (A
\* READY fiber is on its way back into the queue while no thread counts as
\* active, schedule.cpp:184-187: it may still pin tasks to a thread that is gone.)
PinnedDrained == ~habits.late /\ ~habits.ready => NothingLeft

\* After the destructor no thread can touch a member of the scheduler.
DestroySafe ==
  opc = "destroyed" => \A t \in Threads : pc[t] \in {"unborn", "exited"}

\* stop() returns (schedule.h:59).
InStop == opc \in {"stop_early", "stop_set", "stop_call", "in_root", "stop_swap",
                   "stop_join", "undefined"}
StopReturns == InStop ~> opc = "ready"

\* A callback in the queue of a started scheduler is started.
CallbacksRun ==
  \A c \in Cbs : (c \in posted /\ opc = "started") ~> (entries[c] = 1)

\* No lost wake-up: a fiber that was passed to schedule() while the scheduler
\* runs is resumed, also when the call came before its YieldToHold.
WakeUpsArrive ==
  \A f \in Fibers : (hand[f] = "woken" /\ opc = "started") ~> (hand[f] = "none")
----------------------------------------------------------------------------
(* The scheduler implements FiberPool *)

\* The threads on which body b is: in its fiber, before its end.
On(b) == {t \in Threads : /\ OnStack(t) /\ mCallback[Cur(t)] = b
                          /\ mState[Cur(t)] \notin Dead}

Phase(b) == IF entries[b] = 0 THEN "new"
            ELSE IF \E f \in Fibers : mCallback[f] = b /\ mState[f] \notin Dead
            THEN "live" ELSE "ended"

Pool == INSTANCE FiberPool WITH
  Bodies <- Fibers,
  up     <- opc \notin {"ready", "destroyed"},
  phase  <- [b \in Fibers |-> Phase(b)],
  on     <- [b \in Fibers |-> On(b)]

\* Whatever the queue, the states and the counters do, the bodies see a pool:
\* begun once, never on two threads, never resumed after their end, and on no
\* thread when stop() has returned.
ImplementsPool == Pool!Spec
=============================================================================
