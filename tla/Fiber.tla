------------------------------- MODULE Fiber -------------------------------
(***************************************************************************)
(* primo/fiber.{h,cpp}: stackful coroutines on ucontext.                   *)
(*                                                                         *)
(* A fiber object x owns one ucontext_t, mContex[x], and one stack, also   *)
(* called x.  The main fiber of thread t, made by GetThis(), is called t   *)
(* and its stack is the thread's native one.  What swapcontext stores is   *)
(* abstracted to the stack whose continuation it is; live[s] says where    *)
(* the one usable continuation of stack s is: "running", in the ucontext   *)
(* of an object, or "lost" when that ucontext was overwritten.  Loading a  *)
(* ucontext whose continuation was resumed since continues frames that no  *)
(* longer exist: undefined is set and the model stops.                     *)
(*                                                                         *)
(* The stacks never overlap, swapcontext does not fail, and a thread_local *)
(* is read anew by every function, also after a fiber changed thread.      *)
(***************************************************************************)
EXTENDS Integers, FiniteSets

CONSTANTS
  Threads,  \* threads; t is also the name of t's main fiber
  Fibers,   \* names for the fibers made with a callback
  Nested,   \* bodies resume other fibers, as run() does inside m_rootFiber
  RunLoop,  \* resumers store HOLD when SwapIn returns, as run() does
  MaxMade,  \* bound: how often one name is used by New and Reset
  None      \* nullptr

Objects == Threads \cup Fibers

ASSUME ConstantsAssumption ==
  /\ IsFiniteSet(Threads) /\ IsFiniteSet(Fibers)
  /\ Threads \cap Fibers = {} /\ None \notin Objects
  /\ Nested \in BOOLEAN /\ RunLoop \in BOOLEAN /\ MaxMade \in Nat
  /\ {"running", "lost"} \cap Objects = {}

VARIABLES
  t_fiber,       \* thread_local Fiber* t_fiber
  t_threadFiber, \* thread_local Fiber::ptr t_threadFiber
  cpu,           \* the stack each thread executes on
  mContex,       \* the stack a ucontext_t continues
  live,          \* where the continuation of a stack is
  mState,        \* "NONE" while no object has this name
  mCallback,     \* is there a callback?
  entry,         \* the function makecontext stored
  refs,          \* owners of shared_ptrs: "caller", and "cur" of MainFunc
  due,           \* the fiber whose SwapIn has to return to this stack
  made,          \* how often the name was used
  sFiberCount,
  aborted,       \* a P_ASSERT failed
  undefined      \* memory was used after its lifetime

objVars    == <<mState, mCallback, entry, refs, made, sFiberCount>>
switchVars == <<t_fiber, t_threadFiber, cpu, mContex, live, due>>
vars == <<objVars, switchVars, aborted, undefined>>

State   == {"NONE", "INIT", "HOLD", "EXEC", "TERM", "READY", "EXCEPT"}
Dead    == {"TERM", "EXCEPT"}
Entries == {"MainFunc", "CallerMainFunc"}

Init ==
  /\ t_fiber = [t \in Threads |-> None]
  /\ t_threadFiber = [t \in Threads |-> None]
  /\ cpu = [t \in Threads |-> t]
  /\ mContex = [x \in Objects |-> x]
  /\ live = [s \in Objects |-> IF s \in Threads THEN "running" ELSE s]
  /\ mState = [x \in Objects |-> "NONE"]
  /\ mCallback = [f \in Fibers |-> FALSE]
  /\ entry = [f \in Fibers |-> "MainFunc"]
  /\ refs = [f \in Fibers |-> {}]
  /\ due = [s \in Objects |-> None]
  /\ made = [f \in Fibers |-> 0]
  /\ sFiberCount = 0
  /\ aborted = FALSE /\ undefined = FALSE

Abort == aborted' = TRUE /\ UNCHANGED <<objVars, switchVars, undefined>>

\* The stack that thread t is on is not inside a SwapIn that run() still has to
\* account for.
AtWork(t) == due[cpu[t]] = None

\* Resumers are the native stacks, and bodies when Nested.
MayResume(t) == AtWork(t) /\ (Nested \/ cpu[t] = t)

\* A resumer may use f: callers own it, no thread executes it and no run() is
\* between its SwapIn and the store that follows.
Has(t, f) == /\ MayResume(t)
             /\ "caller" \in refs[f]
             /\ \A u \in Threads : cpu[u] # f
             /\ \A s \in Objects : due[s] # f

----------------------------------------------------------------------------
(* Objects *)

\* GetThis() on a thread without a fiber, with the constructor Fiber()
MakeMainFiber(t) ==
  /\ t_fiber[t] = None
  /\ t_fiber' = [t_fiber EXCEPT ![t] = t]
  /\ t_threadFiber' = [t_threadFiber EXCEPT ![t] = t]
  /\ mState' = [mState EXCEPT ![t] = "EXEC"]
  /\ sFiberCount' = sFiberCount + 1
  /\ UNCHANGED <<mCallback, entry, refs, made, cpu, mContex, live, due, aborted,
                 undefined>>

\* ++sFiberCount in Fiber(cb, ...)
CtorCount == sFiberCount + 1

\* BUG: the destructor does not count.
BugDtorUncounted == sFiberCount

\* --sFiberCount in ~Fiber()
DtorCount == sFiberCount - 1

\* Fiber(cb, stacksize, usecaller).  Line 60 tests the member use_caller, which
\* nothing has initialised, so makecontext gets one of the two functions.
New(t, f) ==
  /\ MayResume(t)
  /\ mState[f] = "NONE" /\ refs[f] = {} /\ made[f] < MaxMade
  /\ \E e \in Entries : entry' = [entry EXCEPT ![f] = e]
  /\ mState' = [mState EXCEPT ![f] = "INIT"]
  /\ mCallback' = [mCallback EXCEPT ![f] = TRUE]
  /\ refs' = [refs EXCEPT ![f] = {"caller"}]
  /\ mContex' = [mContex EXCEPT ![f] = f]
  /\ live' = [live EXCEPT ![f] = f]
  /\ made' = [made EXCEPT ![f] = @ + 1]
  /\ sFiberCount' = CtorCount
  /\ UNCHANGED <<t_fiber, t_threadFiber, cpu, due, aborted, undefined>>

\* Reset(cb): the callers reset only fibers whose body is over or not begun, so
\* that the assertion of line 114 is a guard here (Scheduler's DispatchCb has it
\* as an assertion), and give them a callback: Reset(nullptr), which run() uses on
\* its own cb_fiber, is part of Scheduler's AfterCb.
Reset(t, f) ==
  /\ Has(t, f)
  /\ mState[f] \in Dead \cup {"INIT"} /\ made[f] < MaxMade
  /\ mState' = [mState EXCEPT ![f] = "INIT"]
  /\ mCallback' = [mCallback EXCEPT ![f] = TRUE]
  /\ entry' = [entry EXCEPT ![f] = "MainFunc"]
  /\ mContex' = [mContex EXCEPT ![f] = f]
  /\ live' = [live EXCEPT ![f] = f]
  /\ made' = [made EXCEPT ![f] = @ + 1]
  /\ UNCHANGED <<refs, sFiberCount, t_fiber, t_threadFiber, cpu, due, aborted,
                 undefined>>

\* BUG: MainFunc keeps only a raw pointer while the callback runs.
BugCurRefs == {}

\* The shared_ptr cur that MainFunc keeps on the fiber's stack while the
\* callback runs, also while it is suspended.
CurRefs == {"cur"}

\* The last owner outside the fiber lets go of it, and ~Fiber() runs unless the
\* fiber is suspended in its body and so owned by its own stack; ~Fiber()
\* asserts that the body is over or was never entered.  Who lets go is somebody
\* that has the fiber and does not execute it: the resumer keeps the fiber that it
\* resumed, as run() does in ft and cb_fiber, so the raw pointer with which
\* MainFunc switches for the last time (lines 251-253) is always to an object.
Drop(t, f) ==
  /\ Has(t, f)
  /\ IF refs[f] = {"caller"} /\ mState[f] \notin Dead \cup {"INIT"} THEN Abort
     ELSE LET gone == refs[f] = {"caller"} IN
          /\ refs' = [refs EXCEPT ![f] = @ \ {"caller"}]
          /\ mState' = [mState EXCEPT ![f] = IF gone THEN "NONE" ELSE @]
          /\ sFiberCount' = IF gone THEN DtorCount ELSE sFiberCount
          /\ UNCHANGED <<mCallback, entry, made, switchVars, aborted, undefined>>

\* The end of thread t destroys its t_threadFiber.  ~Fiber() asserts that a
\* fiber without a stack of its own is EXEC.
DestroyMainFiber(t) ==
  /\ MayResume(t) /\ cpu[t] = t /\ t_threadFiber[t] # None
  /\ IF mState[t_threadFiber[t]] # "EXEC" THEN Abort
     ELSE /\ t_fiber' = [t_fiber EXCEPT ![t] = IF @ = t_threadFiber[t] THEN None ELSE @]
          /\ t_threadFiber' = [t_threadFiber EXCEPT ![t] = None]
          /\ mState' = [mState EXCEPT ![t_threadFiber[t]] = "NONE"]
          /\ sFiberCount' = DtorCount
          /\ UNCHANGED <<mCallback, entry, refs, made, cpu, mContex, live, due,
                         aborted, undefined>>

----------------------------------------------------------------------------
(* Switching *)

\* swapcontext(&a->mContex, &b->mContex) on thread t
Swapcontext(t, a, b) ==
  LET s     == cpu[t]
      saved == [mContex EXCEPT ![a] = s]
      r     == saved[b]
      kept  == [q \in Objects |-> IF q = s THEN a
                                  ELSE IF live[q] = a THEN "lost" ELSE live[q]]
  IN  /\ mContex' = saved
      /\ cpu' = [cpu EXCEPT ![t] = r]
      /\ live' = [kept EXCEPT ![r] = "running"]
      /\ undefined' = (kept[r] # b)

\* Whom a resumer may switch to, after GetThis() has made its main fiber: a
\* fiber with a body to execute that does not itself wait for another one.
Resumable(t, f) ==
  /\ Has(t, f) /\ t_threadFiber[t] # None
  /\ mState[f] \notin Dead /\ mCallback[f]
  /\ due[f] = None

\* The first instruction on a fresh stack is MainFunc's "cur = GetThis()".
Resume(t, f) ==
  /\ t_fiber' = [t_fiber EXCEPT ![t] = f]
  /\ mState' = [mState EXCEPT ![f] = "EXEC"]
  /\ refs' = [refs EXCEPT ![f] = IF mState[f] = "INIT" THEN @ \cup CurRefs ELSE @]
  /\ due' = [due EXCEPT ![cpu[t]] = IF RunLoop THEN f ELSE None]
  /\ Swapcontext(t, t_threadFiber[t], f)
  /\ UNCHANGED <<mCallback, entry, made, sFiberCount, t_threadFiber, aborted>>

SwapIn(t, f) ==
  /\ Resumable(t, f)
  /\ IF mState[f] = "EXEC" THEN Abort ELSE Resume(t, f)

\* Call() is SwapIn without the assertion; stop(), its one caller, calls a fresh
\* fiber.  With RunLoop the caller stores HOLD afterwards like run(), which stop()
\* does not: its fiber ends instead of yielding, and an ended fiber is left alone.
Call(t, f) == Resumable(t, f) /\ mState[f] = "INIT" /\ Resume(t, f)

\* What run() does once SwapIn has returned to its stack.
Settle(t) ==
  LET f == due[cpu[t]] IN
  /\ f # None
  /\ mState' = [mState EXCEPT ![f] = IF @ \in Dead \cup {"READY"} THEN @ ELSE "HOLD"]
  /\ due' = [due EXCEPT ![cpu[t]] = None]
  /\ UNCHANGED <<mCallback, entry, refs, made, sFiberCount, t_fiber,
                 t_threadFiber, cpu, mContex, live, aborted, undefined>>

\* BUG: SwapOut forgets SetThis.
BugSwapOutKeepsThis(t, x) ==
  /\ UNCHANGED t_fiber
  /\ Swapcontext(t, x, t_threadFiber[t])

\* BUG: SwapOut swaps the arguments of swapcontext.
BugSwapOutReversed(t, x) ==
  /\ t_fiber' = [t_fiber EXCEPT ![t] = t_threadFiber[t]]
  /\ Swapcontext(t, t_threadFiber[t], x)

\* BUG: SwapOut saves into the context it then loads.
BugSwapOutSavesMain(t, x) ==
  /\ t_fiber' = [t_fiber EXCEPT ![t] = t_threadFiber[t]]
  /\ Swapcontext(t, t_threadFiber[t], t_threadFiber[t])

\* SwapOut() of the object x
SwapOut(t, x) ==
  /\ t_fiber' = [t_fiber EXCEPT ![t] = t_threadFiber[t]]
  /\ Swapcontext(t, x, t_threadFiber[t])

\* Back(): the same statements
Back(t, x) ==
  /\ t_fiber' = [t_fiber EXCEPT ![t] = t_threadFiber[t]]
  /\ Swapcontext(t, x, t_threadFiber[t])

\* YieldToReady() and YieldToHold() in a body: cur is GetThis()
InBody(t) == cpu[t] \in Fibers /\ AtWork(t)

YieldToReady(t) ==
  LET cur == t_fiber[t] IN
  /\ InBody(t)
  /\ IF mState[cur] # "EXEC" THEN Abort
     ELSE /\ mState' = [mState EXCEPT ![cur] = "READY"]
          /\ SwapOut(t, cur)
          /\ UNCHANGED <<mCallback, entry, refs, made, sFiberCount,
                         t_threadFiber, due, aborted>>

YieldToHold(t) ==
  LET cur == t_fiber[t] IN
  /\ InBody(t)
  /\ IF mState[cur] # "EXEC" THEN Abort
     ELSE /\ SwapOut(t, cur)
          /\ UNCHANGED <<objVars, t_threadFiber, due, aborted>>

\* The end of MainFunc or CallerMainFunc: cur is the fiber of this stack, whose
\* shared_ptr is given up before the last switch.
Leave(t, s, cb) ==
  LET f == cpu[t] IN
  /\ InBody(t)
  /\ mState' = [mState EXCEPT ![f] = s]
  /\ mCallback' = [mCallback EXCEPT ![f] = cb]
  /\ refs' = [refs EXCEPT ![f] = @ \ {"cur"}]
  /\ IF entry[f] = "MainFunc" THEN SwapOut(t, f) ELSE Back(t, f)
  /\ UNCHANGED <<entry, made, sFiberCount, t_threadFiber, due, aborted>>

BodyReturns(t) == Leave(t, "TERM", FALSE)
BodyThrows(t)  == Leave(t, "EXCEPT", mCallback[cpu[t]])

----------------------------------------------------------------------------
Step(t) == \/ MakeMainFiber(t) \/ DestroyMainFiber(t)
           \/ \E f \in Fibers : \/ New(t, f) \/ Reset(t, f) \/ Drop(t, f)
                                \/ SwapIn(t, f) \/ Call(t, f)
           \/ Settle(t)
           \/ YieldToReady(t) \/ YieldToHold(t)
           \/ BodyReturns(t) \/ BodyThrows(t)

Next == ~aborted /\ ~undefined /\ \E t \in Threads : Step(t)

Spec == Init /\ [][Next]_vars

----------------------------------------------------------------------------
(* Properties *)

\* Every variable has its type; the unsigned sFiberCount never wraps.
TypeOK ==
  /\ t_fiber \in [Threads -> Objects \cup {None}]
  /\ t_threadFiber \in [Threads -> Objects \cup {None}]
  /\ cpu \in [Threads -> Objects]
  /\ mContex \in [Objects -> Objects]
  /\ live \in [Objects -> Objects \cup {"running", "lost"}]
  /\ mState \in [Objects -> State]
  /\ mCallback \in [Fibers -> BOOLEAN]
  /\ entry \in [Fibers -> Entries]
  /\ refs \in [Fibers -> SUBSET {"caller", "cur"}]
  /\ due \in [Objects -> Fibers \cup {None}]
  /\ made \in [Fibers -> Nat]
  /\ sFiberCount \in Nat
  /\ aborted \in BOOLEAN /\ undefined \in BOOLEAN

\* No assertion fails: SwapIn never finds EXEC, the yields never find another
\* state, and ~Fiber never meets a fiber that is suspended in its body.
NoAbort == ~aborted

\* No switch ever continues a stack whose frames are gone.
Defined == ~undefined

\* "返回当前协程": GetThis() names the fiber whose stack the thread executes on,
\* also for fibers that yielded on one thread and continue on another.
GetThisIsRunning ==
  \A t \in Threads : t_fiber[t] # None => t_fiber[t] = cpu[t]

\* No two threads are on one stack, and the continuation of every other stack
\* is in the fiber's own ucontext_t: no switch overwrites the only way back.
ContextsKept ==
  /\ \A t, u \in Threads : cpu[t] = cpu[u] => t = u
  /\ \A s \in Objects : live[s] = IF \E t \in Threads : cpu[t] = s
                                  THEN "running" ELSE s

\* TotalFibers() is the number of Fiber objects: sFiberCount misses no
\* construction and no destruction.
CountExact ==
  sFiberCount = Cardinality({x \in Objects : mState[x] # "NONE"})
=============================================================================
