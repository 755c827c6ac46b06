---------------------------- MODULE FiberProofs ----------------------------
(***************************************************************************)
(* The flat use of fibers (only native stacks resume, ~Nested, as on the   *)
(* worker threads of the scheduler) is correct for any number of threads   *)
(* and fibers.                                                             *)
(***************************************************************************)
EXTENDS Fiber, FiniteSetTheorems, TLAPS

\* A thread is on its native stack or on a fiber, alone, and its thread_locals
\* agree with that.
ThreadsInv ==
  /\ \A t \in Threads : cpu[t] = t \/ cpu[t] \in Fibers
  /\ \A t, u \in Threads : cpu[t] = cpu[u] => t = u
  /\ \A t \in Threads : /\ t_fiber[t] = None \/ t_fiber[t] = cpu[t]
                        /\ t_threadFiber[t] = None \/ t_threadFiber[t] = t
                        /\ t_fiber[t] = None <=> t_threadFiber[t] = None
                        /\ cpu[t] # t => t_threadFiber[t] = t
                        /\ t_threadFiber[t] = t => mState[t] = "EXEC"

\* Every ucontext_t continues the stack of its own fiber and nothing is lost.
ContextInv ==
  /\ \A x \in Objects : mContex[x] = x
  /\ \A s \in Objects : /\ (\E t \in Threads : cpu[t] = s) => live[s] = "running"
                        /\ (\A t \in Threads : cpu[t] # s) => live[s] = s
  /\ ~undefined

\* Executing fibers are EXEC, and a store that run() still owes a fiber is owed
\* by the thread that executes it.
DueInv ==
  /\ \A t \in Threads : cpu[t] \in Fibers => mState[cpu[t]] = "EXEC"
  /\ \A f \in Fibers : due[f] = None
  /\ \A t, u \in Threads : due[t] # None /\ cpu[u] = due[t] => u = t

\* Between a SwapIn and the store that follows it, the thread that resumed the
\* fiber owes it that store, and nobody else uses it; only such fibers are EXEC.
OwedInv ==
  /\ \A t \in Threads : cpu[t] \in Fibers => due[t] = cpu[t]
  /\ \A t \in Threads : due[t] # None => mState[due[t]] \in {"EXEC", "READY"} \cup Dead
  /\ \A t, u \in Threads : due[t] # None /\ due[t] = due[u] => t = u
  /\ \A f \in Fibers : mState[f] = "EXEC" => \E t \in Threads : due[t] = f

\* A fiber suspended in its body is owned by its own stack.
OwnedInv ==
  /\ \A f \in Fibers : mState[f] \in {"HOLD", "READY", "EXEC"} => "cur" \in refs[f]
  /\ \A f \in Fibers : "caller" \in refs[f] => mState[f] # "NONE"

AssertInv == ~aborted /\ OwedInv /\ OwnedInv

\* The part of TypeOK that the induction uses.
Types ==
  /\ t_fiber \in [Threads -> Objects \cup {None}]
  /\ t_threadFiber \in [Threads -> Objects \cup {None}]
  /\ cpu \in [Threads -> Objects]
  /\ mContex \in [Objects -> Objects]
  /\ live \in [Objects -> Objects \cup {"running", "lost"}]
  /\ mState \in [Objects -> State]
  /\ mCallback \in [Fibers -> BOOLEAN]
  /\ entry \in [Fibers -> Entries]
  /\ refs \in [Fibers -> SUBSET {"caller", "cur"}]
  /\ due \in [Objects -> Fibers \cup {None}]
  /\ made \in [Fibers -> Nat]
  /\ undefined \in BOOLEAN /\ aborted \in BOOLEAN

FlatInv == Types /\ ThreadsInv /\ ContextInv /\ DueInv

\* The initial state satisfies the invariant.
LEMMA FlatInit == Init => FlatInv /\ AssertInv
<1> SUFFICES ASSUME Init PROVE FlatInv /\ AssertInv
  OBVIOUS
<1>1. Types
  BY ConstantsAssumption DEF Init, Types, Objects, State, Entries
<1>2. ThreadsInv
  BY ConstantsAssumption DEF Init, ThreadsInv, Objects
<1>3. ContextInv
  BY ConstantsAssumption DEF Init, ContextInv, Objects
<1>4. DueInv
  BY ConstantsAssumption DEF Init, DueInv, Objects
<1>5. AssertInv
  BY ConstantsAssumption DEF Init, AssertInv, OwedInv, OwnedInv, Objects, Dead
<1> QED BY <1>1, <1>2, <1>3, <1>4, <1>5 DEF FlatInv

\* swapcontext from the native stack of t into fiber f, which nobody executes:
\* the only continuations that change are those of the two stacks.
LEMMA SwapToFiber ==
  ASSUME FlatInv, NEW t \in Threads, NEW f \in Fibers, cpu[t] = t,
         \A u \in Threads : cpu[u] # f,
         Swapcontext(t, t, f)
  PROVE  /\ mContex' = mContex
         /\ cpu' = [cpu EXCEPT ![t] = f]
         /\ live' = [live EXCEPT ![t] = t, ![f] = "running"]
         /\ undefined' = FALSE
<1>1. t \in Objects /\ f \in Objects /\ t # f
  BY ConstantsAssumption DEF Objects
<1>2. [mContex EXCEPT ![t] = t] = mContex
  BY <1>1 DEF FlatInv, Types, ContextInv
<1>3. \A q \in Objects : q # t => live[q] # t
  BY <1>1, ConstantsAssumption DEF FlatInv, Types, ContextInv
<1> DEFINE kept == [q \in Objects |-> IF q = t THEN t
                      ELSE IF live[q] = t THEN "lost" ELSE live[q]]
<1>4. kept = [live EXCEPT ![t] = t]
  BY <1>1, <1>3 DEF FlatInv, Types
<1>5. mContex[f] = f /\ live[f] = f
  BY <1>1 DEF FlatInv, ContextInv
<1>6. /\ mContex' = mContex
      /\ cpu' = [cpu EXCEPT ![t] = f]
      /\ live' = [kept EXCEPT ![f] = "running"]
      /\ undefined' = (kept[f] # f)
  BY <1>1, <1>2, <1>5 DEF Swapcontext
<1>7. [kept EXCEPT ![f] = "running"] = [live EXCEPT ![t] = t, ![f] = "running"]
  BY <1>4
<1>8. kept[f] = f
  BY <1>1, <1>4, <1>5 DEF FlatInv, Types
<1> QED BY <1>6, <1>7, <1>8

\* And back: from the stack of the fiber that t executes to t's native one.
LEMMA SwapToMain ==
  ASSUME FlatInv, NEW t \in Threads, NEW f \in Fibers, cpu[t] = f,
         Swapcontext(t, f, t)
  PROVE  /\ mContex' = mContex
         /\ cpu' = [cpu EXCEPT ![t] = t]
         /\ live' = [live EXCEPT ![f] = f, ![t] = "running"]
         /\ undefined' = FALSE
<1>1. t \in Objects /\ f \in Objects /\ t # f
  BY ConstantsAssumption DEF Objects
<1>2. [mContex EXCEPT ![f] = f] = mContex
  BY <1>1 DEF FlatInv, Types, ContextInv
<1>3. \A q \in Objects : q # f => live[q] # f
  BY <1>1, ConstantsAssumption DEF FlatInv, Types, ContextInv
<1>4. \A u \in Threads : cpu[u] # t
  BY <1>1, ConstantsAssumption DEF FlatInv, ThreadsInv
<1> DEFINE kept == [q \in Objects |-> IF q = f THEN f
                      ELSE IF live[q] = f THEN "lost" ELSE live[q]]
<1>5. kept = [live EXCEPT ![f] = f]
  BY <1>1, <1>3 DEF FlatInv, Types
<1>6. mContex[t] = t /\ live[t] = t
  BY <1>1, <1>4 DEF FlatInv, ContextInv
<1>7. /\ mContex' = mContex
      /\ cpu' = [cpu EXCEPT ![t] = t]
      /\ live' = [kept EXCEPT ![t] = "running"]
      /\ undefined' = (kept[t] # t)
  BY <1>1, <1>2, <1>6 DEF Swapcontext
<1>8. [kept EXCEPT ![t] = "running"] = [live EXCEPT ![f] = f, ![t] = "running"]
  BY <1>5
<1>9. kept[t] = t
  BY <1>1, <1>5, <1>6 DEF FlatInv, Types
<1> QED BY <1>7, <1>8, <1>9

\* Stepping into a fiber, by SwapIn or Call, preserves the invariant.
LEMMA ResumeStep ==
  ASSUME FlatInv, ~Nested, NEW t \in Threads, NEW f \in Fibers,
         Resumable(t, f), Resume(t, f)
  PROVE  FlatInv'
<1>1. cpu[t] = t /\ due[t] = None /\ t_threadFiber[t] = t
  BY DEF FlatInv, ThreadsInv, Resumable, Has, MayResume, AtWork
<1>2. /\ \A u \in Threads : cpu[u] # f
      /\ \A s \in Objects : due[s] # f
  BY DEF Resumable, Has
<1>3. /\ mContex' = mContex
      /\ cpu' = [cpu EXCEPT ![t] = f]
      /\ live' = [live EXCEPT ![t] = t, ![f] = "running"]
      /\ undefined' = FALSE
  BY <1>1, <1>2, SwapToFiber DEF Resume
<1>4. /\ t_fiber' = [t_fiber EXCEPT ![t] = f]
      /\ t_threadFiber' = t_threadFiber
      /\ mState' = [mState EXCEPT ![f] = "EXEC"]
      /\ due' = [due EXCEPT ![t] = IF RunLoop THEN f ELSE None]
      /\ refs' \in [Fibers -> SUBSET {"caller", "cur"}]
      /\ UNCHANGED <<mCallback, entry, made, aborted>>
  BY <1>1 DEF Resume, CurRefs, FlatInv, Types
<1>5. t \in Objects /\ f \in Objects /\ t # f /\ f # None /\ t # None
  BY ConstantsAssumption DEF Objects
<1>6. Types'
  BY <1>3, <1>4, <1>5 DEF FlatInv, Types, State
<1>7. ThreadsInv'
  BY <1>1, <1>2, <1>3, <1>4, <1>5, ConstantsAssumption
     DEF FlatInv, Types, ThreadsInv, Objects
<1>8. ContextInv'
  <2>1. \A u \in Threads : u # t => cpu'[u] = cpu[u] /\ cpu[u] # t /\ cpu[u] # f
    BY <1>1, <1>2, <1>3, <1>5 DEF FlatInv, Types, ThreadsInv
  <2>2. cpu'[t] = f
    BY <1>3, <1>5 DEF FlatInv, Types
  <2> QED BY <1>1, <1>3, <1>5, <2>1, <2>2 DEF FlatInv, Types, ContextInv
<1>9. DueInv'
  <2>1. \A u \in Threads : u # t => cpu'[u] = cpu[u] /\ due'[u] = due[u] /\ cpu[u] # f
    BY <1>1, <1>2, <1>3, <1>4, <1>5 DEF FlatInv, Types, Objects
  <2>2. cpu'[t] = f /\ due'[t] \in {f, None} /\ \A g \in Fibers : due'[g] = due[g]
    BY <1>3, <1>4, <1>5, ConstantsAssumption DEF FlatInv, Types, Objects
  <2> QED BY <1>2, <1>3, <1>4, <1>5, <2>1, <2>2 DEF FlatInv, Types, DueInv, Objects
<1> QED BY <1>6, <1>7, <1>8, <1>9 DEF FlatInv

\* Leaving the fiber that t executes, by a yield or at the end of its body,
\* preserves the invariant.
LEMMA SwapOutStep ==
  ASSUME FlatInv, NEW t \in Threads, NEW f \in Fibers, cpu[t] = f,
         Swapcontext(t, f, t_threadFiber[t]),
         t_fiber' = [t_fiber EXCEPT ![t] = t_threadFiber[t]],
         NEW s \in State, mState' = [mState EXCEPT ![f] = s],
         mCallback' \in [Fibers -> BOOLEAN],
         refs' \in [Fibers -> SUBSET {"caller", "cur"}],
         UNCHANGED <<entry, made, t_threadFiber, due, aborted>>
  PROVE  FlatInv'
<1>1. t \in Objects /\ f \in Objects /\ t # f /\ f # None /\ t # None
  BY ConstantsAssumption DEF Objects
<1>2. t_threadFiber[t] = t
  BY <1>1 DEF FlatInv, ThreadsInv
<1>3. /\ mContex' = mContex
      /\ cpu' = [cpu EXCEPT ![t] = t]
      /\ live' = [live EXCEPT ![f] = f, ![t] = "running"]
      /\ undefined' = FALSE
  BY <1>2, SwapToMain
<1>4. \A u \in Threads : u # t => cpu[u] # f /\ cpu[u] # t
  BY <1>1, ConstantsAssumption DEF FlatInv, ThreadsInv
<1>5. Types'
  BY <1>1, <1>2, <1>3 DEF FlatInv, Types
<1>6. ThreadsInv'
  BY <1>1, <1>2, <1>3, <1>4, ConstantsAssumption DEF FlatInv, Types, ThreadsInv, Objects
<1>7. ContextInv'
  <2>1. \A u \in Threads : u # t => cpu'[u] = cpu[u]
    BY <1>1, <1>3 DEF FlatInv, Types
  <2>2. cpu'[t] = t
    BY <1>1, <1>3 DEF FlatInv, Types
  <2> QED BY <1>1, <1>3, <1>4, <2>1, <2>2 DEF FlatInv, Types, ContextInv
<1>8. DueInv'
  BY <1>1, <1>3, <1>4, ConstantsAssumption DEF FlatInv, Types, DueInv, Objects
<1> QED BY <1>5, <1>6, <1>7, <1>8 DEF FlatInv

\* Every step of a flat program preserves the invariant.
LEMMA FlatStep ==
  ASSUME FlatInv, ~Nested, Next
  PROVE  FlatInv'
<1> PICK t \in Threads : Step(t)
  BY DEF Next
<1>0. t \in Objects /\ t # None
  BY ConstantsAssumption DEF Objects
<1>1. CASE Abort
  BY <1>1 DEF Abort, FlatInv, Types, ThreadsInv, ContextInv, DueInv, objVars, switchVars
<1>2. CASE MakeMainFiber(t)
  <2>1. cpu[t] = t /\ t \notin Fibers
    BY <1>0, <1>2, ConstantsAssumption DEF MakeMainFiber, FlatInv, ThreadsInv
  <2> QED BY <1>0, <1>2, <2>1, ConstantsAssumption
          DEF MakeMainFiber, FlatInv, Types, ThreadsInv, ContextInv, DueInv, Objects, State
<1>3. CASE DestroyMainFiber(t) /\ ~Abort
  <2>1. cpu[t] = t /\ t_threadFiber[t] = t /\ t \notin Fibers
    BY <1>3, ConstantsAssumption DEF DestroyMainFiber, FlatInv, ThreadsInv
  <2>2. /\ t_fiber' = [t_fiber EXCEPT ![t] = None]
        /\ t_threadFiber' = [t_threadFiber EXCEPT ![t] = None]
        /\ mState' = [mState EXCEPT ![t] = "NONE"]
        /\ UNCHANGED <<mCallback, entry, refs, made, cpu, mContex, live, due,
                       aborted, undefined>>
    BY <1>0, <1>3, <2>1 DEF DestroyMainFiber, FlatInv, Types, ThreadsInv
  <2> QED BY <1>0, <2>1, <2>2, ConstantsAssumption
          DEF FlatInv, Types, ThreadsInv, ContextInv, DueInv, Objects, State
<1>4. ASSUME NEW f \in Fibers, New(t, f) PROVE FlatInv'
  <2>1. f \in Objects /\ f \notin Threads /\ \A u \in Threads : cpu[u] # f
    BY <1>4, ConstantsAssumption DEF New, FlatInv, DueInv, Objects
  <2>2. live[f] = f /\ mContex[f] = f
    BY <2>1 DEF FlatInv, ContextInv
  <2> QED BY <1>4, <2>1, <2>2, ConstantsAssumption
          DEF New, FlatInv, Types, ThreadsInv, ContextInv, DueInv, Objects, State, Entries
<1>5. ASSUME NEW f \in Fibers, Reset(t, f) PROVE FlatInv'
  <2>1. f \in Objects /\ f \notin Threads /\ \A u \in Threads : cpu[u] # f
    BY <1>5, ConstantsAssumption DEF Reset, Has, Objects
  <2>2. live[f] = f /\ mContex[f] = f
    BY <2>1 DEF FlatInv, ContextInv
  <2> QED BY <1>5, <2>1, <2>2, ConstantsAssumption
          DEF Reset, FlatInv, Types, ThreadsInv, ContextInv, DueInv, Objects, State, Entries
<1>6. ASSUME NEW f \in Fibers, Drop(t, f), ~Abort PROVE FlatInv'
  <2>1. f \in Objects /\ f \notin Threads /\ \A u \in Threads : cpu[u] # f
    BY <1>6, ConstantsAssumption DEF Drop, Has, Objects
  <2>2. /\ refs' \in [Fibers -> SUBSET {"caller", "cur"}]
        /\ mState' \in [Objects -> State]
        /\ \A x \in Objects : x # f => mState'[x] = mState[x]
        /\ UNCHANGED <<mCallback, entry, made, switchVars, aborted, undefined>>
    BY <1>6, <2>1 DEF Drop, FlatInv, Types, State
  <2> QED BY <2>1, <2>2, ConstantsAssumption
          DEF switchVars, FlatInv, Types, ThreadsInv, ContextInv, DueInv, Objects, State
<1>7. ASSUME NEW f \in Fibers, SwapIn(t, f) \/ Call(t, f), ~Abort PROVE FlatInv'
  <2>1. Resumable(t, f) /\ Resume(t, f)
    BY <1>7 DEF SwapIn, Call
  <2> QED BY <2>1, ResumeStep
<1>8. CASE Settle(t)
  <2> DEFINE f == due[cpu[t]]
  <2>1. cpu[t] \in Objects /\ cpu[t] \notin Fibers /\ cpu[t] = t
    BY <1>8 DEF Settle, FlatInv, Types, ThreadsInv, DueInv
  <2>2. f \in Fibers /\ f \in Objects /\ f \notin Threads
    BY <1>8, <2>1, ConstantsAssumption DEF Settle, FlatInv, Types, Objects
  <2>3. \A u \in Threads : cpu[u] # f
    BY <2>1, <2>2, ConstantsAssumption DEF FlatInv, DueInv, Objects
  <2>4. /\ mState' \in [Objects -> State]
        /\ \A x \in Objects : x # f => mState'[x] = mState[x]
    BY <1>8, <2>2 DEF Settle, FlatInv, Types, State
  <2>5. due' = [due EXCEPT ![t] = None]
    BY <1>8, <2>1 DEF Settle
  <2>6. UNCHANGED <<mCallback, entry, refs, made, t_fiber, t_threadFiber, cpu,
                    mContex, live, aborted, undefined>>
    BY <1>8 DEF Settle
  <2> HIDE DEF f
  <2>7. Types'
    BY <2>4, <2>5, <2>6 DEF FlatInv, Types
  <2>8. ThreadsInv' /\ ContextInv'
    BY <2>2, <2>4, <2>6, ConstantsAssumption DEF FlatInv, ThreadsInv, ContextInv, Objects
  <2>9. DueInv'
    BY <2>2, <2>3, <2>4, <2>5, <2>6, <1>0, ConstantsAssumption DEF FlatInv, Types, DueInv, Objects
  <2> QED BY <2>7, <2>8, <2>9 DEF FlatInv
<1>9. ASSUME cpu[t] \in Fibers, YieldToReady(t) \/ YieldToHold(t), ~Abort PROVE FlatInv'
  <2> DEFINE f == cpu[t]
  <2>1. f \in Objects /\ t_fiber[t] = f /\ mState[f] = "EXEC"
    BY <1>9, ConstantsAssumption DEF FlatInv, ThreadsInv, DueInv, Objects
  <2>2. PICK s \in State : mState' = [mState EXCEPT ![f] = s]
    <3>1. CASE YieldToReady(t)
      BY <3>1, <1>9, <2>1 DEF YieldToReady, State
    <3>2. CASE YieldToHold(t)
      BY <3>2, <1>9, <2>1 DEF YieldToHold, objVars, FlatInv, Types, State
    <3> QED BY <3>1, <3>2, <1>9
  <2>3. /\ Swapcontext(t, f, t_threadFiber[t])
        /\ t_fiber' = [t_fiber EXCEPT ![t] = t_threadFiber[t]]
        /\ UNCHANGED <<mCallback, refs, entry, made, t_threadFiber, due, aborted>>
    BY <1>9, <2>1 DEF YieldToReady, YieldToHold, SwapOut, objVars
  <2> HIDE DEF f
  <2>4. mCallback' \in [Fibers -> BOOLEAN] /\ refs' \in [Fibers -> SUBSET {"caller", "cur"}]
    BY <2>3 DEF FlatInv, Types
  <2> QED BY <1>9, <2>2, <2>3, <2>4, SwapOutStep DEF f
<1>10. ASSUME NEW s \in State, NEW cb \in BOOLEAN, Leave(t, s, cb) PROVE FlatInv'
  <2> DEFINE f == cpu[t]
  <2>1. f \in Fibers
    BY <1>10 DEF Leave, InBody
  <2>2. /\ Swapcontext(t, f, t_threadFiber[t])
        /\ t_fiber' = [t_fiber EXCEPT ![t] = t_threadFiber[t]]
        /\ mState' = [mState EXCEPT ![f] = s]
        /\ UNCHANGED <<entry, made, t_threadFiber, due, aborted>>
    BY <1>10 DEF Leave, SwapOut, Back
  <2>3. mCallback' \in [Fibers -> BOOLEAN] /\ refs' \in [Fibers -> SUBSET {"caller", "cur"}]
    BY <1>10, <2>1 DEF Leave, FlatInv, Types
  <2> HIDE DEF f
  <2> QED BY <2>1, <2>2, <2>3, SwapOutStep DEF f
<1>11. CASE BodyReturns(t)
  BY <1>11, <1>10 DEF BodyReturns, State
<1>12. CASE BodyThrows(t)
  <2>1. mCallback[cpu[t]] \in BOOLEAN
    BY <1>12 DEF BodyThrows, Leave, InBody, FlatInv, Types
  <2> QED BY <1>12, <2>1, <1>10 DEF BodyThrows, State
<1>13. CASE (YieldToReady(t) \/ YieldToHold(t)) /\ ~Abort
  BY <1>9, <1>13 DEF YieldToReady, YieldToHold, InBody
<1> QED BY <1>1, <1>2, <1>3, <1>4, <1>5, <1>6, <1>7, <1>8, <1>11, <1>12, <1>13 DEF Step

\* No assertion of fiber.cpp can fail in a flat program, because none of the
\* tests finds the state it forbids.
LEMMA NoAbortStep ==
  ASSUME FlatInv, AssertInv, ~Nested, Next
  PROVE  ~aborted'
<1> SUFFICES ASSUME aborted' PROVE FALSE
  OBVIOUS
<1> PICK t \in Threads : Step(t)
  BY DEF Next
<1>0. t \in Objects /\ t # None /\ ~aborted
  BY ConstantsAssumption DEF Objects, AssertInv
<1>1. CASE DestroyMainFiber(t)
  BY <1>0, <1>1 DEF DestroyMainFiber, FlatInv, ThreadsInv
<1>2. ASSUME NEW f \in Fibers, Drop(t, f) PROVE FALSE
  <2>1. f \in Objects /\ "caller" \in refs[f] /\ mState[f] \in State
    BY <1>2 DEF Drop, Has, Objects, FlatInv, Types
  <2>2. refs[f] = {"caller"} => mState[f] \in Dead \cup {"INIT"}
    BY <2>1 DEF AssertInv, OwnedInv, State, Dead
  <2> QED BY <1>0, <1>2, <2>2 DEF Drop
<1>3. ASSUME NEW f \in Fibers, SwapIn(t, f) PROVE FALSE
  <2>1. mState[f] # "EXEC"
    BY <1>3 DEF SwapIn, Resumable, Has, AssertInv, OwedInv, Objects
  <2> QED BY <1>0, <1>3, <2>1 DEF SwapIn, Resume
<1>4. CASE YieldToReady(t) \/ YieldToHold(t)
  <2>0. cpu[t] \in Fibers /\ cpu[t] # t
    BY <1>4, ConstantsAssumption DEF YieldToReady, YieldToHold, InBody
  <2>1. mState[t_fiber[t]] = "EXEC"
    BY <1>0, <2>0 DEF FlatInv, ThreadsInv, DueInv
  <2> QED BY <1>0, <1>4, <2>1 DEF YieldToReady, YieldToHold
<1>5. CASE \/ MakeMainFiber(t) \/ Settle(t) \/ BodyReturns(t) \/ BodyThrows(t)
           \/ \E f \in Fibers : New(t, f) \/ Reset(t, f) \/ Call(t, f)
  BY <1>0, <1>5 DEF MakeMainFiber, Settle, BodyReturns, BodyThrows, Leave, New,
                    Reset, Call, Resume
<1> QED BY <1>1, <1>2, <1>3, <1>4, <1>5 DEF Step

\* Leaving a fiber keeps the facts behind the assertions: whoever resumed it
\* owes it a store.
LEMMA LeaveKeepsAsserts ==
  ASSUME FlatInv, AssertInv, NEW t \in Threads, NEW f \in Fibers, cpu[t] = f,
         Swapcontext(t, f, t_threadFiber[t]), UNCHANGED due, ~aborted',
         NEW s \in {"EXEC", "READY"} \cup Dead, mState' = [mState EXCEPT ![f] = s],
         refs' = [refs EXCEPT ![f] = IF s \in Dead THEN @ \ {"cur"} ELSE @]
  PROVE  AssertInv'
<1>1. t \in Objects /\ f \in Objects /\ t # f /\ t \notin Fibers /\ f # None
  BY ConstantsAssumption DEF Objects
<1>2. t_threadFiber[t] = t
  BY <1>1 DEF FlatInv, ThreadsInv
<1>3. /\ mContex' = mContex
      /\ cpu' = [cpu EXCEPT ![t] = t]
      /\ live' = [live EXCEPT ![f] = f, ![t] = "running"]
      /\ undefined' = FALSE
  BY <1>2, SwapToMain
<1>4. mState[f] = "EXEC" /\ due[t] = f
  BY DEF FlatInv, DueInv, AssertInv, OwedInv
<1>5. mState'[f] = s /\ \A x \in Objects : x # f => mState'[x] = mState[x]
  BY <1>1 DEF FlatInv, Types
<1>6. OwedInv'
  <2>1. \A u \in Threads : cpu'[u] \in Fibers => due'[u] = cpu'[u]
    BY <1>1, <1>3 DEF FlatInv, Types, AssertInv, OwedInv
  <2>2. \A u \in Threads : due'[u] # None => mState'[due'[u]] \in {"EXEC", "READY"} \cup Dead
    BY <1>1, <1>5 DEF FlatInv, Types, AssertInv, OwedInv, Objects
  <2>3. \A u, v \in Threads : due'[u] # None /\ due'[u] = due'[v] => u = v
    BY DEF AssertInv, OwedInv
  <2>4. \A g \in Fibers : mState'[g] = "EXEC" => \E u \in Threads : due'[u] = g
    BY <1>4, <1>5 DEF AssertInv, OwedInv, Objects
  <2> QED BY <2>1, <2>2, <2>3, <2>4 DEF OwedInv
<1>7. OwnedInv'
  <2>1. "cur" \in refs[f]
    BY <1>4 DEF AssertInv, OwnedInv
  <2>2. \A g \in Fibers : g # f => refs'[g] = refs[g]
    BY DEF FlatInv, Types
  <2>3. "caller" \in refs'[f] <=> "caller" \in refs[f]
    BY DEF FlatInv, Types
  <2>4. s \notin Dead => "cur" \in refs'[f]
    BY <2>1 DEF FlatInv, Types
  <2> QED BY <1>4, <1>5, <2>1, <2>2, <2>3, <2>4 DEF AssertInv, OwnedInv, Objects, Dead
<1> QED BY <1>6, <1>7 DEF AssertInv

\* With the store of run() after each SwapIn, the facts behind the assertions
\* are preserved.
LEMMA AssertStep ==
  ASSUME FlatInv, AssertInv, ~Nested, RunLoop, Next
  PROVE  AssertInv'
<1>0. ~aborted'
  BY NoAbortStep
<1> PICK t \in Threads : Step(t)
  BY DEF Next
<1>1. t \in Objects /\ t # None /\ t \notin Fibers /\ ~Abort
  BY <1>0, ConstantsAssumption DEF Objects, Abort
\* Steps that change only the state and the owners of a fiber nobody executes.
<1>2. ASSUME NEW f \in Fibers, NEW s \in State \ {"EXEC"},
             \A u \in Threads : due[u] # f,
             mState' = [mState EXCEPT ![f] = s], UNCHANGED <<cpu, due>>
      PROVE  OwedInv'
  <2>1. mState'[f] = s /\ \A x \in Objects : x # f => mState'[x] = mState[x]
    BY <1>2 DEF FlatInv, Types, Objects
  <2> QED BY <1>2, <2>1 DEF AssertInv, OwedInv, FlatInv, Types, Objects
<1>3. CASE MakeMainFiber(t)
  BY <1>0, <1>1, <1>3 DEF MakeMainFiber, AssertInv, OwedInv, OwnedInv, FlatInv, Types, Objects
<1>4. CASE DestroyMainFiber(t)
  <2>1. t_threadFiber[t] = t
    BY <1>4 DEF DestroyMainFiber, FlatInv, ThreadsInv
  <2>2. mState' = [mState EXCEPT ![t] = "NONE"] /\ UNCHANGED <<cpu, due, refs>>
    BY <1>1, <1>4, <2>1 DEF DestroyMainFiber
  <2> QED BY <1>0, <1>1, <2>2 DEF AssertInv, OwedInv, OwnedInv, FlatInv, Types, Objects
<1>5. ASSUME NEW f \in Fibers, New(t, f) PROVE AssertInv'
  <2>1. \A u \in Threads : due[u] # f
    BY <1>5, ConstantsAssumption DEF New, AssertInv, OwedInv, Dead, Objects
  <2>2. OwedInv'
    BY <1>2, <1>5, <2>1 DEF New, State
  <2> QED BY <1>0, <1>5, <2>2 DEF New, AssertInv, OwnedInv, FlatInv, Types, Objects
<1>6. ASSUME NEW f \in Fibers, Reset(t, f) PROVE AssertInv'
  <2>1. OwedInv'
    BY <1>2, <1>6 DEF Reset, Has, State, Objects
  <2> QED BY <1>0, <1>6, <2>1 DEF Reset, AssertInv, OwnedInv, FlatInv, Types, Objects
<1>7. ASSUME NEW f \in Fibers, Drop(t, f) PROVE AssertInv'
  <2>1. /\ refs' = [refs EXCEPT ![f] = @ \ {"caller"}]
        /\ mState' = [mState EXCEPT ![f] = IF refs[f] = {"caller"} THEN "NONE" ELSE @]
        /\ UNCHANGED <<cpu, due>>
    BY <1>1, <1>7 DEF Drop, switchVars
  <2>2. \A u \in Threads : due[u] # f
    BY <1>7 DEF Drop, Has, Objects
  <2>3. mState[f] \in State \ {"EXEC"}
    BY <2>2 DEF AssertInv, OwedInv, FlatInv, Types, Objects
  <2>4. OwedInv'
    BY <1>2, <2>1, <2>2, <2>3 DEF State
  <2> QED BY <1>0, <2>1, <2>4 DEF AssertInv, OwnedInv, FlatInv, Types, Objects
<1>8. ASSUME NEW f \in Fibers, SwapIn(t, f) \/ Call(t, f) PROVE AssertInv'
  <2>1. Resumable(t, f) /\ Resume(t, f)
    BY <1>1, <1>8 DEF SwapIn, Call
  <2>2. cpu[t] = t /\ due[t] = None /\ t_threadFiber[t] = t /\ f \in Objects
    BY <2>1 DEF FlatInv, ThreadsInv, Resumable, Has, MayResume, AtWork, Objects
  <2>3. /\ mContex' = mContex
        /\ cpu' = [cpu EXCEPT ![t] = f]
        /\ live' = [live EXCEPT ![t] = t, ![f] = "running"]
        /\ undefined' = FALSE
    BY <2>1, <2>2, SwapToFiber DEF Resume, Resumable, Has
  <2>4. /\ mState' = [mState EXCEPT ![f] = "EXEC"]
        /\ due' = [due EXCEPT ![t] = f]
        /\ refs' = [refs EXCEPT ![f] = IF mState[f] = "INIT" THEN @ \cup {"cur"} ELSE @]
    BY <2>1, <2>2 DEF Resume, CurRefs
  <2>5. "caller" \in refs[f] /\ mState[f] \notin Dead /\ mState[f] \in State
    BY <2>1, <2>2 DEF Resumable, Has, FlatInv, Types
  <2>6. \A u \in Threads : due[u] # f
    BY <2>1 DEF Resumable, Has, Objects
  <2>7. "cur" \in refs'[f] /\ mState'[f] = "EXEC" /\ due'[t] = f /\ cpu'[t] = f
    BY <1>1, <2>2, <2>3, <2>4, <2>5 DEF AssertInv, OwnedInv, FlatInv, Types, State, Dead
  <2>8. \A g \in Fibers : g # f => refs'[g] = refs[g] /\ mState'[g] = mState[g]
    BY <2>4 DEF FlatInv, Types, Objects
  <2>9. \A u \in Threads : u # t => cpu'[u] = cpu[u] /\ due'[u] = due[u]
    BY <2>3, <2>4 DEF FlatInv, Types, Objects
  <2>10. \A u \in Threads : due[u] \in Fibers \cup {None}
    BY DEF FlatInv, Types, Objects
  <2>11. OwedInv'
    <3>1. \A u \in Threads : cpu'[u] \in Fibers => due'[u] = cpu'[u]
      BY <2>7, <2>9 DEF AssertInv, OwedInv
    <3>2. \A u \in Threads : due'[u] # None => mState'[due'[u]] \in {"EXEC", "READY"} \cup Dead
      BY <2>6, <2>7, <2>8, <2>9, <2>10 DEF AssertInv, OwedInv
    <3>3. \A u, v \in Threads : due'[u] # None /\ due'[u] = due'[v] => u = v
      BY <2>6, <2>7, <2>9 DEF AssertInv, OwedInv
    <3>4. \A g \in Fibers : mState'[g] = "EXEC" => \E u \in Threads : due'[u] = g
      BY <2>2, <2>7, <2>8, <2>9, ConstantsAssumption DEF AssertInv, OwedInv, Objects
    <3> QED BY <3>1, <3>2, <3>3, <3>4 DEF OwedInv
  <2>12. OwnedInv'
    BY <2>7, <2>8 DEF AssertInv, OwnedInv
  <2> QED BY <1>0, <2>11, <2>12 DEF AssertInv
<1>9. CASE Settle(t)
  <2> DEFINE f == due[cpu[t]]
  <2>1. cpu[t] = t
    BY <1>9 DEF Settle, FlatInv, Types, ThreadsInv, DueInv
  <2>2. f \in Fibers /\ f \in Objects /\ f = due[t] /\ f # None
    BY <1>1, <1>9, <2>1 DEF Settle, FlatInv, Types, Objects
  <2>3. /\ mState' = [mState EXCEPT ![f] =
                        IF mState[f] \in Dead \cup {"READY"} THEN mState[f] ELSE "HOLD"]
        /\ due' = [due EXCEPT ![t] = None]
        /\ UNCHANGED <<cpu, refs>>
    BY <1>9, <2>1 DEF Settle
  <2>4. mState[f] \in {"EXEC", "READY"} \cup Dead
    BY <2>2 DEF AssertInv, OwedInv
  <2>5. \A u \in Threads : u # t => due'[u] = due[u] /\ due[u] # f
    BY <1>1, <2>2, <2>3 DEF AssertInv, OwedInv, FlatInv, Types, Objects
  <2>6. /\ mState'[f] \in Dead \cup {"READY", "HOLD"} /\ due'[t] = None
        /\ mState[f] \in Dead => mState'[f] = mState[f]
    BY <1>1, <2>2, <2>3 DEF FlatInv, Types
  <2>7. \A g \in Fibers : g # f => mState'[g] = mState[g]
    BY <2>3 DEF FlatInv, Types, Objects
  <2>8. \A u \in Threads : due[u] \in Fibers \cup {None}
    BY DEF FlatInv, Types, Objects
  <2> HIDE DEF f
  <2>9. OwedInv'
    <3>1. \A u \in Threads : cpu'[u] \in Fibers => due'[u] = cpu'[u]
      BY <1>1, <2>1, <2>3, <2>5 DEF AssertInv, OwedInv
    <3>2. \A g \in Fibers : mState'[g] = "EXEC" => \E u \in Threads : due'[u] = g
      BY <2>2, <2>5, <2>6, <2>7 DEF AssertInv, OwedInv, Dead
    <3> QED BY <2>5, <2>6, <2>7, <2>8, <3>1, <3>2 DEF AssertInv, OwedInv
  <2>10. OwnedInv'
    BY <2>2, <2>3, <2>4, <2>6, <2>7 DEF AssertInv, OwnedInv, Dead
  <2> QED BY <1>0, <2>9, <2>10 DEF AssertInv
<1>10. CASE YieldToReady(t) \/ YieldToHold(t)
  <2> DEFINE f == cpu[t]
  <2>1. f \in Fibers /\ t_fiber[t] = f /\ mState[f] = "EXEC"
    BY <1>10, ConstantsAssumption
       DEF YieldToReady, YieldToHold, InBody, FlatInv, ThreadsInv, DueInv, Objects
  <2>2. PICK s \in {"EXEC", "READY"} : mState' = [mState EXCEPT ![f] = s]
    BY <1>1, <1>10, <2>1 DEF YieldToReady, YieldToHold, objVars, FlatInv, Types
  <2>3. /\ Swapcontext(t, f, t_threadFiber[t])
        /\ UNCHANGED <<refs, due>>
    BY <1>1, <1>10, <2>1 DEF YieldToReady, YieldToHold, SwapOut, objVars
  <2>4. refs' = [refs EXCEPT ![f] = IF s \in Dead THEN @ \ {"cur"} ELSE @]
    BY <2>1, <2>2, <2>3 DEF FlatInv, Types, Dead
  <2> HIDE DEF f
  <2> QED BY <1>0, <2>1, <2>2, <2>3, <2>4, LeaveKeepsAsserts DEF f
<1>11. ASSUME NEW s \in Dead, NEW cb, Leave(t, s, cb) PROVE AssertInv'
  <2> DEFINE f == cpu[t]
  <2>1. f \in Fibers
    BY <1>11 DEF Leave, InBody
  <2>2. /\ mState' = [mState EXCEPT ![f] = s]
        /\ Swapcontext(t, f, t_threadFiber[t])
        /\ refs' = [refs EXCEPT ![f] = IF s \in Dead THEN @ \ {"cur"} ELSE @]
        /\ UNCHANGED due
    BY <1>11 DEF Leave, SwapOut, Back
  <2> HIDE DEF f
  <2> QED BY <1>0, <2>1, <2>2, LeaveKeepsAsserts DEF f
<1>12. CASE BodyReturns(t) \/ BodyThrows(t)
  BY <1>11, <1>12 DEF BodyReturns, BodyThrows, Dead
<1> QED BY <1>3, <1>4, <1>5, <1>6, <1>7, <1>8, <1>9, <1>10, <1>12 DEF Step

----------------------------------------------------------------------------
\* The invariant of flat programs is one.
LEMMA FlatInvariant == ~Nested => (Spec => []FlatInv)
<1> SUFFICES ASSUME ~Nested PROVE Spec => []FlatInv
  OBVIOUS
<1>1. Init => FlatInv
  BY FlatInit
<1>2. FlatInv /\ [Next]_vars => FlatInv'
  <2>1. ASSUME FlatInv, UNCHANGED vars PROVE FlatInv'
    BY <2>1 DEF vars, objVars, switchVars, FlatInv, Types, ThreadsInv, ContextInv, DueInv
  <2> QED BY <2>1, FlatStep
<1> QED BY <1>1, <1>2, PTL DEF Spec

\* In a flat program GetThis() always names the fiber that executes, however
\* fibers yield on one thread and continue on another.
THEOREM FlatGetThis == ~Nested => (Spec => []GetThisIsRunning)
<1> SUFFICES ASSUME ~Nested PROVE Spec => []GetThisIsRunning
  OBVIOUS
<1>1. FlatInv => GetThisIsRunning
  BY DEF FlatInv, ThreadsInv, GetThisIsRunning
<1> QED BY <1>1, FlatInvariant, PTL

\* In a flat program no two threads share a stack and no switch overwrites the
\* only continuation of a stack.
THEOREM FlatContexts == ~Nested => (Spec => []ContextsKept)
<1> SUFFICES ASSUME ~Nested PROVE Spec => []ContextsKept
  OBVIOUS
<1>1. FlatInv => ContextsKept
  BY DEF FlatInv, ThreadsInv, ContextInv, ContextsKept
<1> QED BY <1>1, FlatInvariant, PTL

\* In a flat program no switch continues a stack whose frames are gone: a fiber
\* that ended, or a thread that has none to go back to.
THEOREM FlatDefined == ~Nested => (Spec => []Defined)
<1> SUFFICES ASSUME ~Nested PROVE Spec => []Defined
  OBVIOUS
<1>1. FlatInv => Defined
  BY DEF FlatInv, ThreadsInv, ContextInv, Defined
<1> QED BY <1>1, FlatInvariant, PTL

\* In a flat program whose resumers store HOLD like run(), no assertion of
\* fiber.cpp fails: not in SwapIn, in the yields, in Reset or in ~Fiber.
THEOREM FlatNoAbort == ~Nested /\ RunLoop => (Spec => []NoAbort)
<1> SUFFICES ASSUME ~Nested, RunLoop PROVE Spec => []NoAbort
  OBVIOUS
<1>1. Init => FlatInv /\ AssertInv
  BY FlatInit
<1>2. (FlatInv /\ AssertInv) /\ [Next]_vars => (FlatInv /\ AssertInv)'
  <2>1. ASSUME FlatInv, AssertInv, UNCHANGED vars PROVE (FlatInv /\ AssertInv)'
    BY <2>1 DEF vars, objVars, switchVars, FlatInv, Types, ThreadsInv, ContextInv, DueInv,
                AssertInv, OwedInv, OwnedInv
  <2> QED BY <2>1, FlatStep, AssertStep
<1>3. AssertInv => NoAbort
  BY DEF AssertInv, NoAbort
<1> QED BY <1>1, <1>2, <1>3, PTL DEF Spec

----------------------------------------------------------------------------
(* The number of fibers *)

\* The objects that exist.
Existing == {x \in Objects : mState[x] # "NONE"}

\* A thread without main fiber has no object; a fiber that callers own, or that
\* run() has yet to account for, has one.
ExistInv ==
  /\ \A t \in Threads : t_threadFiber[t] = None => mState[t] = "NONE"
  /\ \A f \in Fibers : "caller" \in refs[f] => mState[f] # "NONE"
  /\ \A t \in Threads : due[t] # None => mState[due[t]] # "NONE"

NumberInv == FlatInv /\ ExistInv /\ CountExact

LEMMA ExistingFinite == IsFiniteSet(Existing) /\ Cardinality(Existing) \in Nat
<1>1. IsFiniteSet(Objects)
  BY ConstantsAssumption, FS_Union DEF Objects
<1>2. Existing \in SUBSET Objects
  BY DEF Existing
<1> QED BY <1>1, <1>2, FS_Subset, FS_CardinalityType

\* A constructor adds one object, a destructor takes one away, and the other
\* steps leave mState at NONE or not.
LEMMA NumberFollows ==
  ASSUME NumberInv, NEW x \in Objects, NEW s \in State,
         mState' = [mState EXCEPT ![x] = s],
         s # "NONE" /\ mState[x] = "NONE" => sFiberCount' = sFiberCount + 1,
         s = "NONE" /\ mState[x] # "NONE" => sFiberCount' = sFiberCount - 1,
         (s = "NONE" <=> mState[x] = "NONE") => sFiberCount' = sFiberCount
  PROVE  CountExact'
<1>1. Existing' = IF s = "NONE" THEN Existing \ {x} ELSE Existing \cup {x}
  BY DEF Existing, NumberInv, FlatInv, Types
<1>2. x \in Existing <=> mState[x] # "NONE"
  BY DEF Existing
<1>3. sFiberCount = Cardinality(Existing)
  BY DEF NumberInv, CountExact, Existing
<1>4. Cardinality(Existing \cup {x}) =
        IF x \in Existing THEN Cardinality(Existing) ELSE Cardinality(Existing) + 1
  BY ExistingFinite, FS_AddElement
<1>5. Cardinality(Existing \ {x}) =
        IF x \in Existing THEN Cardinality(Existing) - 1 ELSE Cardinality(Existing)
  BY ExistingFinite, FS_RemoveElement
<1>6. CASE s = "NONE"
  <2>1. Cardinality(Existing') = Cardinality(Existing \ {x})
    BY <1>1, <1>6
  <2>2. sFiberCount' = Cardinality(Existing')
    BY <1>2, <1>3, <1>5, <1>6, <2>1, ExistingFinite
  <2> QED BY <2>2 DEF CountExact, Existing
<1>7. CASE s # "NONE"
  <2>1. Cardinality(Existing') = Cardinality(Existing \cup {x})
    BY <1>1, <1>7
  <2>2. sFiberCount' = Cardinality(Existing')
    BY <1>2, <1>3, <1>4, <1>7, <2>1, ExistingFinite
  <2> QED BY <2>2 DEF CountExact, Existing
<1> QED BY <1>6, <1>7

LEMMA NumberInit == Init => NumberInv
<1> SUFFICES ASSUME Init PROVE NumberInv
  OBVIOUS
<1>1. Existing = {}
  BY DEF Init, Existing
<1>2. CountExact
  BY <1>1, FS_EmptySet DEF Init, CountExact, Existing
<1>3. ExistInv
  BY DEF Init, ExistInv, Objects
<1> QED BY <1>2, <1>3, FlatInit DEF NumberInv

LEMMA NumberStep ==
  ASSUME NumberInv, ~Nested, Next
  PROVE  NumberInv'
<1>0. FlatInv'
  BY FlatStep DEF NumberInv
<1> SUFFICES (ExistInv /\ CountExact)'
  BY <1>0 DEF NumberInv
<1> PICK t \in Threads : Step(t)
  BY DEF Next
<1>a. t \in Objects /\ t # None /\ t \notin Fibers /\ sFiberCount \in Nat
      /\ \A f \in Fibers : f \in Objects /\ f \notin Threads /\ f # None
  BY ConstantsAssumption, ExistingFinite DEF Objects, NumberInv, CountExact, Existing
<1>b. Types /\ Types'
  BY <1>0 DEF NumberInv, FlatInv
<1>1. CASE Abort
  BY <1>1 DEF Abort, objVars, switchVars, NumberInv, ExistInv, CountExact
<1>2. CASE MakeMainFiber(t)
  <2>1. t_threadFiber[t] = None /\ mState[t] = "NONE"
    BY <1>2 DEF MakeMainFiber, NumberInv, FlatInv, ThreadsInv, ExistInv
  <2>2. CountExact'
    <3>1. mState' = [mState EXCEPT ![t] = "EXEC"] /\ sFiberCount' = sFiberCount + 1
      BY <1>2 DEF MakeMainFiber
    <3> QED BY <1>a, <2>1, <3>1, NumberFollows DEF State
  <2>3. ExistInv'
    BY <1>2, <1>a, <1>b DEF MakeMainFiber, Types, NumberInv, ExistInv
  <2> QED BY <2>2, <2>3
<1>3. CASE DestroyMainFiber(t) /\ ~Abort
  <2>1. t_threadFiber[t] = t /\ mState[t] = "EXEC"
    BY <1>3 DEF DestroyMainFiber, NumberInv, FlatInv, ThreadsInv
  <2>2. /\ mState' = [mState EXCEPT ![t] = "NONE"] /\ sFiberCount' = sFiberCount - 1
        /\ t_threadFiber' = [t_threadFiber EXCEPT ![t] = None]
        /\ UNCHANGED <<refs, due>>
    BY <1>3, <2>1 DEF DestroyMainFiber, DtorCount
  <2>3. CountExact'
    BY <1>a, <2>1, <2>2, NumberFollows DEF State
  <2>4. \A x \in Objects : x # t => mState'[x] = mState[x]
    BY <1>b, <2>2 DEF Types
  <2>5. \A u \in Threads : u # t => t_threadFiber'[u] = t_threadFiber[u]
    BY <1>b, <2>2 DEF Types
  <2>6. mState'[t] = "NONE"
    BY <1>a, <1>b, <2>2 DEF Types
  <2>7. ExistInv'
    <3>1. \A u \in Threads : t_threadFiber'[u] = None => mState'[u] = "NONE"
      BY <2>4, <2>5, <2>6 DEF NumberInv, ExistInv, Objects
    <3>2. \A f \in Fibers : "caller" \in refs'[f] => mState'[f] # "NONE"
      BY <1>a, <2>2, <2>4 DEF NumberInv, ExistInv
    <3>3. \A u \in Threads : due'[u] # None => mState'[due'[u]] # "NONE"
      <4>1. \A u \in Threads : due[u] \in Fibers \cup {None}
        BY <1>b DEF Types, Objects
      <4> QED BY <1>a, <2>2, <2>4, <4>1 DEF NumberInv, ExistInv
    <3> QED BY <3>1, <3>2, <3>3 DEF ExistInv
  <2> QED BY <2>3, <2>7
<1>4. ASSUME NEW f \in Fibers, New(t, f) PROVE (ExistInv /\ CountExact)'
  <2>1. /\ mState[f] = "NONE" /\ mState' = [mState EXCEPT ![f] = "INIT"]
        /\ sFiberCount' = sFiberCount + 1 /\ refs' = [refs EXCEPT ![f] = {"caller"}]
        /\ UNCHANGED <<t_threadFiber, due>>
    BY <1>4 DEF New, CtorCount
  <2>2. CountExact'
    BY <1>a, <2>1, NumberFollows DEF State
  <2>3. ExistInv'
    BY <1>a, <1>b, <2>1 DEF Types, NumberInv, ExistInv
  <2> QED BY <2>2, <2>3
<1>5. ASSUME NEW f \in Fibers, Drop(t, f), ~Abort PROVE (ExistInv /\ CountExact)'
  <2> DEFINE s == IF refs[f] = {"caller"} THEN "NONE" ELSE mState[f]
  <2>1. /\ "caller" \in refs[f] /\ \A u \in Threads : due[u] # f
        /\ refs' = [refs EXCEPT ![f] = @ \ {"caller"}]
        /\ mState' = [mState EXCEPT ![f] = s]
        /\ sFiberCount' = IF refs[f] = {"caller"} THEN sFiberCount - 1 ELSE sFiberCount
        /\ UNCHANGED <<t_threadFiber, due>>
    BY <1>5, <1>a DEF Drop, Has, DtorCount, switchVars, Objects
  <2>2. mState[f] # "NONE" /\ mState[f] \in State
    BY <1>a, <1>b, <2>1 DEF Types, NumberInv, ExistInv
  <2>3. s \in State /\ (s = "NONE" <=> refs[f] = {"caller"})
    BY <2>2 DEF State
  <2> HIDE DEF s
  <2>4. CountExact'
    BY <1>a, <2>1, <2>2, <2>3, NumberFollows
  <2>5. ExistInv'
    BY <1>a, <1>b, <2>1, <2>2, <2>3 DEF Types, NumberInv, ExistInv
  <2> QED BY <2>4, <2>5
<1>6. ASSUME NEW f \in Fibers, NEW s \in State \ {"NONE"}, mState[f] # "NONE",
             mState' = [mState EXCEPT ![f] = s],
             UNCHANGED <<sFiberCount, t_threadFiber>>,
             \A g \in Fibers : "caller" \in refs'[g] => "caller" \in refs[g],
             \A u \in Threads : due'[u] \in {None, f, due[u]}
      PROVE  (ExistInv /\ CountExact)'
  <2>1. CountExact'
    BY <1>6, <1>a, NumberFollows
  <2>2. ExistInv'
    BY <1>6, <1>a, <1>b DEF Types, NumberInv, ExistInv
  <2> QED BY <2>1, <2>2
<1>7. ASSUME NEW f \in Fibers, Reset(t, f) PROVE (ExistInv /\ CountExact)'
  BY <1>6, <1>7, <1>a DEF Reset, State, Dead
<1>8. ASSUME NEW f \in Fibers, SwapIn(t, f) \/ Call(t, f), ~Abort
      PROVE  (ExistInv /\ CountExact)'
  <2>1. /\ "caller" \in refs[f] /\ mState' = [mState EXCEPT ![f] = "EXEC"]
        /\ refs' = [refs EXCEPT ![f] = IF mState[f] = "INIT" THEN @ \cup CurRefs ELSE @]
        /\ due' = [due EXCEPT ![cpu[t]] = IF RunLoop THEN f ELSE None]
        /\ UNCHANGED <<sFiberCount, t_threadFiber>>
    BY <1>8 DEF SwapIn, Call, Resumable, Has, Resume
  <2>2. mState[f] # "NONE"
    BY <2>1 DEF NumberInv, ExistInv
  <2>3. \A g \in Fibers : "caller" \in refs'[g] => "caller" \in refs[g]
    BY <1>b, <2>1 DEF CurRefs, Types
  <2>4. \A u \in Threads : due'[u] \in {None, f, due[u]}
    BY <1>b, <2>1 DEF Types
  <2> QED BY <1>6, <2>1, <2>2, <2>3, <2>4 DEF State
<1>9. CASE Settle(t)
  <2> DEFINE f == due[cpu[t]]
  <2>1. cpu[t] = t /\ f \in Fibers
    BY <1>9, <1>b DEF Settle, NumberInv, FlatInv, ThreadsInv, DueInv, Types
  <2>2. /\ mState' = [mState EXCEPT ![f] = IF @ \in Dead \cup {"READY"} THEN @ ELSE "HOLD"]
        /\ due' = [due EXCEPT ![cpu[t]] = None]
        /\ UNCHANGED <<sFiberCount, t_threadFiber, refs>>
    BY <1>9 DEF Settle
  <2>3. mState[f] # "NONE"
    BY <1>a, <2>1 DEF NumberInv, ExistInv
  <2>4. \A u \in Threads : due'[u] \in {None, due[u]}
    BY <1>b, <2>2 DEF Types
  <2>5. PICK s \in State \ {"NONE"} : mState' = [mState EXCEPT ![f] = s]
    BY <1>a, <1>b, <2>1, <2>2 DEF Types, State, Dead
  <2> HIDE DEF f
  <2>6. \A g \in Fibers : "caller" \in refs'[g] => "caller" \in refs[g]
    BY <2>2
  <2>7. \A u \in Threads : due'[u] \in {None, f, due[u]}
    BY <2>4
  <2> QED BY <1>6, <2>1, <2>2, <2>3, <2>5, <2>6, <2>7
<1>10. ASSUME cpu[t] \in Fibers, NEW s \in State \ {"NONE"},
              mState' = [mState EXCEPT ![cpu[t]] = s],
              UNCHANGED <<sFiberCount, t_threadFiber, due>>,
              \A g \in Fibers : "caller" \in refs'[g] => "caller" \in refs[g]
       PROVE  (ExistInv /\ CountExact)'
  <2>1. mState[cpu[t]] # "NONE"
    BY <1>10 DEF NumberInv, FlatInv, DueInv
  <2> QED BY <1>6, <1>10, <2>1
<1>11. CASE (YieldToReady(t) \/ YieldToHold(t)) /\ ~Abort
  <2>1. cpu[t] \in Fibers /\ t_fiber[t] = cpu[t] /\ mState[cpu[t]] = "EXEC"
    BY <1>11, <1>a DEF YieldToReady, YieldToHold, InBody, NumberInv, FlatInv, ThreadsInv, DueInv
  <2>2. mState = [mState EXCEPT ![cpu[t]] = "EXEC"]
    BY <1>b, <2>1 DEF Types
  <2>3. CASE YieldToReady(t)
    BY <1>10, <1>11, <2>1, <2>3 DEF YieldToReady, State
  <2>4. CASE YieldToHold(t)
    BY <1>10, <1>11, <2>1, <2>2, <2>4 DEF YieldToHold, objVars, State
  <2> QED BY <1>11, <2>3, <2>4
<1>12. CASE BodyReturns(t) \/ BodyThrows(t)
  <2>1. PICK s \in Dead, cb \in BOOLEAN : Leave(t, s, cb)
    <3>1. cpu[t] \in Fibers
      BY <1>12 DEF BodyReturns, BodyThrows, Leave, InBody
    <3> QED BY <1>12, <1>b, <3>1 DEF BodyReturns, BodyThrows, Dead, Types
  <2>2. \A g \in Fibers : "caller" \in refs'[g] => "caller" \in refs[g]
    BY <1>b, <2>1 DEF Leave, Types
  <2> QED BY <1>10, <2>1, <2>2 DEF Leave, InBody, State, Dead
<1> QED BY <1>1, <1>2, <1>3, <1>4, <1>5, <1>7, <1>8, <1>9, <1>11, <1>12 DEF Step

LEMMA NumberInvariant == ~Nested => (Spec => []NumberInv)
<1> SUFFICES ASSUME ~Nested PROVE Spec => []NumberInv
  OBVIOUS
<1>1. NumberInv /\ [Next]_vars => NumberInv'
  <2> SUFFICES ASSUME NumberInv, [Next]_vars PROVE NumberInv'
    OBVIOUS
  <2>1. CASE UNCHANGED vars
    BY <2>1 DEF vars, objVars, switchVars, NumberInv, FlatInv, Types, ThreadsInv, ContextInv,
                DueInv, ExistInv, CountExact
  <2> QED BY <2>1, NumberStep
<1> QED BY <1>1, NumberInit, PTL DEF Spec

\* TotalFibers() is exact: no constructor and no destructor is missed, whichever
\* owner is the last to let a fiber go.
THEOREM FlatCount == ~Nested => (Spec => []CountExact)
<1> SUFFICES ASSUME ~Nested PROVE Spec => []CountExact
  OBVIOUS
<1>1. NumberInv => CountExact
  BY DEF NumberInv
<1> QED BY <1>1, NumberInvariant, PTL

\* Every variable keeps its type; in particular the unsigned sFiberCount is never
\* decremented at zero.
THEOREM FlatTypes == ~Nested => (Spec => []TypeOK)
<1> SUFFICES ASSUME ~Nested PROVE Spec => []TypeOK
  OBVIOUS
<1>1. NumberInv => TypeOK
  <2> SUFFICES ASSUME NumberInv PROVE TypeOK
    OBVIOUS
  <2>1. sFiberCount \in Nat
    BY ExistingFinite DEF NumberInv, CountExact, Existing
  <2> QED BY <2>1 DEF NumberInv, FlatInv, Types, TypeOK
<1> QED BY <1>1, NumberInvariant, PTL
=============================================================================
