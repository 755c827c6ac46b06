-------------------------- MODULE SchedulerProofs --------------------------
(***************************************************************************)
(* Type correctness of the scheduler, exactness of its two thread          *)
(* counters, and what stop() leaves behind: no thread of a destroyed       *)
(* scheduler is still in run(), and when join() has returned every task    *)
(* has been started unless it came from outside too late.  For any number  *)
(* of threads, fibers and callbacks, pinned or not, with disciplined or    *)
(* undisciplined callers, with or without the caller's thread.             *)
(***************************************************************************)
EXTENDS Scheduler, FiniteSetTheorems, WellFoundedInduction, TLAPS

\* What the constructor chose.
CtorTypes == use_caller \in BOOLEAN /\ m_threadCount \in Nat /\ habits \in Habits

\* TypeOK without CtorTypes and without the counters, which need CountsExact to stay in Nat.
Types ==
  /\ m_fibers \in Seq(Entry)
  /\ m_stopping \in BOOLEAN /\ m_autoStop \in BOOLEAN
  /\ m_threads \subseteq Workers /\ thrs \subseteq Workers
  /\ opc \in OwnerPc
  /\ pc \in [Threads -> Pc]
  /\ ft \in [Threads -> Entry]
  /\ cb_fiber \in [Threads -> Fibers \cup {None}]
  /\ idle_fiber \in [Threads -> State]
  /\ mState \in [Fibers -> State]
  /\ mCallback \in [Fibers -> Fibers \cup {None}]
  /\ aborted \in BOOLEAN
  /\ posted \subseteq Cbs /\ late \subseteq Fibers
  /\ hand \in [Fibers -> {"none", "armed", "woken"}]
  /\ yields \in [Fibers -> Nat]
  /\ entries \in [Fibers -> Nat]

\* The threads that the two counters count.
ActiveSet == {t \in Threads : Active(t)}
IdleSet   == {t \in Threads : pc[t] \in {"idle", "idle_ret"}}

\* What callers pass to schedule() is an entry.
LEMMA EntryTypes ==
  /\ NoTask \in Entry
  /\ \A f \in Fibers \cup {None}, p \in Threads \cup {AnyThread} : FiberEntry(f, p) \in Entry
  /\ \A c \in Cbs, p \in Threads \cup {AnyThread} : CbEntry(c, p) \in Entry
  /\ \A e \in Calls : e \in Entry
<1>1. /\ NoTask \in Entry
      /\ \A f \in Fibers \cup {None}, p \in Threads \cup {AnyThread} : FiberEntry(f, p) \in Entry
      /\ \A c \in Cbs, p \in Threads \cup {AnyThread} : CbEntry(c, p) \in Entry
  BY DEF NoTask, FiberEntry, CbEntry, Entry, Fibers
<1> QED BY <1>1, ConstantsAssumption DEF Calls, Fibers

\* scheduleNoLock keeps the queue a sequence of entries.
LEMMA PushType ==
  ASSUME NEW q \in Seq(Entry), NEW e \in Entry
  PROVE  Push(q, e) \in Seq(Entry)
BY DEF Push

\* So does erasing the entry at a position of the queue.
LEMMA EraseType ==
  ASSUME NEW q \in Seq(Entry), NEW i \in DOMAIN q
  PROVE  Erase(q, i) \in Seq(Entry)
<1>1. Len(q) \in Nat /\ i \in 1..Len(q)
  OBVIOUS
<1>2. \A j \in 1..(Len(q) - 1) : (IF j < i THEN q[j] ELSE q[j + 1]) \in Entry
  BY <1>1
<1>3. Erase(q, i) \in [1..(Len(q) - 1) -> Entry]
  BY <1>2 DEF Erase
<1> QED BY <1>1, <1>3

\* The scan returns a position whose entry the thread may take, or 0 and there
\* is none.
LEMMA FirstForScan ==
  ASSUME Types, NEW t
  PROVE  \/ FirstFor(t) = 0 /\ \A i \in DOMAIN m_fibers : ~Takes(t, m_fibers[i])
         \/ FirstFor(t) \in DOMAIN m_fibers /\ FirstFor(t) # 0 /\ Takes(t, m_fibers[FirstFor(t)])
<1> DEFINE T == {i \in DOMAIN m_fibers : Takes(t, m_fibers[i])}
<1>1. CASE T = {}
  BY <1>1 DEF FirstFor
<1>2. CASE T # {}
  <2>1. T \subseteq Nat \ {0}
    BY DEF Types
  <2>2. \E i \in T : \A j \in T : ~(<<j, i>> \in OpToRel(<, Nat))
    BY <1>2, <2>1, WFMin, NatLessThanWellFounded
  <2>3. \E i \in T : \A j \in T : ~(j < i)
    BY <2>1, <2>2 DEF OpToRel
  <2>4. \E i \in DOMAIN m_fibers :
          /\ Takes(t, m_fibers[i])
          /\ \A j \in DOMAIN m_fibers : j < i => ~Takes(t, m_fibers[j])
    BY <2>3
  <2>5. FirstFor(t) \in T
    BY <2>4 DEF FirstFor
  <2> QED BY <2>1, <2>5
<1> QED BY <1>1, <1>2

\* Initially every variable has its type.
LEMMA TypesInit == Init => Types
<1> SUFFICES ASSUME Init PROVE Types
  OBVIOUS
<1>1. /\ m_fibers \in Seq(Entry)
      /\ ft \in [Threads -> Entry]
  BY EntryTypes DEF Init
<1>2. /\ m_stopping \in BOOLEAN /\ m_autoStop \in BOOLEAN /\ aborted \in BOOLEAN
      /\ m_threads \subseteq Workers /\ thrs \subseteq Workers /\ posted \subseteq Cbs
      /\ late \subseteq Fibers
      /\ opc \in OwnerPc
  BY DEF Init, OwnerPc
<1>3. /\ pc \in [Threads -> Pc]
      /\ cb_fiber \in [Threads -> Fibers \cup {None}]
      /\ idle_fiber \in [Threads -> State]
  BY DEF Init, Pc, State
<1>4. /\ mState \in [Fibers -> State]
      /\ mCallback \in [Fibers -> Fibers \cup {None}]
      /\ hand \in [Fibers -> {"none", "armed", "woken"}]
  BY DEF Init, State
<1>5. /\ yields \in [Fibers -> Nat]
      /\ entries \in [Fibers -> Nat]
  BY ConstantsAssumption DEF Init
<1> QED BY <1>1, <1>2, <1>3, <1>4, <1>5 DEF Types

\* A body that has yields left may use one.
LEMMA YieldsType ==
  ASSUME Types, NEW f, yields[f] > 0
  PROVE  [yields EXCEPT ![f] = @ - 1] \in [Fibers -> Nat]
<1>1. CASE f \in Fibers
  <2>1. yields[f] \in Nat
    BY <1>1 DEF Types
  <2>2. yields[f] - 1 \in Nat
    BY <2>1
  <2> QED BY <2>2 DEF Types
<1>2. CASE f \notin Fibers
  BY <1>2 DEF Types
<1> QED BY <1>1, <1>2

\* Calls of schedule() keep the types.
LEMMA ClientTypes ==
  ASSUME Types, NEW e \in Calls, Schedule(e), late' \subseteq Fibers
  PROVE  Types'
<1>1. e \in Entry
  BY EntryTypes
<1>2. m_fibers' \in Seq(Entry)
  BY <1>1, PushType DEF Schedule, Types
<1>3. posted' \subseteq Cbs /\ hand' \in [Fibers -> {"none", "armed", "woken"}]
  BY <1>1 DEF Schedule, Passed, Types, Entry
<1> QED BY <1>2, <1>3 DEF Schedule, Types, stopVars, countVars, threadVars

\* Calls of the batch form of schedule() keep the types.
LEMMA BatchTypes ==
  ASSUME Types, NEW e1 \in Calls, NEW e2 \in Calls, ScheduleBatch(e1, e2)
  PROVE  Types'
<1>1. e1 \in Entry /\ e2 \in Entry
  BY EntryTypes
<1>2. m_fibers' \in Seq(Entry)
  BY <1>1, PushType DEF ScheduleBatch, Types
<1>3. posted' \subseteq Cbs /\ hand' \in [Fibers -> {"none", "armed", "woken"}]
  BY <1>1 DEF ScheduleBatch, Types, Entry
<1>4. late' \subseteq Fibers
  BY <1>1 DEF ScheduleBatch, Outside, Types, Entry, Fibers
<1> QED BY <1>2, <1>3, <1>4 DEF ScheduleBatch, Types, stopVars, countVars, threadVars

\* So does every step of the owner.
LEMMA OwnerTypes == Types /\ Owner => Types'
<1> SUFFICES ASSUME Types, Owner PROVE Types'
  OBVIOUS
<1> USE DEF Types, queueVars, stopVars, countVars, fiberVars, threadVars, OwnerPc
<1>1. CASE Abort
  BY <1>1 DEF Abort
<1>2. ASSUME NEW W \in SUBSET Workers, Start(W), ~Abort PROVE Types'
  BY <1>2 DEF Start, Pc
<1>3. CASE StopBegin
  BY <1>3 DEF StopBegin
<1>4. CASE StopEarly
  BY <1>4 DEF StopEarly
<1>5. CASE StopSet
  BY <1>5 DEF StopSet
<1>6. CASE StopCall
  BY <1>6 DEF StopCall, Pc
<1>7. CASE RootBack
  BY <1>7 DEF RootBack
<1>8. CASE StopSwap
  BY <1>8 DEF StopSwap
<1>9. CASE StopJoin
  BY <1>9 DEF StopJoin
<1>10. CASE Destroy /\ ~Abort
  BY <1>10 DEF Destroy
<1> QED BY <1>1, <1>2, <1>3, <1>4, <1>5, <1>6, <1>7, <1>8, <1>9, <1>10 DEF Owner

\* Resuming a fiber keeps the types.
LEMMA EnterTypes ==
  ASSUME Types, NEW f, NEW b \in Fibers \cup {None},
         NEW s, Enter(f, b, s)
  PROVE  /\ mState' \in [Fibers -> State]
         /\ mCallback' \in [Fibers -> Fibers \cup {None}]
         /\ hand' \in [Fibers -> {"none", "armed", "woken"}]
         /\ entries' \in [Fibers -> Nat]
         /\ yields' = yields
<1>1. \A g \in Fibers : entries[g] \in Nat /\ entries[g] + 1 \in Nat
  BY DEF Types
<1>2. entries' \in [Fibers -> Nat]
  BY <1>1 DEF Enter
<1> QED BY <1>2 DEF Types, Enter, State

\* So does every step of run().
LEMMA RunTypes ==
  ASSUME Types, NEW t \in Threads, Run(t)
  PROVE  Types'
<1> USE DEF queueVars, stopVars, countVars, fiberVars, threadVars
<1>0. /\ ft[t] \in Entry /\ cb_fiber[t] \in Fibers \cup {None}
      /\ ft[t].fiber \in Fibers \cup {None} /\ ft[t].cb \in Cbs \cup {None}
      /\ ft[t].thread \in Threads \cup {AnyThread}
  BY DEF Types, Entry
<1>1. CASE Abort
  BY <1>1 DEF Abort, Types
<1>2. CASE Pick(t) /\ ~Abort
  <2> DEFINE i == FirstFor(t)
  <2>1. i = 0 \/ i \in DOMAIN m_fibers
    BY FirstForScan
  <2>2. i # 0 => m_fibers[i] \in Entry /\ Erase(m_fibers, i) \in Seq(Entry)
    BY <2>1, EraseType DEF Types
  <2>3. /\ ft' = [ft EXCEPT ![t] = IF i = 0 THEN NoTask ELSE m_fibers[i]]
        /\ m_fibers' = IF i = 0 THEN m_fibers ELSE Erase(m_fibers, i)
        /\ pc' = [pc EXCEPT ![t] = "dispatch"]
        /\ UNCHANGED <<posted, late, stopVars, m_idleThreadCount, fiberVars,
                       cb_fiber, idle_fiber, aborted>>
    BY <1>2 DEF Pick
  <2> HIDE DEF i
  <2>4. ft' \in [Threads -> Entry] /\ m_fibers' \in Seq(Entry) /\ pc' \in [Threads -> Pc]
    BY <2>2, <2>3, EntryTypes DEF Types, Pc
  <2> QED BY <2>3, <2>4 DEF Types
<1>3. CASE DispatchFiber(t) /\ ~Abort
  <2>1. mCallback[ft[t].fiber] \in Fibers \cup {None}
    BY <1>0, <1>3 DEF DispatchFiber, Types
  <2>2. /\ Enter(ft[t].fiber, mCallback[ft[t].fiber], mState[ft[t].fiber])
        /\ pc' = [pc EXCEPT ![t] = "exec"]
        /\ UNCHANGED <<queueVars, stopVars, countVars, ft, cb_fiber, idle_fiber, aborted>>
    BY <1>3 DEF DispatchFiber
  <2> QED BY <2>1, <2>2, EnterTypes DEF Types, Pc
<1>4. CASE DispatchCb(t) /\ ~Abort
  <2> DEFINE f == IF cb_fiber[t] # None THEN cb_fiber[t] ELSE ft[t].cb
  <2>1. ft[t].cb \in Fibers /\ f \in Fibers
    BY <1>0, <1>4 DEF DispatchCb, Fibers
  <2>2. /\ Enter(f, ft[t].cb, "INIT")
        /\ ft' = [ft EXCEPT ![t] = NoTask]
        /\ cb_fiber' = [cb_fiber EXCEPT ![t] = f]
        /\ pc' = [pc EXCEPT ![t] = "exec"]
        /\ UNCHANGED <<m_fibers, posted, late, stopVars, countVars, idle_fiber, aborted>>
    BY <1>4 DEF DispatchCb
  <2> HIDE DEF f
  <2> QED BY <2>1, <2>2, EnterTypes, EntryTypes DEF Types, Pc
<1>5. CASE SkipDead(t)
  BY <1>5, EntryTypes DEF SkipDead, Types, Pc
<1>6. CASE RunExit(t)
  BY <1>6 DEF RunExit, Types, Pc
<1>7. CASE IdleIn(t)
  BY <1>7 DEF IdleIn, Types, Pc, State
<1>8. CASE Idle(t)
  BY <1>8 DEF Idle, Types, Pc, State
<1>9. CASE IdleReturned(t)
  BY <1>9 DEF IdleReturned, Settled, Types, Pc, State
<1>10. CASE Returned(t)
  BY <1>10 DEF Returned, Types, Pc
<1>11. \A f \in Fibers \cup {None} : Push(m_fibers, FiberEntry(f, AnyThread)) \in Seq(Entry)
  BY EntryTypes, PushType DEF Types
<1>12. CASE AfterFiber(t)
  <2>1. m_fibers' \in Seq(Entry)
    BY <1>0, <1>11, <1>12 DEF AfterFiber, Types
  <2>2. mState' \in [Fibers -> State] /\ ft' \in [Threads -> Entry] /\ pc' \in [Threads -> Pc]
    BY <1>12, EntryTypes DEF AfterFiber, Settled, Types, State, Pc
  <2> QED BY <1>12, <2>1, <2>2 DEF AfterFiber, Types
<1>13. CASE AfterCb(t)
  <2>1. m_fibers' \in Seq(Entry)
    BY <1>0, <1>11, <1>13 DEF AfterCb, Types
  <2>2. /\ mState' \in [Fibers -> State] /\ mCallback' \in [Fibers -> Fibers \cup {None}]
        /\ cb_fiber' \in [Threads -> Fibers \cup {None}] /\ pc' \in [Threads -> Pc]
    BY <1>13 DEF AfterCb, Settled, Types, State, Pc
  <2> QED BY <1>13, <2>1, <2>2 DEF AfterCb, Types
<1> QED BY <1>1, <1>2, <1>3, <1>4, <1>5, <1>6, <1>7, <1>8, <1>9, <1>10, <1>12, <1>13 DEF Run

\* And so does every step of a body.
LEMMA BodyTypes ==
  ASSUME Types, NEW t \in Threads, BodyLeaves(t) \/ BodyStays(t)
  PROVE  Types'
<1> USE DEF queueVars, stopVars, countVars, fiberVars, threadVars
<1>1. CASE Abort
  BY <1>1 DEF Abort, Types
<1>2. CASE YieldToReady(t) /\ ~Abort
  <2>1. yields' \in [Fibers -> Nat]
    BY <1>2, YieldsType DEF YieldToReady
  <2> QED BY <1>2, <2>1 DEF YieldToReady, Types, State, Pc
<1>3. CASE YieldToHold(t) /\ ~Abort
  BY <1>3 DEF YieldToHold, Types, Pc
<1>4. CASE BodyReturns(t)
  BY <1>4 DEF BodyReturns, Types, State, Pc
<1>5. CASE BodyThrows(t)
  BY <1>5 DEF BodyThrows, Types, State, Pc
<1>6. CASE SwapOut(t)
  BY <1>6 DEF SwapOut, Types, Pc
<1>7. CASE HandOff(t)
  <2>1. yields' \in [Fibers -> Nat] /\ hand' \in [Fibers -> {"none", "armed", "woken"}]
    BY <1>7, YieldsType DEF HandOff, Types
  <2> QED BY <1>7, <2>1 DEF HandOff, Types
<1>8. ASSUME NEW e \in Calls, BodySchedule(t, e) PROVE Types'
  <2>1. late' \subseteq Fibers
    BY <1>8, EntryTypes DEF BodySchedule, Types, Entry, Fibers
  <2> QED BY <1>8, <2>1, ClientTypes DEF BodySchedule
<1>9. ASSUME NEW p \in Pins, SwitchTo(t, p) PROVE Types'
  <2>1. Cur(t) \in Fibers \cup {None} /\ p \in Threads \cup {AnyThread}
    BY ConstantsAssumption DEF Cur, Types, Entry
  <2>2. m_fibers' \in Seq(Entry)
    BY <1>9, <2>1, EntryTypes, PushType DEF SwitchTo, Types
  <2>3. /\ yields' \in [Fibers -> Nat] /\ hand' \in [Fibers -> {"none", "armed", "woken"}]
    BY <1>9, <2>1, YieldsType DEF SwitchTo, Types
  <2> QED BY <1>9, <2>2, <2>3 DEF SwitchTo, Types
<1> QED BY <1>1, <1>2, <1>3, <1>4, <1>5, <1>6, <1>7, <1>8, <1>9 DEF BodyLeaves, BodyStays

----------------------------------------------------------------------------
(* The counters *)

\* The owner enters run() once, from stop(), and never leaves it again.
RootInv ==
  Root \in Threads /\ opc \notin {"in_root", "undefined"} => pc[Root] = "unborn"

CountInv == CtorTypes /\ Types /\ RootInv /\ CountsExact

\* There are finitely many threads, so the sets counted are finite.
LEMMA CountedFinite ==
  /\ IsFiniteSet(Threads) /\ IsFiniteSet(ActiveSet) /\ IsFiniteSet(IdleSet)
<1>1. IsFiniteSet(Threads)
  BY ConstantsAssumption, FS_AddElement DEF Threads
<1>2. ActiveSet \in SUBSET Threads /\ IdleSet \in SUBSET Threads
  BY DEF ActiveSet, IdleSet
<1> QED BY <1>1, <1>2, FS_Subset

\* A step of thread t that enters or leaves a counted phase moves the counter
\* by one, and no other thread's membership changes.
LEMMA CountsFollow ==
  ASSUME CountsExact, NEW t \in Threads,
         \A u \in Threads : u # t => pc'[u] = pc[u] /\ ft'[u] = ft[u],
         m_activeThreadCount' = m_activeThreadCount +
           (IF t \in ActiveSet' THEN 1 ELSE 0) - (IF t \in ActiveSet THEN 1 ELSE 0),
         m_idleThreadCount' = m_idleThreadCount +
           (IF t \in IdleSet' THEN 1 ELSE 0) - (IF t \in IdleSet THEN 1 ELSE 0)
  PROVE  CountsExact'
<1>1. ActiveSet' = IF t \in ActiveSet' THEN ActiveSet \cup {t} ELSE ActiveSet \ {t}
  BY DEF ActiveSet, Active
<1>2. IdleSet' = IF t \in IdleSet' THEN IdleSet \cup {t} ELSE IdleSet \ {t}
  BY DEF IdleSet
<1>3. Cardinality(ActiveSet) \in Nat /\ Cardinality(IdleSet) \in Nat
  BY CountedFinite, FS_CardinalityType
<1>4. m_activeThreadCount = Cardinality(ActiveSet) /\ m_idleThreadCount = Cardinality(IdleSet)
  BY DEF CountsExact, ActiveSet, IdleSet
<1>5. m_activeThreadCount' = Cardinality(ActiveSet')
  <2>1. Cardinality(ActiveSet \cup {t}) =
          IF t \in ActiveSet THEN Cardinality(ActiveSet) ELSE Cardinality(ActiveSet) + 1
    BY CountedFinite, FS_AddElement
  <2>2. Cardinality(ActiveSet \ {t}) =
          IF t \in ActiveSet THEN Cardinality(ActiveSet) - 1 ELSE Cardinality(ActiveSet)
    BY CountedFinite, FS_RemoveElement
  <2>3. CASE t \in ActiveSet'
    <3>1. ActiveSet' = ActiveSet \cup {t}
      BY <1>1, <2>3
    <3>2. CASE t \in ActiveSet
      BY <1>3, <1>4, <2>1, <2>3, <3>1, <3>2
    <3>3. CASE t \notin ActiveSet
      BY <1>3, <1>4, <2>1, <2>3, <3>1, <3>3
    <3> QED BY <3>2, <3>3
  <2>4. CASE t \notin ActiveSet'
    <3>1. ActiveSet' = ActiveSet \ {t}
      BY <1>1, <2>4
    <3>2. CASE t \in ActiveSet
      BY <1>3, <1>4, <2>2, <2>4, <3>1, <3>2
    <3>3. CASE t \notin ActiveSet
      BY <1>3, <1>4, <2>2, <2>4, <3>1, <3>3
    <3> QED BY <3>2, <3>3
  <2> QED BY <2>3, <2>4
<1>6. m_idleThreadCount' = Cardinality(IdleSet')
  <2>1. Cardinality(IdleSet \cup {t}) =
          IF t \in IdleSet THEN Cardinality(IdleSet) ELSE Cardinality(IdleSet) + 1
    BY CountedFinite, FS_AddElement
  <2>2. Cardinality(IdleSet \ {t}) =
          IF t \in IdleSet THEN Cardinality(IdleSet) - 1 ELSE Cardinality(IdleSet)
    BY CountedFinite, FS_RemoveElement
  <2>3. CASE t \in IdleSet'
    <3>1. IdleSet' = IdleSet \cup {t}
      BY <1>2, <2>3
    <3>2. CASE t \in IdleSet
      BY <1>3, <1>4, <2>1, <2>3, <3>1, <3>2
    <3>3. CASE t \notin IdleSet
      BY <1>3, <1>4, <2>1, <2>3, <3>1, <3>3
    <3> QED BY <3>2, <3>3
  <2>4. CASE t \notin IdleSet'
    <3>1. IdleSet' = IdleSet \ {t}
      BY <1>2, <2>4
    <3>2. CASE t \in IdleSet
      BY <1>3, <1>4, <2>2, <2>4, <3>1, <3>2
    <3>3. CASE t \notin IdleSet
      BY <1>3, <1>4, <2>2, <2>4, <3>1, <3>3
    <3> QED BY <3>2, <3>3
  <2> QED BY <2>3, <2>4
<1> QED BY <1>5, <1>6 DEF CountsExact, ActiveSet, IdleSet

\* Steps that move no thread in or out of a counted phase keep the counters.
LEMMA CountsSame ==
  ASSUME CountsExact, UNCHANGED countVars, ActiveSet' = ActiveSet, IdleSet' = IdleSet
  PROVE  CountsExact'
  BY DEF CountsExact, countVars, ActiveSet, IdleSet

\* Initially no thread runs and both counters are zero.
LEMMA CountInit == Init => RootInv /\ CountsExact
<1> SUFFICES ASSUME Init PROVE RootInv /\ CountsExact
  OBVIOUS
<1>1. ActiveSet = {} /\ IdleSet = {}
  BY DEF Init, ActiveSet, IdleSet, Active
<1> QED BY <1>1, FS_EmptySet DEF Init, RootInv, CountsExact, ActiveSet, IdleSet

\* Steps of the owner and of clients move no thread that is counted.
LEMMA OwnerCounts ==
  ASSUME Types, RootInv, CountsExact, Owner \/ Client
  PROVE  RootInv' /\ CountsExact'
<1> USE DEF queueVars, stopVars, countVars, fiberVars, threadVars
<1>1. ASSUME UNCHANGED <<pc, ft, countVars>>,
             opc' \in {"in_root", "undefined"} \/ opc \notin {"in_root", "undefined"}
      PROVE  RootInv' /\ CountsExact'
  BY <1>1 DEF RootInv, CountsExact, Active, IsNull
<1>2. CASE Abort
  BY <1>1, <1>2 DEF Abort
<1>3. ASSUME NEW W \in SUBSET Workers, Start(W), ~Abort PROVE RootInv' /\ CountsExact'
  <2>1. /\ pc' = [t \in Threads |-> IF t \in W THEN "pick" ELSE pc[t]]
        /\ \A t \in W : pc[t] = "unborn"
        /\ opc = "ready" /\ opc' = "started" /\ UNCHANGED <<ft, countVars>>
    BY <1>3 DEF Start
  <2>2. ActiveSet' = ActiveSet
    BY <2>1 DEF ActiveSet, Active, IsNull
  <2>3. IdleSet' = IdleSet
    BY <2>1 DEF IdleSet
  <2>4. RootInv'
    BY <2>1, ConstantsAssumption DEF RootInv
  <2> QED BY <2>1, <2>2, <2>3, <2>4, CountsSame
<1>4. CASE StopCall
  <2>1. opc = "stop_call" /\ UNCHANGED <<ft, countVars>>
        /\ \/ opc' = "stop_swap" /\ UNCHANGED pc
           \/ opc' = "in_root" /\ pc' = [pc EXCEPT ![Root] = "pick"]
    BY <1>4 DEF StopCall
  <2>2. \A t \in Threads : pc'[t] = pc[t] \/ (pc'[t] = "pick" /\ pc[t] = "unborn")
    BY <2>1 DEF RootInv, Types
  <2>3. ActiveSet' = ActiveSet
    BY <2>1, <2>2 DEF ActiveSet, Active, IsNull
  <2>4. IdleSet' = IdleSet
    BY <2>1, <2>2 DEF IdleSet
  <2>5. RootInv'
    BY <2>1 DEF RootInv
  <2> QED BY <2>1, <2>3, <2>4, <2>5, CountsSame
<1>5. CASE StopBegin \/ StopEarly \/ StopSet \/ StopSwap \/ StopJoin
  BY <1>1, <1>5 DEF StopBegin, StopEarly, StopSet, StopSwap, StopJoin
<1>6. CASE RootBack
  BY <1>1, <1>6 DEF RootBack
<1>7. CASE Destroy /\ ~Abort
  BY <1>1, <1>7 DEF Destroy
<1>8. ASSUME NEW e \in Calls, ClientSchedule(e) PROVE RootInv' /\ CountsExact'
  BY <1>1, <1>8 DEF ClientSchedule, Schedule
<1>9. ASSUME NEW e1 \in Calls, NEW e2 \in Calls, ScheduleBatch(e1, e2)
      PROVE  RootInv' /\ CountsExact'
  BY <1>1, <1>9 DEF ScheduleBatch
<1> QED BY <1>2, <1>3, <1>4, <1>5, <1>6, <1>7, <1>8, <1>9 DEF Owner, Client

\* The steps of thread t: the counter moves exactly when t enters or leaves.
LEMMA ThreadCounts ==
  ASSUME Types, RootInv, CountsExact, NEW t \in Threads,
         Run(t) \/ BodyLeaves(t) \/ BodyStays(t)
  PROVE  RootInv' /\ CountsExact'
<1> USE DEF queueVars, stopVars, countVars, fiberVars, threadVars
<1> DEFINE Moves(a, b) == /\ m_activeThreadCount' = m_activeThreadCount + a
                          /\ m_idleThreadCount' = m_idleThreadCount + b
<1>0. /\ m_activeThreadCount \in Int /\ m_idleThreadCount \in Int
      /\ pc \in [Threads -> Pc] /\ ft \in [Threads -> Entry]
      /\ t \in ActiveSet <=> Active(t)
      /\ t \in IdleSet <=> pc[t] \in {"idle", "idle_ret"}
  BY CountedFinite, FS_CardinalityType DEF CountsExact, ActiveSet, IdleSet, Types
<1>1. ASSUME \A u \in Threads : u # t => pc'[u] = pc[u] /\ ft'[u] = ft[u],
             opc' = opc, pc[t] # "unborn",
             NEW a \in {-1, 0, 1}, NEW b \in {-1, 0, 1}, Moves(a, b),
             a = (IF t \in ActiveSet' THEN 1 ELSE 0) - (IF t \in ActiveSet THEN 1 ELSE 0),
             b = (IF t \in IdleSet' THEN 1 ELSE 0) - (IF t \in IdleSet THEN 1 ELSE 0)
      PROVE  RootInv' /\ CountsExact'
  <2>1. RootInv'
    BY <1>1 DEF RootInv
  <2>2. /\ m_activeThreadCount' = m_activeThreadCount +
              (IF t \in ActiveSet' THEN 1 ELSE 0) - (IF t \in ActiveSet THEN 1 ELSE 0)
        /\ m_idleThreadCount' = m_idleThreadCount +
              (IF t \in IdleSet' THEN 1 ELSE 0) - (IF t \in IdleSet THEN 1 ELSE 0)
    BY <1>0, <1>1
  <2>3. CountsExact'
    BY <1>1, <2>2, CountsFollow
  <2> QED BY <2>1, <2>3
<1>2. CASE Abort
  BY <1>2 DEF Abort, RootInv, CountsExact, Active, IsNull
<1>3. CASE Pick(t) /\ ~Abort
  <2> DEFINE i == FirstFor(t)
  <2>1. /\ ft' = [ft EXCEPT ![t] = IF i = 0 THEN NoTask ELSE m_fibers[i]]
        /\ pc[t] = "pick" /\ pc' = [pc EXCEPT ![t] = "dispatch"] /\ opc' = opc
        /\ Moves(IF i = 0 THEN 0 ELSE 1, 0)
        /\ i # 0 => ~IsNull(m_fibers[i])
    BY <1>0, <1>3 DEF Pick
  <2> HIDE DEF i
  <2>2. pc'[t] = "dispatch" /\ ft'[t] = (IF i = 0 THEN NoTask ELSE m_fibers[i])
    BY <1>0, <2>1
  <2>3. \A u \in Threads : u # t => pc'[u] = pc[u] /\ ft'[u] = ft[u]
    BY <1>0, <2>1
  <2>4. t \notin ActiveSet /\ t \notin IdleSet /\ t \notin IdleSet'
    BY <2>1, <2>2 DEF ActiveSet, IdleSet, Active
  <2>5. t \in ActiveSet' <=> i # 0
    BY <2>1, <2>2 DEF ActiveSet, Active, IsNull, NoTask
  <2>6. CASE i = 0
    BY <1>1, <2>1, <2>3, <2>4, <2>5, <2>6
  <2>7. CASE i # 0
    BY <1>1, <2>1, <2>3, <2>4, <2>5, <2>7
  <2> QED BY <2>6, <2>7
<1>4. CASE DispatchFiber(t) /\ ~Abort
  <2>1. /\ \A u \in Threads : u # t => pc'[u] = pc[u] /\ ft'[u] = ft[u]
        /\ opc' = opc /\ pc[t] # "unborn" /\ Moves(0, 0)
    BY <1>0, <1>4 DEF DispatchFiber
  <2>2. /\ t \in ActiveSet' <=> t \in ActiveSet
        /\ t \in IdleSet' <=> t \in IdleSet
    BY <1>0, <1>4 DEF DispatchFiber, ActiveSet, IdleSet, Active, IsNull
  <2> QED BY <1>1, <2>1, <2>2
<1>5. CASE DispatchCb(t) /\ ~Abort
  <2>1. /\ \A u \in Threads : u # t => pc'[u] = pc[u] /\ ft'[u] = ft[u]
        /\ opc' = opc /\ pc[t] # "unborn" /\ Moves(0, 0)
    BY <1>0, <1>5 DEF DispatchCb
  <2>2. /\ t \in ActiveSet' <=> t \in ActiveSet
        /\ t \in IdleSet' <=> t \in IdleSet
    BY <1>0, <1>5 DEF DispatchCb, ActiveSet, IdleSet, Active, IsNull
  <2> QED BY <1>1, <2>1, <2>2
<1>6. CASE SkipDead(t)
  <2>1. /\ \A u \in Threads : u # t => pc'[u] = pc[u] /\ ft'[u] = ft[u]
        /\ opc' = opc /\ pc[t] # "unborn" /\ Moves(-1, 0)
    BY <1>0, <1>6 DEF SkipDead
  <2>2. /\ t \notin ActiveSet' /\ t \in ActiveSet
        /\ t \in IdleSet' <=> t \in IdleSet
    BY <1>0, <1>6 DEF SkipDead, ActiveSet, IdleSet, Active, IsNull, NoTask
  <2> QED BY <1>1, <2>1, <2>2
<1>7. CASE RunExit(t)
  <2>1. /\ \A u \in Threads : u # t => pc'[u] = pc[u] /\ ft'[u] = ft[u]
        /\ opc' = opc /\ pc[t] # "unborn" /\ Moves(0, 0)
    BY <1>0, <1>7 DEF RunExit
  <2>2. /\ t \in ActiveSet' <=> t \in ActiveSet
        /\ t \in IdleSet' <=> t \in IdleSet
    BY <1>0, <1>7 DEF RunExit, ActiveSet, IdleSet, Active, IsNull
  <2> QED BY <1>1, <2>1, <2>2
<1>8. CASE IdleIn(t)
  <2>1. /\ \A u \in Threads : u # t => pc'[u] = pc[u] /\ ft'[u] = ft[u]
        /\ opc' = opc /\ pc[t] # "unborn" /\ Moves(0, 1)
    BY <1>0, <1>8 DEF IdleIn
  <2>2. /\ t \in ActiveSet' <=> t \in ActiveSet
        /\ t \in IdleSet' /\ t \notin IdleSet
    BY <1>0, <1>8 DEF IdleIn, ActiveSet, IdleSet, Active, IsNull
  <2> QED BY <1>1, <2>1, <2>2
<1>9. CASE Idle(t)
  <2>1. /\ \A u \in Threads : u # t => pc'[u] = pc[u] /\ ft'[u] = ft[u]
        /\ opc' = opc /\ pc[t] # "unborn" /\ Moves(0, 0)
    BY <1>0, <1>9 DEF Idle
  <2>2. /\ t \in ActiveSet' <=> t \in ActiveSet
        /\ t \in IdleSet' <=> t \in IdleSet
    BY <1>0, <1>9 DEF Idle, ActiveSet, IdleSet, Active, IsNull
  <2> QED BY <1>1, <2>1, <2>2
<1>10. CASE IdleReturned(t)
  <2>1. /\ \A u \in Threads : u # t => pc'[u] = pc[u] /\ ft'[u] = ft[u]
        /\ opc' = opc /\ pc[t] # "unborn" /\ Moves(0, -1)
    BY <1>0, <1>10 DEF IdleReturned
  <2>2. /\ t \in ActiveSet' <=> t \in ActiveSet
        /\ t \notin IdleSet' /\ t \in IdleSet
    BY <1>0, <1>10 DEF IdleReturned, ActiveSet, IdleSet, Active, IsNull
  <2> QED BY <1>1, <2>1, <2>2
<1>11. CASE Returned(t)
  <2>1. /\ \A u \in Threads : u # t => pc'[u] = pc[u] /\ ft'[u] = ft[u]
        /\ opc' = opc /\ pc[t] # "unborn" /\ Moves(-1, 0)
    BY <1>0, <1>11 DEF Returned
  <2>2. /\ t \notin ActiveSet' /\ t \in ActiveSet
        /\ t \in IdleSet' <=> t \in IdleSet
    BY <1>0, <1>11 DEF Returned, ActiveSet, IdleSet, Active, IsNull
  <2> QED BY <1>1, <2>1, <2>2
<1>12. CASE AfterFiber(t)
  <2>1. /\ \A u \in Threads : u # t => pc'[u] = pc[u] /\ ft'[u] = ft[u]
        /\ opc' = opc /\ pc[t] # "unborn" /\ Moves(0, 0)
    BY <1>0, <1>12 DEF AfterFiber
  <2>2. /\ t \in ActiveSet' <=> t \in ActiveSet
        /\ t \in IdleSet' <=> t \in IdleSet
    BY <1>0, <1>12 DEF AfterFiber, ActiveSet, IdleSet, Active, IsNull
  <2> QED BY <1>1, <2>1, <2>2
<1>13. CASE AfterCb(t)
  <2>1. /\ \A u \in Threads : u # t => pc'[u] = pc[u] /\ ft'[u] = ft[u]
        /\ opc' = opc /\ pc[t] # "unborn" /\ Moves(0, 0)
    BY <1>0, <1>13 DEF AfterCb
  <2>2. /\ t \in ActiveSet' <=> t \in ActiveSet
        /\ t \in IdleSet' <=> t \in IdleSet
    BY <1>0, <1>13 DEF AfterCb, ActiveSet, IdleSet, Active, IsNull
  <2> QED BY <1>1, <2>1, <2>2
<1>14. CASE YieldToReady(t) /\ ~Abort
  <2>1. /\ \A u \in Threads : u # t => pc'[u] = pc[u] /\ ft'[u] = ft[u]
        /\ opc' = opc /\ pc[t] # "unborn" /\ Moves(0, 0)
    BY <1>0, <1>14 DEF YieldToReady
  <2>2. /\ t \in ActiveSet' <=> t \in ActiveSet
        /\ t \in IdleSet' <=> t \in IdleSet
    BY <1>0, <1>14 DEF YieldToReady, ActiveSet, IdleSet, Active, IsNull
  <2> QED BY <1>1, <2>1, <2>2
<1>15. CASE YieldToHold(t) /\ ~Abort
  <2>1. /\ \A u \in Threads : u # t => pc'[u] = pc[u] /\ ft'[u] = ft[u]
        /\ opc' = opc /\ pc[t] # "unborn" /\ Moves(0, 0)
    BY <1>0, <1>15 DEF YieldToHold
  <2>2. /\ t \in ActiveSet' <=> t \in ActiveSet
        /\ t \in IdleSet' <=> t \in IdleSet
    BY <1>0, <1>15 DEF YieldToHold, ActiveSet, IdleSet, Active, IsNull
  <2> QED BY <1>1, <2>1, <2>2
<1>16. CASE BodyReturns(t)
  <2>1. /\ \A u \in Threads : u # t => pc'[u] = pc[u] /\ ft'[u] = ft[u]
        /\ opc' = opc /\ pc[t] # "unborn" /\ Moves(0, 0)
    BY <1>0, <1>16 DEF BodyReturns
  <2>2. /\ t \in ActiveSet' <=> t \in ActiveSet
        /\ t \in IdleSet' <=> t \in IdleSet
    BY <1>0, <1>16 DEF BodyReturns, ActiveSet, IdleSet, Active, IsNull
  <2> QED BY <1>1, <2>1, <2>2
<1>17. CASE BodyThrows(t)
  <2>1. /\ \A u \in Threads : u # t => pc'[u] = pc[u] /\ ft'[u] = ft[u]
        /\ opc' = opc /\ pc[t] # "unborn" /\ Moves(0, 0)
    BY <1>0, <1>17 DEF BodyThrows
  <2>2. /\ t \in ActiveSet' <=> t \in ActiveSet
        /\ t \in IdleSet' <=> t \in IdleSet
    BY <1>0, <1>17 DEF BodyThrows, ActiveSet, IdleSet, Active, IsNull
  <2> QED BY <1>1, <2>1, <2>2
<1>18. CASE SwapOut(t)
  <2>1. /\ \A u \in Threads : u # t => pc'[u] = pc[u] /\ ft'[u] = ft[u]
        /\ opc' = opc /\ pc[t] # "unborn" /\ Moves(0, 0)
    BY <1>0, <1>18 DEF SwapOut
  <2>2. /\ t \in ActiveSet' <=> t \in ActiveSet
        /\ t \in IdleSet' <=> t \in IdleSet
    BY <1>0, <1>18 DEF SwapOut, ActiveSet, IdleSet, Active, IsNull
  <2> QED BY <1>1, <2>1, <2>2
<1>19. CASE HandOff(t)
  <2>1. /\ \A u \in Threads : u # t => pc'[u] = pc[u] /\ ft'[u] = ft[u]
        /\ opc' = opc /\ pc[t] # "unborn" /\ Moves(0, 0)
    BY <1>0, <1>19 DEF HandOff
  <2>2. /\ t \in ActiveSet' <=> t \in ActiveSet
        /\ t \in IdleSet' <=> t \in IdleSet
    BY <1>0, <1>19 DEF HandOff, ActiveSet, IdleSet, Active, IsNull
  <2> QED BY <1>1, <2>1, <2>2
<1>20. ASSUME NEW e \in Calls, BodySchedule(t, e) PROVE RootInv' /\ CountsExact'
  BY <1>20 DEF BodySchedule, Schedule, RootInv, CountsExact, Active, IsNull
<1>21. ASSUME NEW p \in Pins, SwitchTo(t, p) PROVE RootInv' /\ CountsExact'
  BY <1>21 DEF SwitchTo, RootInv, CountsExact, Active, IsNull
<1> QED BY <1>2, <1>3, <1>4, <1>5, <1>6, <1>7, <1>8, <1>9, <1>10, <1>11, <1>12, <1>13, <1>14, <1>15, <1>16, <1>17, <1>18, <1>19, <1>20, <1>21
   DEF Run, BodyLeaves, BodyStays

\* The constructor's arguments give the types, threads - 1 included.
LEMMA CtorInit == Init => CtorTypes
<1> SUFFICES ASSUME NEW c \in Setups, use_caller = c[2],
                    m_threadCount = c[1] - (IF c[2] THEN 1 ELSE 0), habits = c[3]
             PROVE  CtorTypes
  BY DEF Init
<1>1. c[1] \in Nat \ {0} /\ c[2] \in BOOLEAN /\ c[3] \in Habits
  BY ConstantsAssumption
<1> QED BY <1>1 DEF CtorTypes

\* Types, the owner's single visit to run() and the counters are invariant.
LEMMA CountInvariant == Spec => []CountInv
<1>1. Init => CountInv
  BY TypesInit, CountInit, CtorInit DEF CountInv
<1>2. CountInv /\ [Next]_vars => CountInv'
  <2> SUFFICES ASSUME CountInv, [Next]_vars PROVE CountInv'
    OBVIOUS
  <2>1. CASE UNCHANGED vars
    BY <2>1 DEF vars, ctorVars, queueVars, stopVars, countVars, fiberVars, threadVars, CountInv,
                CtorTypes, Types, RootInv, CountsExact, Active, IsNull
  <2>2. CASE UNCHANGED ctorVars /\ Owner
    BY <2>2, OwnerTypes, OwnerCounts DEF CountInv, CtorTypes, ctorVars
  <2>3. CASE UNCHANGED ctorVars /\ Client
    <3>1. Types'
      <4>1. ASSUME NEW e \in Calls, ClientSchedule(e) PROVE Types'
        <5>1. late' \subseteq Fibers
          BY <4>1, EntryTypes DEF ClientSchedule, Outside, CountInv, Types, Entry, Fibers
        <5> QED BY <4>1, <5>1, ClientTypes DEF ClientSchedule, CountInv
      <4> QED BY <2>3, <4>1, BatchTypes DEF Client, CountInv
    <3> QED BY <2>3, <3>1, OwnerCounts DEF CountInv, CtorTypes, ctorVars
  <2>4. ASSUME NEW t \in Threads, UNCHANGED ctorVars, Run(t) \/ BodyLeaves(t) \/ BodyStays(t)
        PROVE  CountInv'
    BY <2>4, RunTypes, BodyTypes, ThreadCounts DEF CountInv, CtorTypes, ctorVars
  <2> QED BY <2>1, <2>2, <2>3, <2>4 DEF Next, Live
<1> QED BY <1>1, <1>2, PTL DEF Spec

\* m_activeThreadCount and m_idleThreadCount always count exactly the threads
\* with a task in hand and the threads inside idle(), so that the zero that
\* stopping() tests means what it says.
THEOREM CountsAreExact == Spec => []CountsExact
<1>1. CountInv => CountsExact
  BY DEF CountInv
<1> QED BY <1>1, CountInvariant, PTL

\* Every variable keeps its type; in particular the two size_t counters are
\* never decremented at zero.
THEOREM TypeCorrect == Spec => []TypeOK
<1>1. CountInv => TypeOK
  <2> SUFFICES ASSUME CountInv PROVE TypeOK
    OBVIOUS
  <2>1. m_activeThreadCount \in Nat /\ m_idleThreadCount \in Nat
    BY CountedFinite, FS_CardinalityType DEF CountInv, CountsExact, ActiveSet, IdleSet
  <2> QED BY <2>1 DEF CountInv, CtorTypes, Types, TypeOK
<1> QED BY <1>1, CountInvariant, PTL

----------------------------------------------------------------------------
(* Steps, by whose they are *)

\* A step of thread t is in run() or below it and touches no other thread.  Its
\* idle fiber ends only when stopping() is true.
LEMMA ThreadStep ==
  ASSUME Types, NEW t \in Threads, Run(t) \/ BodyLeaves(t) \/ BodyStays(t)
  PROVE  /\ UNCHANGED stopVars
         /\ pc[t] \notin {"unborn", "exited"} /\ pc'[t] # "unborn"
         /\ \A u \in Threads \ {t} : /\ pc'[u] = pc[u] /\ ft'[u] = ft[u]
                                     /\ cb_fiber'[u] = cb_fiber[u]
                                     /\ idle_fiber'[u] = idle_fiber[u]
         /\ idle_fiber'[t] = "TERM" => idle_fiber[t] = "TERM" \/ m_stopping
         /\ pc'[t] = "exited" => idle_fiber'[t] = "TERM"
<1> USE DEF queueVars, stopVars, countVars, fiberVars, threadVars, Types
<1>1. CASE DispatchFiber(t) \/ DispatchCb(t) \/ SkipDead(t) \/ RunExit(t) \/ Returned(t)
  <2>1. CASE DispatchFiber(t)
    BY <2>1 DEF DispatchFiber, Abort
  <2>2. CASE DispatchCb(t)
    BY <2>2 DEF DispatchCb, Abort
  <2>3. CASE SkipDead(t) \/ RunExit(t) \/ Returned(t)
    BY <2>3 DEF SkipDead, RunExit, Returned
  <2> QED BY <1>1, <2>1, <2>2, <2>3
<1>2. CASE Pick(t)
  BY <1>2 DEF Pick, Abort
<1>3. CASE IdleIn(t) \/ Idle(t) \/ IdleReturned(t)
  BY <1>3 DEF IdleIn, Idle, IdleReturned, Settled, Stopping
<1>4. CASE AfterFiber(t) \/ AfterCb(t)
  BY <1>4 DEF AfterFiber, AfterCb
<1>5. CASE BodyLeaves(t)
  BY <1>5 DEF BodyLeaves, YieldToReady, YieldToHold, BodyReturns, BodyThrows, SwapOut, Abort
<1>6. CASE BodyStays(t)
  BY <1>6 DEF BodyStays, HandOff, BodySchedule, Schedule, SwitchTo
<1> QED BY <1>1, <1>2, <1>3, <1>4, <1>5, <1>6 DEF Run

\* A call from outside changes nothing but the queue and the callers' records.
LEMMA ClientStep ==
  ASSUME Client
  PROVE  UNCHANGED <<stopVars, countVars, mState, mCallback, yields, entries, threadVars, aborted>>
BY DEF Client, ClientSchedule, Schedule, ScheduleBatch

----------------------------------------------------------------------------
(* Where the threads are while the owner is in start() and stop() *)

\* Every thread in run() is one that the owner still has to join, or the owner
\* itself; the owner has none while it is not between start() and join().
OwnerInv ==
  /\ opc \in {"ready", "stop_early", "stop_join", "destroyed"} => m_threads = {}
  /\ thrs # {} => opc = "stop_join"
  /\ m_threadCount = 0 => m_threads = {}
  /\ \A t \in Workers : pc[t] \notin {"unborn", "exited"} => t \in m_threads \cup thrs

\* m_stopping follows start() and stop(), and an idle fiber has ended only in a
\* thread that was started and saw stop() begin.
StopFlagInv ==
  /\ opc \in {"ready", "stop_call", "in_root", "stop_swap", "stop_join"} => m_stopping
  /\ opc = "started" => ~m_stopping
  /\ \A t \in Threads : pc[t] = "unborn" => idle_fiber[t] # "TERM"
  /\ \A t \in Threads : pc[t] = "exited" => idle_fiber[t] = "TERM"
  /\ \A t \in m_threads \cup thrs : pc[t] # "unborn"
  /\ opc = "started" => \A t \in m_threads : idle_fiber[t] # "TERM"

StopInv == OwnerInv /\ StopFlagInv

LEMMA StopInvInit == Init => StopInv
<1> SUFFICES ASSUME Init PROVE StopInv
  OBVIOUS
<1>1. /\ m_threads = {} /\ thrs = {} /\ opc = "ready" /\ m_stopping = TRUE
      /\ \A t \in Threads : pc[t] = "unborn" /\ idle_fiber[t] = "INIT"
  BY DEF Init
<1> QED BY <1>1 DEF StopInv, OwnerInv, StopFlagInv, Threads

\* Start creates m_threadCount threads, so none when that is zero.
LEMMA NoWorkers ==
  ASSUME NEW W \in SUBSET Workers, Cardinality(W) = 0
  PROVE  W = {}
<1>1. IsFiniteSet(W)
  BY ConstantsAssumption, FS_Subset
<1> QED BY <1>1, FS_EmptySet

LEMMA StopInvOwner ==
  ASSUME CountInv, StopInv, Owner, UNCHANGED ctorVars
  PROVE  StopInv'
<1> USE DEF queueVars, stopVars, countVars, fiberVars, threadVars, ctorVars, CountInv, Types
<1>1. ASSUME NEW W \in SUBSET Workers, Start(W) PROVE StopInv'
  <2>1. CASE Abort
    BY <2>1 DEF Abort, StopInv, OwnerInv, StopFlagInv
  <2>2. CASE ~Abort
    <3>1. /\ opc = "ready" /\ opc' = "started" /\ m_stopping' = FALSE
          /\ Cardinality(W) = m_threadCount /\ m_threads' = W /\ m_threads = {}
          /\ \A t \in W : pc[t] = "unborn"
          /\ pc' = [t \in Threads |-> IF t \in W THEN "pick" ELSE pc[t]]
          /\ thrs' = thrs /\ idle_fiber' = idle_fiber /\ W \subseteq Threads
      BY <1>1, <2>2 DEF Start, Threads
    <3>2. m_threadCount' = 0 => m_threads' = {}
      BY <3>1, NoWorkers
    <3>3. OwnerInv'
      BY <3>1, <3>2 DEF StopInv, OwnerInv, Threads
    <3>4. StopFlagInv'
      BY <3>1 DEF StopInv, OwnerInv, StopFlagInv
    <3> QED BY <3>3, <3>4 DEF StopInv
  <2> QED BY <2>1, <2>2
<1>2. CASE StopBegin
  BY <1>2 DEF StopBegin, StopInv, OwnerInv, StopFlagInv
<1>3. CASE StopEarly
  BY <1>3 DEF StopEarly, StopInv, OwnerInv, StopFlagInv
<1>4. CASE StopSet
  BY <1>4 DEF StopSet, StopInv, OwnerInv, StopFlagInv
<1>5. CASE StopCall
  <2>1. opc = "stop_call" /\ opc' \in {"stop_swap", "in_root"}
        /\ UNCHANGED <<m_stopping, m_threads, thrs, idle_fiber>>
        /\ \A t \in Threads : pc'[t] = pc[t] \/ (t = Root /\ pc'[t] = "pick")
    BY <1>5 DEF StopCall
  <2>2. OwnerInv'
    BY <2>1, ConstantsAssumption DEF StopInv, OwnerInv, Threads
  <2>3. StopFlagInv'
    BY <2>1, ConstantsAssumption DEF StopInv, StopFlagInv, Threads
  <2> QED BY <2>2, <2>3 DEF StopInv
<1>6. CASE RootBack
  BY <1>6 DEF RootBack, StopInv, OwnerInv, StopFlagInv
<1>7. CASE StopSwap
  BY <1>7 DEF StopSwap, StopInv, OwnerInv, StopFlagInv
<1>8. CASE StopJoin
  BY <1>8 DEF StopJoin, Joined, StopInv, OwnerInv, StopFlagInv
<1>9. CASE Destroy
  BY <1>9 DEF Destroy, Abort, StopInv, OwnerInv, StopFlagInv
<1> QED BY <1>1, <1>2, <1>3, <1>4, <1>5, <1>6, <1>7, <1>8, <1>9 DEF Owner

LEMMA StopInvThread ==
  ASSUME CountInv, StopInv, UNCHANGED ctorVars, NEW t \in Threads,
         Run(t) \/ BodyLeaves(t) \/ BodyStays(t)
  PROVE  StopInv'
<1> USE DEF stopVars, ctorVars
<1>1. /\ UNCHANGED stopVars
      /\ pc[t] \notin {"unborn", "exited"} /\ pc'[t] # "unborn"
      /\ \A u \in Threads \ {t} : pc'[u] = pc[u] /\ idle_fiber'[u] = idle_fiber[u]
      /\ idle_fiber'[t] = "TERM" => idle_fiber[t] = "TERM" \/ m_stopping
      /\ pc'[t] = "exited" => idle_fiber'[t] = "TERM"
  BY ThreadStep DEF CountInv
<1>2. m_threads \cup thrs \subseteq Threads
  BY DEF CountInv, Types, Threads
<1>3. OwnerInv'
  BY <1>1 DEF StopInv, OwnerInv, Threads
<1>4. StopFlagInv'
  BY <1>1, <1>2 DEF StopInv, StopFlagInv
<1> QED BY <1>3, <1>4 DEF StopInv

LEMMA StopInvariant == Spec => [](CountInv /\ StopInv)
<1>1. Init => StopInv
  BY StopInvInit
<1>2. CountInv /\ StopInv /\ [Next]_vars => StopInv'
  <2> SUFFICES ASSUME CountInv, StopInv, [Next]_vars PROVE StopInv'
    OBVIOUS
  <2>1. CASE UNCHANGED vars
    BY <2>1 DEF vars, ctorVars, stopVars, threadVars, StopInv, OwnerInv, StopFlagInv
  <2>2. CASE UNCHANGED ctorVars /\ Client
    BY <2>2, ClientStep DEF ctorVars, stopVars, threadVars, StopInv, OwnerInv, StopFlagInv
  <2> QED BY <2>1, <2>2, StopInvOwner, StopInvThread DEF Next, Live
<1> QED BY <1>1, <1>2, CountInvariant, PTL DEF Spec

\* When the destructor has run, no thread of the scheduler is in run(): all that
\* start() created have been joined, and the owner is not in its root fiber.
THEOREM DestroyIsSafe == Spec => []DestroySafe
<1>1. CountInv /\ StopInv => DestroySafe
  BY DEF CountInv, RootInv, StopInv, OwnerInv, DestroySafe, Threads
<1> QED BY <1>1, StopInvariant, PTL

----------------------------------------------------------------------------
(* The queue as a set of entries *)

Elems(q) == {q[i] : i \in DOMAIN q}

\* No two positions of q hold entries with the same key, None being no key.
Distinct(q, key) ==
  \A i, j \in DOMAIN q : key[q[i]] # None /\ key[q[i]] = key[q[j]] => i = j

\* The entries of the queue have their types.
LEMMA ElemsType ==
  ASSUME NEW q \in Seq(Entry)
  PROVE  /\ Elems(q) \subseteq Entry
         /\ \A e \in Elems(q) : /\ e.fiber \in Fibers \cup {None} /\ e.cb \in Cbs \cup {None}
                                /\ e.thread \in Threads \cup {AnyThread}
<1>1. Elems(q) \subseteq Entry
  BY DEF Elems
<1> QED BY <1>1 DEF Entry

\* What push_back adds: the entry, unless it is null.
LEMMA PushElems ==
  ASSUME NEW q \in Seq(Entry), NEW e \in Entry
  PROVE  /\ Elems(q) \subseteq Elems(Push(q, e))
         /\ Elems(Push(q, e)) \subseteq Elems(q) \cup {e}
         /\ IsNull(e) => Elems(Push(q, e)) = Elems(q)
         /\ ~IsNull(e) => e \in Elems(Push(q, e))
<1>1. CASE IsNull(e)
  BY <1>1 DEF Push, Elems
<1>2. CASE ~IsNull(e)
  <2>1. /\ Push(q, e) = Append(q, e) /\ Len(q) \in Nat
        /\ DOMAIN q = 1..Len(q) /\ DOMAIN Append(q, e) = 1..(Len(q) + 1)
        /\ \A i \in 1..Len(q) : Append(q, e)[i] = q[i]
        /\ Append(q, e)[Len(q) + 1] = e
    BY <1>2 DEF Push
  <2>2. \A i \in 1..(Len(q) + 1) : i \in 1..Len(q) \/ i = Len(q) + 1
    BY <2>1
  <2>3. Len(q) + 1 \in 1..(Len(q) + 1) /\ 1..Len(q) \subseteq 1..(Len(q) + 1)
    BY <2>1
  <2> QED BY <1>2, <2>1, <2>2, <2>3 DEF Elems
<1> QED BY <1>1, <1>2

LEMMA PushDistinct ==
  ASSUME NEW q \in Seq(Entry), NEW e \in Entry, NEW key, Distinct(q, key),
         \A x \in Elems(q) : key[e] # None => key[x] # key[e]
  PROVE  Distinct(Push(q, e), key)
<1>1. CASE IsNull(e)
  BY <1>1 DEF Push
<1>2. CASE ~IsNull(e)
  <2>1. /\ Push(q, e) = Append(q, e) /\ Len(q) \in Nat
        /\ DOMAIN q = 1..Len(q) /\ DOMAIN Append(q, e) = 1..(Len(q) + 1)
        /\ \A i \in 1..Len(q) : Append(q, e)[i] = q[i]
        /\ Append(q, e)[Len(q) + 1] = e
    BY <1>2 DEF Push
  <2>2. \A i \in 1..(Len(q) + 1) : i \in 1..Len(q) \/ i = Len(q) + 1
    BY <2>1
  <2>3. \A i \in 1..Len(q) : q[i] \in Elems(q)
    BY <2>1 DEF Elems
  <2> QED BY <2>1, <2>2, <2>3 DEF Distinct
<1> QED BY <1>1, <1>2

\* What erase leaves: the other positions, in order.
LEMMA EraseElems ==
  ASSUME NEW q \in Seq(Entry), NEW i \in DOMAIN q
  PROVE  /\ Elems(Erase(q, i)) \subseteq Elems(q)
         /\ Elems(q) \subseteq Elems(Erase(q, i)) \cup {q[i]}
         /\ \A key : Distinct(q, key) =>
              /\ Distinct(Erase(q, i), key)
              /\ key[q[i]] # None => \A x \in Elems(Erase(q, i)) : key[x] # key[q[i]]
<1> DEFINE r == Erase(q, i)
           from(j) == IF j < i THEN j ELSE j + 1
<1>1. Len(q) \in Nat /\ DOMAIN q = 1..Len(q) /\ i \in 1..Len(q) /\ DOMAIN r = 1..(Len(q) - 1)
  BY DEF Erase
<1>2. \A j \in DOMAIN r : from(j) \in DOMAIN q /\ from(j) # i /\ r[j] = q[from(j)]
  BY <1>1 DEF Erase
<1>3. \A j, k \in DOMAIN r : from(j) = from(k) => j = k
  BY <1>1
<1>4. \A k \in DOMAIN q : k # i => \E j \in DOMAIN r : from(j) = k
  <2> SUFFICES ASSUME NEW k \in DOMAIN q, k # i PROVE \E j \in DOMAIN r : from(j) = k
    OBVIOUS
  <2>1. CASE k < i
    BY <1>1, <2>1
  <2>2. CASE k > i
    <3>1. k - 1 \in DOMAIN r /\ from(k - 1) = k
      BY <1>1, <2>2
    <3> QED BY <3>1
  <2> QED BY <1>1, <2>1, <2>2
<1> HIDE DEF r, from
<1>5. Elems(r) \subseteq Elems(q)
  BY <1>2 DEF Elems
<1>6. Elems(q) \subseteq Elems(r) \cup {q[i]}
  BY <1>2, <1>4 DEF Elems
<1>7. ASSUME NEW key, Distinct(q, key)
      PROVE  /\ Distinct(r, key)
             /\ key[q[i]] # None => \A x \in Elems(r) : key[x] # key[q[i]]
  <2>1. Distinct(r, key)
    BY <1>2, <1>3, <1>7 DEF Distinct
  <2>2. ASSUME key[q[i]] # None, NEW j \in DOMAIN r PROVE key[r[j]] # key[q[i]]
    BY <1>2, <1>7, <2>2 DEF Distinct
  <2> QED BY <2>1, <2>2 DEF Elems
<1> QED BY <1>5, <1>6, <1>7 DEF r

----------------------------------------------------------------------------
(* Every callback is started once *)

CbOf == [e \in Entry |-> e.cb]

\* Where a posted callback is, with q the queue, P the posted callbacks, h what
\* the threads have taken and n how often each body was entered: in the queue or
\* in the hands of one thread and never entered, or entered once and in neither.
CbsKept(q, P, h, n) ==
  /\ \A e \in Elems(q) : e.cb # None => e.cb \in P /\ n[e.cb] = 0
  /\ \A t \in Threads : h[t].cb # None => h[t].cb \in P /\ n[h[t].cb] = 0
  /\ Distinct(q, CbOf)
  /\ \A t \in Threads : h[t].cb # None =>
       /\ \A e \in Elems(q) : e.cb # h[t].cb
       /\ \A u \in Threads : h[u].cb = h[t].cb => u = t
  /\ \A c \in P : \/ n[c] = 1
                  \/ \E e \in Elems(q) : e.cb = c
                  \/ \E t \in Threads : h[t].cb = c
  /\ \A c \in Cbs \ P : n[c] = 0

\* schedule() of a callback that was not posted yet, or of anything else.
LEMMA CbsPush ==
  ASSUME NEW q \in Seq(Entry), NEW P \in SUBSET Cbs, NEW h \in [Threads -> Entry],
         NEW n \in [Fibers -> Nat], CbsKept(q, P, h, n),
         NEW e \in Entry, e.cb \in (Cbs \ P) \cup {None}
  PROVE  CbsKept(Push(q, e), P \cup ({e.cb} \ {None}), h, n)
<1> DEFINE r == Push(q, e)
           R == P \cup ({e.cb} \ {None})
<1>1. /\ Elems(q) \subseteq Elems(r) /\ Elems(r) \subseteq Elems(q) \cup {e}
      /\ e.cb # None => e \in Elems(r)
  BY PushElems DEF IsNull
<1>2. Elems(q) \subseteq Entry
  BY DEF Elems
<1>3. Distinct(r, CbOf)
  <2>1. \A x \in Elems(q) : CbOf[e] # None => CbOf[x] # CbOf[e]
    BY <1>2 DEF CbsKept, CbOf
  <2> QED BY <2>1, PushDistinct DEF CbsKept
<1>4. \A x \in Elems(r) : x.cb # None => x.cb \in R /\ n[x.cb] = 0
  BY <1>1 DEF CbsKept
<1>5. \A t \in Threads : h[t].cb # None =>
        /\ h[t].cb \in R /\ n[h[t].cb] = 0
        /\ \A x \in Elems(r) : x.cb # h[t].cb
        /\ \A u \in Threads : h[u].cb = h[t].cb => u = t
  BY <1>1 DEF CbsKept
<1>6. \A c \in R : \/ n[c] = 1
                   \/ \E x \in Elems(r) : x.cb = c
                   \/ \E t \in Threads : h[t].cb = c
  BY <1>1 DEF CbsKept
<1>7. \A c \in Cbs \ R : n[c] = 0
  BY DEF CbsKept
<1> HIDE DEF r, R
<1> QED BY <1>3, <1>4, <1>5, <1>6, <1>7 DEF CbsKept, r, R

\* A thread takes the entry at position i.
LEMMA CbsTake ==
  ASSUME NEW q \in Seq(Entry), NEW P \in SUBSET Cbs, NEW h \in [Threads -> Entry],
         NEW n \in [Fibers -> Nat], CbsKept(q, P, h, n),
         NEW i \in DOMAIN q, NEW t \in Threads, h[t].cb = None
  PROVE  CbsKept(Erase(q, i), P, [h EXCEPT ![t] = q[i]], n)
<1> DEFINE r == Erase(q, i)
           k == [h EXCEPT ![t] = q[i]]
<1>1. /\ Elems(r) \subseteq Elems(q) /\ Elems(q) \subseteq Elems(r) \cup {q[i]}
      /\ Distinct(r, CbOf)
      /\ CbOf[q[i]] # None => \A x \in Elems(r) : CbOf[x] # CbOf[q[i]]
  BY EraseElems DEF CbsKept
<1>2. Elems(q) \subseteq Entry /\ q[i] \in Elems(q)
  BY DEF Elems
<1>3. q[i].cb # None => \A x \in Elems(r) : x.cb # q[i].cb
  BY <1>1, <1>2 DEF CbOf
<1>4. k[t] = q[i] /\ \A u \in Threads : u # t => k[u] = h[u]
  OBVIOUS
<1> HIDE DEF r, k
<1>5. /\ \A e \in Elems(r) : e.cb # None => e.cb \in P /\ n[e.cb] = 0
      /\ \A u \in Threads : k[u].cb # None => k[u].cb \in P /\ n[k[u].cb] = 0
  BY <1>1, <1>2, <1>4 DEF CbsKept
<1>6. \A u \in Threads : k[u].cb # None =>
        /\ \A e \in Elems(r) : e.cb # k[u].cb
        /\ \A v \in Threads : k[v].cb = k[u].cb => v = u
  BY <1>1, <1>2, <1>3, <1>4 DEF CbsKept
<1>7. \A c \in P : \/ n[c] = 1
                   \/ \E e \in Elems(r) : e.cb = c
                   \/ \E u \in Threads : k[u].cb = c
  <2> SUFFICES ASSUME NEW c \in P, n[c] # 1, ~\E e \in Elems(r) : e.cb = c
               PROVE  \E u \in Threads : k[u].cb = c
    OBVIOUS
  <2>1. CASE \E e \in Elems(q) : e.cb = c
    BY <1>1, <1>4, <2>1
  <2>2. CASE \E u \in Threads : h[u].cb = c
    <3>1. c # None
      BY ConstantsAssumption DEF Fibers
    <3> QED BY <1>4, <2>2, <3>1
  <2> QED BY <2>1, <2>2 DEF CbsKept
<1>8. \A c \in Cbs \ P : n[c] = 0
  BY DEF CbsKept
<1> QED BY <1>1, <1>5, <1>6, <1>7, <1>8 DEF CbsKept, r, k

\* The callback that a thread has taken is entered.
LEMMA CbsBegin ==
  ASSUME NEW q, NEW P \in SUBSET Cbs, NEW h, NEW n, NEW k, NEW m, CbsKept(q, P, h, n),
         NEW t \in Threads, NEW c \in Cbs, h[t].cb = c, c # None,
         k[t].cb = None, \A u \in Threads : u # t => k[u].cb = h[u].cb,
         m[c] = 1, \A b \in Cbs : b # c => m[b] = n[b]
  PROVE  CbsKept(q, P, k, m)
<1>2. c \in P /\ n[c] = 0
  BY DEF CbsKept
<1>3. \A e \in Elems(q) : e.cb # c
  BY DEF CbsKept
<1>4. \A e \in Elems(q) : e.cb # None => e.cb \in P /\ m[e.cb] = 0
  BY <1>2, <1>3 DEF CbsKept
<1>5. \A u \in Threads : k[u].cb # None =>
        /\ k[u].cb \in P /\ m[k[u].cb] = 0
        /\ \A e \in Elems(q) : e.cb # k[u].cb
        /\ \A v \in Threads : k[v].cb = k[u].cb => v = u
  BY <1>2, <1>3 DEF CbsKept
<1>6. \A b \in P : \/ m[b] = 1
                   \/ \E e \in Elems(q) : e.cb = b
                   \/ \E u \in Threads : k[u].cb = b
  BY <1>2, <1>3 DEF CbsKept
<1>7. \A b \in Cbs \ P : m[b] = 0
  BY <1>2, <1>3 DEF CbsKept
<1>8. Distinct(q, CbOf)
  BY DEF CbsKept
<1> QED BY <1>4, <1>5, <1>6, <1>7, <1>8 DEF CbsKept

\* Nothing changes for callbacks when a thread that has none drops its entry, or
\* when the body of a client's fiber is entered.
LEMMA CbsSame ==
  ASSUME NEW q, NEW P \in SUBSET Cbs, NEW h, NEW n, NEW k, NEW m, CbsKept(q, P, h, n),
         \A t \in Threads : k[t].cb = h[t].cb,
         \A c \in Cbs : m[c] = n[c],
         \A e \in Elems(q) : e.cb \in Cbs \cup {None}
  PROVE  CbsKept(q, P, k, m)
<1>1. \A c \in P : \/ m[c] = 1
                   \/ \E e \in Elems(q) : e.cb = c
                   \/ \E t \in Threads : k[t].cb = c
  BY DEF CbsKept
<1> QED BY <1>1 DEF CbsKept

\* A callback in a thread's hands is about to be dispatched, an entry is a fiber
\* or a callback and not both, and a fiber that is INIT has no callback's body
\* left to enter.
CallbackInv ==
  /\ CbsKept(m_fibers, posted, ft, entries)
  /\ \A t \in Threads : ft[t].cb # None => pc[t] = "dispatch" /\ ft[t].fiber = None
  /\ \A e \in Elems(m_fibers) : e.cb # None => e.fiber = None
  /\ \A f \in Fibers : mState[f] = "INIT" => mCallback[f] \notin Cbs

LEMMA CallbackInit == Init => CallbackInv
<1> SUFFICES ASSUME Init PROVE CallbackInv
  OBVIOUS
<1>1. /\ Elems(m_fibers) = {} /\ Distinct(m_fibers, CbOf) /\ posted = {}
      /\ \A t \in Threads : ft[t].cb = None
  BY DEF Init, Elems, Distinct, NoTask
<1>2. \A f \in Fibers : entries[f] = 0
  BY DEF Init
<1>3. \A f \in Fibers : mState[f] = "INIT" => mCallback[f] \notin Cbs
  BY ConstantsAssumption DEF Init, Fibers
<1>4. Cbs \subseteq Fibers
  BY DEF Fibers
<1> QED BY <1>1, <1>2, <1>3, <1>4 DEF CallbackInv, CbsKept

\* What a caller passes to schedule() is a fiber or a callback, not both, and a
\* callback that was not posted before.
LEMMA CallsOne ==
  ASSUME NEW e \in Calls, MayPass(e)
  PROVE  /\ e \in Entry /\ (e.cb # None => e.fiber = None)
         /\ e.cb \in (Cbs \ posted) \cup {None}
<1>1. e \in Entry
  BY EntryTypes
<1>2. e.fiber = None \/ e.cb = None
  BY DEF Calls, NoTask, CbEntry, FiberEntry
<1> QED BY <1>1, <1>2 DEF MayPass, IsNull

\* Pushing an entry keeps the queue's entries fibers or callbacks.
LEMMA PushOne ==
  ASSUME NEW q \in Seq(Entry), NEW e \in Entry, e.cb # None => e.fiber = None,
         \A x \in Elems(q) : x.cb # None => x.fiber = None
  PROVE  \A x \in Elems(Push(q, e)) : x.cb # None => x.fiber = None
BY PushElems

\* A call of schedule() keeps the callbacks.
LEMMA CallbackSchedule ==
  ASSUME Types, CallbackInv, NEW e \in Calls, Schedule(e)
  PROVE  CallbackInv'
<1>1. /\ e \in Entry /\ (e.cb # None => e.fiber = None)
      /\ e.cb \in (Cbs \ posted) \cup {None}
  BY CallsOne DEF Schedule
<1>2. CbsKept(m_fibers', posted', ft, entries)
  BY <1>1, CbsPush DEF Schedule, Passed, Types, CallbackInv
<1>3. \A x \in Elems(m_fibers') : x.cb # None => x.fiber = None
  BY <1>1, PushOne DEF Schedule, Types, CallbackInv
<1> QED BY <1>2, <1>3 DEF Schedule, CallbackInv, threadVars

\* So does the batch form.
LEMMA CallbackBatch ==
  ASSUME Types, CallbackInv, NEW e1 \in Calls, NEW e2 \in Calls, ScheduleBatch(e1, e2)
  PROVE  CallbackInv'
<1> DEFINE q1 == Push(m_fibers, e1)
           P1 == posted \cup ({e1.cb} \ {None})
<1>1. /\ e1 \in Entry /\ (e1.cb # None => e1.fiber = None)
      /\ e1.cb \in (Cbs \ posted) \cup {None}
      /\ e2 \in Entry /\ (e2.cb # None => e2.fiber = None)
      /\ e2.cb \in (Cbs \ posted) \cup {None}
  BY CallsOne DEF ScheduleBatch
<1>2. e2.cb \in (Cbs \ P1) \cup {None}
  <2>1. e1 # e2 /\ e1.thread = e2.thread
    BY DEF ScheduleBatch
  <2>2. e1.cb # None => e1.cb # e2.cb
    BY <1>1, <2>1 DEF Entry
  <2> QED BY <1>1, <2>2
<1>3. q1 \in Seq(Entry) /\ P1 \in SUBSET Cbs
  BY <1>1, PushType DEF Types
<1>4. CbsKept(q1, P1, ft, entries)
  BY <1>1, CbsPush DEF Types, CallbackInv
<1>5. \A x \in Elems(q1) : x.cb # None => x.fiber = None
  BY <1>1, PushOne DEF Types, CallbackInv
<1> HIDE DEF q1, P1
<1>6. CbsKept(Push(q1, e2), P1 \cup ({e2.cb} \ {None}), ft, entries)
  BY <1>1, <1>2, <1>3, <1>4, CbsPush DEF Types
<1>7. \A x \in Elems(Push(q1, e2)) : x.cb # None => x.fiber = None
  BY <1>1, <1>3, <1>5, PushOne
<1>8. /\ m_fibers' = Push(q1, e2) /\ posted' = P1 \cup ({e2.cb} \ {None})
      /\ UNCHANGED <<ft, entries, pc, mState, mCallback>>
  BY <1>1 DEF ScheduleBatch, q1, P1, threadVars
<1> QED BY <1>6, <1>7, <1>8 DEF CallbackInv

\* A step that leaves the queue, what was posted and what the threads hold alone
\* and enters no body keeps the callbacks, if no fiber becomes INIT.
LEMMA CallbackSame ==
  ASSUME CallbackInv, UNCHANGED <<m_fibers, posted, ft, entries>>,
         \A t \in Threads : ft[t].cb # None => pc'[t] = pc[t],
         \A f \in Fibers : mState'[f] = "INIT" =>
           mState[f] = "INIT" /\ mCallback'[f] = mCallback[f]
  PROVE  CallbackInv'
BY DEF CallbackInv

LEMMA CallbackRun ==
  ASSUME Types, CallbackInv, NEW t \in Threads, Run(t)
  PROVE  CallbackInv'
<1> USE DEF queueVars, stopVars, countVars, fiberVars, threadVars
<1>0. /\ ft[t] \in Entry /\ cb_fiber[t] \in Fibers \cup {None}
      /\ ft[t].fiber \in Fibers \cup {None} /\ ft[t].cb \in Cbs \cup {None}
      /\ pc \in [Threads -> Pc] /\ ft \in [Threads -> Entry]
      /\ posted \in SUBSET Cbs /\ entries \in [Fibers -> Nat] /\ m_fibers \in Seq(Entry)
      /\ mState \in [Fibers -> State] /\ mCallback \in [Fibers -> Fibers \cup {None}]
      /\ Cbs \subseteq Fibers /\ None \notin Fibers
      /\ \A e \in Elems(m_fibers) : e.cb \in Cbs \cup {None}
  <2>1. /\ ft[t] \in Entry /\ cb_fiber[t] \in Fibers \cup {None}
        /\ pc \in [Threads -> Pc] /\ ft \in [Threads -> Entry]
        /\ posted \in SUBSET Cbs /\ entries \in [Fibers -> Nat] /\ m_fibers \in Seq(Entry)
        /\ mState \in [Fibers -> State] /\ mCallback \in [Fibers -> Fibers \cup {None}]
    BY DEF Types
  <2>2. Cbs \subseteq Fibers /\ None \notin Fibers
    BY ConstantsAssumption DEF Fibers
  <2>3. ft[t].fiber \in Fibers \cup {None} /\ ft[t].cb \in Cbs \cup {None}
    BY <2>1 DEF Entry
  <2> QED BY <2>1, <2>2, <2>3, ElemsType
<1>1. CASE Abort
  BY <1>1 DEF Abort, CallbackInv
<1>2. CASE Pick(t) /\ ~Abort
  <2> DEFINE i == FirstFor(t)
  <2>1. i = 0 \/ (i # 0 /\ i \in DOMAIN m_fibers)
    BY FirstForScan
  <2>2. /\ pc[t] = "pick" /\ pc' = [pc EXCEPT ![t] = "dispatch"]
        /\ ft' = [ft EXCEPT ![t] = IF i = 0 THEN NoTask ELSE m_fibers[i]]
        /\ m_fibers' = IF i = 0 THEN m_fibers ELSE Erase(m_fibers, i)
        /\ UNCHANGED <<posted, entries, mState, mCallback>>
    BY <1>2 DEF Pick
  <2> HIDE DEF i
  <2>3. ft[t].cb = None
    BY <2>2 DEF CallbackInv
  <2>4. CASE i = 0
    <3>1. \A u \in Threads : ft'[u].cb = ft[u].cb
      BY <1>0, <2>2, <2>3, <2>4 DEF NoTask
    <3>2. CbsKept(m_fibers', posted', ft', entries')
      BY <1>0, <2>2, <2>4, <3>1, CbsSame DEF CallbackInv
    <3>3. \A u \in Threads : ft'[u].cb # None => u # t /\ ft'[u] = ft[u] /\ pc'[u] = pc[u]
      BY <1>0, <2>2, <2>3, <3>1
    <3> QED BY <2>2, <2>4, <3>2, <3>3 DEF CallbackInv
  <2>5. CASE i # 0
    <3>1. ft' = [ft EXCEPT ![t] = m_fibers[i]] /\ m_fibers' = Erase(m_fibers, i) /\ i \in DOMAIN m_fibers
      BY <2>1, <2>2, <2>5
    <3>2. CbsKept(m_fibers', posted', ft', entries')
      <4>1. CbsKept(m_fibers, posted, ft, entries)
        BY DEF CallbackInv
      <4>2. CbsKept(Erase(m_fibers, i), posted, [ft EXCEPT ![t] = m_fibers[i]], entries)
        BY <1>0, <2>3, <3>1, <4>1, CbsTake
      <4> QED BY <2>2, <3>1, <4>2
    <3>3. /\ Elems(m_fibers') \subseteq Elems(m_fibers)
          /\ m_fibers[i] \in Elems(m_fibers)
      <4>1. m_fibers[i] \in Elems(m_fibers)
        BY <3>1 DEF Elems
      <4>2. Elems(Erase(m_fibers, i)) \subseteq Elems(m_fibers)
        BY <1>0, <3>1, EraseElems
      <4> QED BY <3>1, <4>1, <4>2
    <3>4. /\ ft'[t] = m_fibers[i] /\ pc'[t] = "dispatch"
          /\ \A u \in Threads : u # t => ft'[u] = ft[u] /\ pc'[u] = pc[u]
      BY <1>0, <2>2, <3>1
    <3>5. \A u \in Threads : ft'[u].cb # None => pc'[u] = "dispatch" /\ ft'[u].fiber = None
      BY <3>3, <3>4 DEF CallbackInv
    <3>6. \A e \in Elems(m_fibers') : e.cb # None => e.fiber = None
      BY <3>3 DEF CallbackInv
    <3> QED BY <2>2, <3>2, <3>5, <3>6 DEF CallbackInv
  <2> QED BY <2>4, <2>5
<1>3. CASE DispatchFiber(t) /\ ~Abort
  <2> DEFINE f == ft[t].fiber
  <2>1. /\ f \in Fibers /\ Enter(f, mCallback[f], mState[f]) /\ ft[t].cb = None
        /\ pc' = [pc EXCEPT ![t] = "exec"]
        /\ UNCHANGED <<queueVars, ft>>
    BY <1>0, <1>3 DEF DispatchFiber, CallbackInv
  <2>2. \A c \in Cbs : entries'[c] = entries[c]
    BY <1>0, <2>1 DEF Enter, CallbackInv
  <2>3. \A g \in Fibers : mState'[g] = "INIT" => mState[g] = "INIT" /\ mCallback'[g] = mCallback[g]
    BY <1>0, <2>1 DEF Enter
  <2>4. CbsKept(m_fibers', posted', ft', entries')
    BY <1>0, <2>1, <2>2, CbsSame DEF CallbackInv
  <2>5. \A u \in Threads : ft'[u].cb # None => ft'[u] = ft[u] /\ pc'[u] = pc[u]
    BY <1>0, <2>1
  <2> QED BY <2>1, <2>3, <2>4, <2>5 DEF CallbackInv
<1>4. CASE DispatchCb(t) /\ ~Abort
  <2> DEFINE c == ft[t].cb
             f == IF cb_fiber[t] # None THEN cb_fiber[t] ELSE c
  <2>1. /\ c \in Cbs /\ c # None /\ f \in Fibers /\ Enter(f, c, "INIT")
        /\ ft' = [ft EXCEPT ![t] = NoTask]
        /\ pc' = [pc EXCEPT ![t] = "exec"]
        /\ UNCHANGED <<m_fibers, posted>>
    BY <1>0, <1>4 DEF DispatchCb
  <2> HIDE DEF f
  <2>2. entries' = [g \in Fibers |-> IF g = c THEN entries[g] + 1 ELSE entries[g]]
    BY <2>1 DEF Enter
  <2>3. CbsKept(m_fibers', posted', ft', entries')
    <3>1. CbsKept(m_fibers, posted, ft, entries)
      BY DEF CallbackInv
    <3>2. entries'[c] = 1 /\ \A b \in Cbs : b # c => entries'[b] = entries[b]
      BY <1>0, <2>1, <2>2, <3>1 DEF CbsKept
    <3>3. ft'[t].cb = None /\ \A u \in Threads : u # t => ft'[u].cb = ft[u].cb
      BY <1>0, <2>1 DEF NoTask
    <3>4. CbsKept(m_fibers, posted, ft', entries')
      <4>1. c \in Cbs /\ c # None /\ ft[t].cb = c /\ posted \in SUBSET Cbs
        BY <1>0, <2>1
      <4> HIDE DEF c
      <4> QED BY <3>1, <3>2, <3>3, <4>1, CbsBegin
    <3> QED BY <2>1, <3>4
  <2>4. \A g \in Fibers : mState'[g] = "INIT" => mState[g] = "INIT" /\ mCallback'[g] = mCallback[g]
    BY <1>0, <2>1 DEF Enter
  <2>5. \A u \in Threads : ft'[u].cb # None => ft'[u] = ft[u] /\ pc'[u] = pc[u]
    BY <1>0, <2>1 DEF NoTask
  <2> QED BY <2>1, <2>3, <2>4, <2>5 DEF CallbackInv
<1>5. CASE SkipDead(t)
  <2>1. ft[t].cb = None /\ ft' = [ft EXCEPT ![t] = NoTask] /\ pc' = [pc EXCEPT ![t] = "pick"]
        /\ UNCHANGED <<queueVars, entries, mState, mCallback>>
    BY <1>5 DEF SkipDead, CallbackInv
  <2>2. \A u \in Threads : ft'[u].cb = ft[u].cb
    BY <1>0, <2>1 DEF NoTask
  <2>3. CbsKept(m_fibers', posted', ft', entries')
    BY <1>0, <2>1, <2>2, CbsSame DEF CallbackInv
  <2>4. \A u \in Threads : ft'[u].cb # None => ft'[u] = ft[u] /\ pc'[u] = pc[u]
    BY <1>0, <2>1 DEF NoTask
  <2> QED BY <2>1, <2>3, <2>4 DEF CallbackInv
<1>6. CASE RunExit(t) \/ IdleIn(t)
  <2>1. ft[t].cb = None
    BY <1>6 DEF RunExit, IdleIn, IsNull
  <2> QED BY <1>0, <1>6, <2>1, CallbackSame DEF RunExit, IdleIn
<1>7. CASE Idle(t) \/ IdleReturned(t) \/ Returned(t)
  <2>1. ft[t].cb = None
    BY <1>7 DEF Idle, IdleReturned, Returned, CallbackInv
  <2> QED BY <1>0, <1>7, <2>1, CallbackSame DEF Idle, IdleReturned, Returned
<1>8. ASSUME NEW f \in Fibers \cup {None},
             m_fibers' = Push(m_fibers, FiberEntry(f, AnyThread)) \/ m_fibers' = m_fibers
      PROVE  /\ CbsKept(m_fibers', posted, ft, entries)
             /\ \A x \in Elems(m_fibers') : x.cb # None => x.fiber = None
             /\ \A x \in Elems(m_fibers') : x.cb \in Cbs \cup {None}
  <2>1. FiberEntry(f, AnyThread) \in Entry /\ FiberEntry(f, AnyThread).cb = None
    BY EntryTypes DEF FiberEntry
  <2>2. posted \cup ({None} \ {None}) = posted
    OBVIOUS
  <2>3. CbsKept(Push(m_fibers, FiberEntry(f, AnyThread)), posted, ft, entries)
    <3> DEFINE e == FiberEntry(f, AnyThread)
    <3>1. e \in Entry /\ e.cb = None /\ e.cb \in (Cbs \ posted) \cup {None}
      BY <2>1
    <3>2. CbsKept(m_fibers, posted, ft, entries)
      BY DEF CallbackInv
    <3> HIDE DEF e
    <3>3. CbsKept(Push(m_fibers, e), posted \cup ({e.cb} \ {None}), ft, entries)
      BY <1>0, <3>1, <3>2, CbsPush
    <3>4. CbsKept(Push(m_fibers, e), posted, ft, entries)
      BY <3>1, <3>3, <2>2
    <3> QED BY <3>4 DEF e
  <2>4. \A x \in Elems(Push(m_fibers, FiberEntry(f, AnyThread))) : x.cb # None => x.fiber = None
    BY <1>0, <2>1, PushOne DEF CallbackInv
  <2>5. m_fibers' \in Seq(Entry)
    BY <1>0, <1>8, <2>1, PushType
  <2>6. \A x \in Elems(m_fibers') : x.cb \in Cbs \cup {None}
    BY <2>5, ElemsType
  <2> QED BY <1>8, <2>3, <2>4, <2>6 DEF CallbackInv
<1>9. CASE AfterFiber(t)
  <2> DEFINE f == ft[t].fiber
  <2>1. /\ f \in Fibers /\ ft[t].cb = None /\ ft' = [ft EXCEPT ![t] = NoTask]
        /\ pc' = [pc EXCEPT ![t] = "pick"]
        /\ mState' = [mState EXCEPT ![f] = Settled(@)]
        /\ m_fibers' = Push(m_fibers, FiberEntry(f, AnyThread)) \/ m_fibers' = m_fibers
        /\ UNCHANGED <<posted, entries, mCallback>>
    BY <1>0, <1>9 DEF AfterFiber, CallbackInv
  <2>2. \A u \in Threads : ft'[u].cb = ft[u].cb
    BY <1>0, <2>1 DEF NoTask
  <2>3. CbsKept(m_fibers', posted', ft', entries')
    BY <1>0, <1>8, <2>1, <2>2, CbsSame
  <2>4. \A u \in Threads : ft'[u].cb # None => ft'[u] = ft[u] /\ pc'[u] = pc[u]
    BY <1>0, <2>1 DEF NoTask
  <2>5. \A g \in Fibers : mState'[g] = "INIT" => mState[g] = "INIT"
    BY <1>0, <2>1 DEF Settled, Dead
  <2> QED BY <1>8, <2>1, <2>3, <2>4, <2>5 DEF CallbackInv
<1>10. CASE AfterCb(t)
  <2> DEFINE f == cb_fiber[t]
  <2>1. /\ f \in Fibers \cup {None} /\ ft[t].cb = None /\ UNCHANGED <<posted, ft, entries>>
        /\ pc' = [pc EXCEPT ![t] = "pick"]
        /\ m_fibers' = Push(m_fibers, FiberEntry(f, AnyThread)) \/ m_fibers' = m_fibers
    BY <1>0, <1>10 DEF AfterCb, CallbackInv
  <2>2. \A g \in Fibers : mState'[g] = "INIT" => mCallback'[g] \notin Cbs
    <3>1. \A g \in Fibers \ {f} : mState'[g] = mState[g] /\ mCallback'[g] = mCallback[g]
      BY <1>0, <1>10 DEF AfterCb
    <3>2. f \in Fibers /\ mState'[f] = "INIT" => mCallback'[f] = None
      BY <1>0, <1>10 DEF AfterCb, Settled, Dead
    <3> QED BY <1>0, <3>1, <3>2 DEF CallbackInv
  <2>3. \A u \in Threads : ft'[u].cb # None => pc'[u] = pc[u]
    BY <1>0, <2>1
  <2> QED BY <1>8, <2>1, <2>2, <2>3 DEF CallbackInv
<1> QED BY <1>1, <1>2, <1>3, <1>4, <1>5, <1>6, <1>7, <1>9, <1>10 DEF Run

LEMMA CallbackBody ==
  ASSUME Types, CallbackInv, NEW t \in Threads, BodyLeaves(t) \/ BodyStays(t)
  PROVE  CallbackInv'
<1> USE DEF queueVars, stopVars, countVars, fiberVars, threadVars
<1>0. /\ pc \in [Threads -> Pc] /\ (ft[t].cb # None => pc[t] = "dispatch")
      /\ mState \in [Fibers -> State] /\ mCallback \in [Fibers -> Fibers \cup {None}]
  BY DEF Types, CallbackInv
<1>1. CASE Abort
  BY <1>1 DEF Abort, CallbackInv
<1>2. CASE YieldToReady(t) /\ ~Abort
  BY <1>0, <1>2, CallbackSame DEF YieldToReady
<1>3. CASE YieldToHold(t) /\ ~Abort
  BY <1>0, <1>3, CallbackSame DEF YieldToHold
<1>4. CASE BodyReturns(t)
  BY <1>0, <1>4, CallbackSame DEF BodyReturns
<1>5. CASE BodyThrows(t)
  BY <1>0, <1>5, CallbackSame DEF BodyThrows
<1>6. CASE SwapOut(t) \/ HandOff(t)
  BY <1>0, <1>6, CallbackSame DEF SwapOut, HandOff
<1>7. ASSUME NEW e \in Calls, BodySchedule(t, e) PROVE CallbackInv'
  BY <1>7, CallbackSchedule DEF BodySchedule
<1>8. ASSUME NEW p \in Pins, SwitchTo(t, p) PROVE CallbackInv'
  <2> DEFINE e == FiberEntry(Cur(t), p)
  <2>1. Cur(t) \in Fibers \cup {None} /\ p \in Threads \cup {AnyThread}
    BY ConstantsAssumption DEF Cur, Types, Entry
  <2>2. e \in Entry /\ e.cb = None
    BY <2>1, EntryTypes DEF FiberEntry
  <2>3. posted \cup ({e.cb} \ {None}) = posted
    BY <2>2
  <2> HIDE DEF e
  <2>4. CbsKept(Push(m_fibers, e), posted, ft, entries)
    <3>1. CbsKept(Push(m_fibers, e), posted \cup ({e.cb} \ {None}), ft, entries)
      BY <2>2, CbsPush DEF Types, CallbackInv
    <3> QED BY <2>3, <3>1
  <2>5. \A x \in Elems(Push(m_fibers, e)) : x.cb # None => x.fiber = None
    BY <2>2, PushOne DEF Types, CallbackInv
  <2>6. m_fibers' = Push(m_fibers, e) /\ UNCHANGED <<posted, ft, entries, pc, mState, mCallback>>
    BY <1>8 DEF SwitchTo, e
  <2> QED BY <2>4, <2>5, <2>6 DEF CallbackInv
<1> QED BY <1>1, <1>2, <1>3, <1>4, <1>5, <1>6, <1>7, <1>8 DEF BodyLeaves, BodyStays

LEMMA CallbackOwner ==
  ASSUME CountInv, CallbackInv, Owner
  PROVE  CallbackInv'
<1> USE DEF queueVars, stopVars, countVars, fiberVars, threadVars
<1>1. /\ UNCHANGED <<m_fibers, posted, ft, entries, mState, mCallback>>
      /\ \A t \in Threads : pc'[t] = pc[t] \/ pc[t] = "unborn"
  <2>1. ASSUME NEW W \in SUBSET Workers, Start(W)
        PROVE  /\ UNCHANGED <<m_fibers, posted, ft, entries, mState, mCallback>>
               /\ \A t \in Threads : pc'[t] = pc[t] \/ pc[t] = "unborn"
    BY <2>1 DEF Start, Abort
  <2>2. CASE StopCall
    BY <2>2 DEF StopCall, CountInv, RootInv, Types
  <2>3. CASE StopBegin \/ StopEarly \/ StopSet \/ RootBack \/ StopSwap \/ StopJoin \/ Destroy
    BY <2>3 DEF StopBegin, StopEarly, StopSet, RootBack, StopSwap, StopJoin, Destroy, Abort
  <2> QED BY <2>1, <2>2, <2>3 DEF Owner
<1> QED BY <1>1 DEF CallbackInv

----------------------------------------------------------------------------
(* The last thread out leaves nothing behind *)

\* Thread t has a fiber between SwapIn and the end of the iteration.
Busy(t) == pc[t] \in {"exec", "swapout", "ret", "post"}

\* A fiber in state EXEC belongs to a thread that will look at the queue again.
ExecHeld == \A f \in Fibers : mState[f] = "EXEC" => \E t \in Threads : Busy(t) /\ Cur(t) = f

\* Without pins every entry may be taken by every thread.
NoPins == habits.pins \subseteq {AnyThread}

\* Thread t will not look at the queue again.
Leaving(t) == \/ pc[t] = "exited"
              \/ pc[t] = "dispatch" /\ IsNull(ft[t]) /\ idle_fiber[t] = "TERM"

\* There are threads to join and none of them will look at the queue again.
Quiet == /\ pc[Root] = "unborn" /\ m_threads \cup thrs # {}
         /\ \A t \in m_threads \cup thrs : Leaving(t)

\* From then on the queue holds only what came from outside during stop().
AllLate == \A e \in Elems(m_fibers) : {e.fiber, e.cb} \cap late # {}

LeftInv ==
  /\ ExecHeld
  /\ NoPins => \A e \in Elems(m_fibers) : e.thread = AnyThread
  /\ NoPins /\ Quiet => AllLate

DrainInv == CountInv /\ StopInv /\ CallbackInv /\ LeftInv

LEMMA LeftInit == Init => LeftInv
<1> SUFFICES ASSUME Init PROVE LeftInv
  OBVIOUS
<1>1. Elems(m_fibers) = {}
  BY DEF Init, Elems
<1>2. \A f \in Fibers : mState[f] # "EXEC"
  BY DEF Init
<1> QED BY <1>1, <1>2 DEF LeftInv, ExecHeld, AllLate

\* While the threads are leaving, stop() is under way.
LEMMA QuietInStop ==
  ASSUME CountInv, StopInv, Quiet
  PROVE  opc \notin {"ready", "started"}
<1>1. PICK t \in m_threads \cup thrs : Leaving(t)
  BY DEF Quiet
<1>2. opc # "ready"
  BY <1>1 DEF StopInv, OwnerInv
<1>3. t \in Threads
  BY DEF CountInv, Types, Threads
<1> QED BY <1>1, <1>2, <1>3 DEF StopInv, OwnerInv, StopFlagInv, Leaving

LEMMA LeftClient ==
  ASSUME CountInv, StopInv, LeftInv, Client, UNCHANGED ctorVars
  PROVE  LeftInv'
<1> USE DEF ctorVars, stopVars, threadVars
<1>1. UNCHANGED <<m_threads, thrs, opc, pc, ft, cb_fiber, idle_fiber, mState, habits>>
  BY ClientStep
<1>2. ExecHeld' /\ (Quiet' <=> Quiet) /\ (NoPins' <=> NoPins)
  BY <1>1 DEF LeftInv, ExecHeld, Busy, Cur, Quiet, Leaving, IsNull, NoPins
<1>3. m_fibers \in Seq(Entry)
  BY DEF CountInv, Types
<1>4. SUFFICES
        /\ NoPins => \A e \in Elems(m_fibers') : e.thread = AnyThread
        /\ NoPins /\ Quiet => \A e \in Elems(m_fibers') : {e.fiber, e.cb} \cap late' # {}
  BY <1>2 DEF LeftInv, AllLate
<1>5. Quiet => opc \notin {"ready", "started"}
  BY QuietInStop
<1>6. /\ NoPins => \A e \in Elems(m_fibers) : e.thread = AnyThread
      /\ NoPins /\ Quiet => \A e \in Elems(m_fibers) : {e.fiber, e.cb} \cap late # {}
  BY DEF LeftInv, AllLate
<1>7. ASSUME NEW e \in Calls, ClientSchedule(e)
      PROVE  /\ NoPins => \A x \in Elems(m_fibers') : x.thread = AnyThread
             /\ NoPins /\ Quiet => \A x \in Elems(m_fibers') : {x.fiber, x.cb} \cap late' # {}
  <2>1. /\ e \in Entry /\ m_fibers' = Push(m_fibers, e) /\ e.thread \in habits.pins
    BY <1>7, EntryTypes DEF ClientSchedule, Schedule, MayPass
  <2>2. \A x \in Elems(m_fibers') : x \in Elems(m_fibers) \/ (x = e /\ ~IsNull(e))
    BY <1>3, <2>1, PushElems
  <2>3. opc \notin {"ready", "started"} => late' = late \cup ({e.fiber, e.cb} \ {None})
    BY <1>7 DEF ClientSchedule, Outside
  <2> QED BY <1>5, <1>6, <2>1, <2>2, <2>3 DEF NoPins, IsNull
<1>8. ASSUME NEW e1 \in Calls, NEW e2 \in Calls, ScheduleBatch(e1, e2)
      PROVE  /\ NoPins => \A x \in Elems(m_fibers') : x.thread = AnyThread
             /\ NoPins /\ Quiet => \A x \in Elems(m_fibers') : {x.fiber, x.cb} \cap late' # {}
  <2>1. /\ e1 \in Entry /\ e2 \in Entry /\ m_fibers' = Push(Push(m_fibers, e1), e2)
        /\ e1.thread = AnyThread /\ e2.thread = AnyThread
    BY <1>8, EntryTypes DEF ScheduleBatch
  <2>2. Push(m_fibers, e1) \in Seq(Entry)
    BY <1>3, <2>1, PushType
  <2>3. /\ \A x \in Elems(Push(m_fibers, e1)) : x \in Elems(m_fibers) \/ (x = e1 /\ ~IsNull(e1))
        /\ \A x \in Elems(m_fibers') : x \in Elems(Push(m_fibers, e1)) \/ (x = e2 /\ ~IsNull(e2))
    BY <1>3, <2>1, <2>2, PushElems
  <2>4. opc \notin {"ready", "started"} =>
          late' = late \cup ({e1.fiber, e1.cb, e2.fiber, e2.cb} \ {None})
    BY <1>8 DEF ScheduleBatch, Outside
  <2> QED BY <1>5, <1>6, <2>1, <2>3, <2>4 DEF IsNull
<1> QED BY <1>7, <1>8 DEF Client

\* A step of the owner leaves the queue alone; only start() forgets what was
\* late, and its threads are not leaving.
LEMMA LeftOwner ==
  ASSUME CountInv, StopInv, LeftInv, Owner, UNCHANGED ctorVars
  PROVE  LeftInv'
<1> USE DEF ctorVars, queueVars, stopVars, countVars, fiberVars, threadVars
<1>0. pc \in [Threads -> Pc] /\ Root \in Threads /\ Workers \subseteq Threads
      /\ m_threads \subseteq Threads /\ thrs \subseteq Threads
  BY DEF CountInv, Types, Threads
<1>1. ASSUME UNCHANGED <<m_fibers, late, mState, ft, cb_fiber, idle_fiber>>, NoPins' <=> NoPins,
             \A t \in Threads : Busy(t) => Busy(t)', Quiet' => Quiet
      PROVE  LeftInv'
  BY <1>1 DEF LeftInv, ExecHeld, AllLate, Cur
<1>2. NoPins' <=> NoPins
  BY DEF NoPins
<1>3. ASSUME NEW W \in SUBSET Workers, Start(W) PROVE LeftInv'
  <2>1. CASE Abort
    BY <2>1, <1>2 DEF Abort, LeftInv, ExecHeld, AllLate, Cur, Busy, Quiet, Leaving, IsNull
  <2>2. CASE ~Abort
    <3>1. /\ \A t \in W : pc[t] = "unborn"
          /\ pc' = [t \in Threads |-> IF t \in W THEN "pick" ELSE pc[t]]
          /\ opc = "ready" /\ m_threads' = W /\ UNCHANGED <<thrs, m_fibers, mState, ft, cb_fiber>>
      BY <1>3, <2>2 DEF Start
    <3>2. thrs = {}
      BY <3>1 DEF StopInv, OwnerInv
    <3>3. \A t \in W : pc'[t] = "pick"
      BY <1>0, <3>1
    <3>4. ~Quiet'
      BY <3>1, <3>2, <3>3 DEF Quiet, Leaving
    <3>5. \A t \in Threads : Busy(t) => Busy(t)'
      BY <3>1 DEF Busy
    <3>6. ExecHeld'
      BY <3>1, <3>5 DEF LeftInv, ExecHeld, Cur
    <3> QED BY <1>2, <3>1, <3>4, <3>6 DEF LeftInv
  <2> QED BY <2>1, <2>2
<1>4. CASE StopCall
  <2>1. /\ UNCHANGED <<m_fibers, late, mState, ft, cb_fiber, idle_fiber, m_threads, thrs>>
        /\ opc = "stop_call" /\ (pc' = pc \/ pc' = [pc EXCEPT ![Root] = "pick"])
    BY <1>4 DEF StopCall
  <2>2. pc[Root] = "unborn" /\ (pc'[Root] = "unborn" => pc' = pc)
    BY <1>0, <2>1 DEF CountInv, RootInv
  <2>3. Quiet' => Quiet
    BY <2>1, <2>2 DEF Quiet, Leaving, IsNull
  <2>4. \A t \in Threads : Busy(t) => Busy(t)'
    BY <1>0, <2>1, <2>2 DEF Busy
  <2> QED BY <1>1, <1>2, <2>1, <2>3, <2>4
<1>5. CASE StopSwap
  <2>1. /\ UNCHANGED <<m_fibers, late, mState, ft, cb_fiber, idle_fiber, pc>>
        /\ opc = "stop_swap" /\ thrs' = m_threads /\ m_threads' = {}
    BY <1>5 DEF StopSwap
  <2>2. thrs = {}
    BY <2>1 DEF StopInv, OwnerInv
  <2>3. Quiet' => Quiet
    BY <2>1, <2>2 DEF Quiet, Leaving, IsNull
  <2> QED BY <1>1, <1>2, <2>1, <2>3 DEF Busy
<1>6. CASE StopJoin
  <2>1. /\ UNCHANGED <<m_fibers, late, mState, ft, cb_fiber, idle_fiber, pc, m_threads>>
        /\ opc = "stop_join" /\ thrs' = {}
    BY <1>6 DEF StopJoin
  <2>2. ~Quiet'
    BY <2>1 DEF StopInv, OwnerInv, Quiet
  <2> QED BY <1>1, <1>2, <2>1, <2>2 DEF Busy
<1>7. CASE StopBegin \/ StopEarly \/ StopSet \/ RootBack \/ Destroy
  <2>1. UNCHANGED <<m_fibers, late, mState, ft, cb_fiber, idle_fiber, pc, m_threads, thrs>>
    BY <1>7 DEF StopBegin, StopEarly, StopSet, RootBack, Destroy, Abort
  <2>2. Quiet' => Quiet
    BY <2>1 DEF Quiet, Leaving, IsNull
  <2> QED BY <1>1, <1>2, <2>1, <2>2 DEF Busy
<1> QED BY <1>3, <1>4, <1>5, <1>6, <1>7 DEF Owner

\* A thread that will not look at the queue again has just found nothing in it,
\* or was leaving before.
LEMMA LeavingStep ==
  ASSUME Types, NEW t \in Threads, Run(t) \/ BodyLeaves(t) \/ BodyStays(t), Leaving(t)'
  PROVE  /\ UNCHANGED <<m_fibers, late>>
         /\ Leaving(t) \/ (pc[t] = "pick" /\ FirstFor(t) = 0)
<1> USE DEF queueVars, stopVars, countVars, fiberVars, threadVars, Types
<1>1. CASE Abort
  BY <1>1 DEF Abort, Leaving, IsNull
<1>2. CASE Pick(t) /\ ~Abort
  <2> DEFINE i == FirstFor(t)
  <2>1. /\ pc[t] = "pick" /\ pc' = [pc EXCEPT ![t] = "dispatch"]
        /\ ft' = [ft EXCEPT ![t] = IF i = 0 THEN NoTask ELSE m_fibers[i]]
        /\ m_fibers' = IF i = 0 THEN m_fibers ELSE Erase(m_fibers, i)
        /\ late' = late /\ (i # 0 => ~IsNull(m_fibers[i]))
    BY <1>2 DEF Pick
  <2> HIDE DEF i
  <2>2. IsNull(ft'[t]) /\ ft'[t] = (IF i = 0 THEN NoTask ELSE m_fibers[i])
    BY <2>1 DEF Leaving, IsNull
  <2>3. i = 0
    BY <2>1, <2>2
  <2> QED BY <2>1, <2>3 DEF i
<1>3. CASE RunExit(t)
  BY <1>3 DEF RunExit, Leaving
<1>4. CASE DispatchFiber(t) /\ ~Abort
  BY <1>4 DEF DispatchFiber, Leaving
<1>5. CASE DispatchCb(t) /\ ~Abort
  BY <1>5 DEF DispatchCb, Leaving
<1>6. CASE SkipDead(t) \/ IdleIn(t) \/ Idle(t) \/ IdleReturned(t) \/ Returned(t)
  BY <1>6 DEF SkipDead, IdleIn, Idle, IdleReturned, Returned, Leaving
<1>7. CASE AfterFiber(t) \/ AfterCb(t)
  BY <1>7 DEF AfterFiber, AfterCb, Leaving
<1>8. CASE BodyLeaves(t) /\ ~Abort
  BY <1>8 DEF BodyLeaves, YieldToReady, YieldToHold, BodyReturns, BodyThrows, SwapOut, Leaving
<1>9. CASE BodyStays(t)
  BY <1>9 DEF BodyStays, HandOff, BodySchedule, Schedule, SwitchTo, Leaving
<1> QED BY <1>1, <1>2, <1>3, <1>4, <1>5, <1>6, <1>7, <1>8, <1>9 DEF Run

\* A fiber that is EXEC after a step of thread t is one that t now has, or was
\* EXEC before and not one that t had.
LEMMA ExecStep ==
  ASSUME Types, NEW t \in Threads, Run(t) \/ BodyLeaves(t) \/ BodyStays(t),
         NEW f \in Fibers, mState'[f] = "EXEC"
  PROVE  \/ Busy(t)' /\ Cur(t)' = f
         \/ mState[f] = "EXEC" /\ ~(Busy(t) /\ Cur(t) = f)
<1> USE DEF queueVars, stopVars, countVars, fiberVars, threadVars
<1>0. /\ pc \in [Threads -> Pc] /\ ft \in [Threads -> Entry] /\ mState \in [Fibers -> State]
      /\ cb_fiber \in [Threads -> Fibers \cup {None}] /\ None \notin Fibers
      /\ ft[t].cb \in Cbs \cup {None} /\ Cbs \subseteq Fibers
  BY ConstantsAssumption DEF Types, Entry, Fibers
<1>1. CASE Abort
  BY <1>1 DEF Abort, Busy, Cur
<1>2. CASE Pick(t) /\ ~Abort
  BY <1>0, <1>2 DEF Pick, Busy
<1>3. CASE DispatchFiber(t) /\ ~Abort
  <2> DEFINE g == ft[t].fiber
  <2>1. /\ pc[t] = "dispatch" /\ g # None /\ mState' = [mState EXCEPT ![g] = "EXEC"]
        /\ ft' = ft /\ pc' = [pc EXCEPT ![t] = "exec"]
    BY <1>3 DEF DispatchFiber, Enter
  <2>2. Busy(t)' /\ Cur(t)' = g /\ ~Busy(t)
    BY <1>0, <2>1 DEF Busy, Cur
  <2> HIDE DEF g
  <2> QED BY <1>0, <2>1, <2>2
<1>4. CASE DispatchCb(t) /\ ~Abort
  <2> DEFINE g == IF cb_fiber[t] # None THEN cb_fiber[t] ELSE ft[t].cb
  <2>1. /\ pc[t] = "dispatch" /\ g \in Fibers /\ mState' = [mState EXCEPT ![g] = "EXEC"]
        /\ ft' = [ft EXCEPT ![t] = NoTask] /\ cb_fiber' = [cb_fiber EXCEPT ![t] = g]
        /\ pc' = [pc EXCEPT ![t] = "exec"]
    BY <1>0, <1>4 DEF DispatchCb, Enter
  <2> HIDE DEF g
  <2>2. Busy(t)' /\ Cur(t)' = g /\ ~Busy(t)
    BY <1>0, <2>1 DEF Busy, Cur, NoTask
  <2> QED BY <1>0, <2>1, <2>2
<1>5. CASE SkipDead(t) \/ RunExit(t) \/ IdleIn(t) \/ Idle(t) \/ IdleReturned(t)
  BY <1>0, <1>5 DEF SkipDead, RunExit, IdleIn, Idle, IdleReturned, Busy
<1>6. CASE Returned(t)
  BY <1>0, <1>6 DEF Returned, Busy, Cur
<1>7. CASE AfterFiber(t)
  BY <1>0, <1>7 DEF AfterFiber, Settled, Dead, Busy, Cur
<1>8. CASE AfterCb(t)
  BY <1>0, <1>8 DEF AfterCb, Settled, Dead, Busy, Cur
<1>9. CASE BodyLeaves(t) /\ ~Abort
  BY <1>0, <1>9 DEF BodyLeaves, YieldToReady, YieldToHold, BodyReturns, BodyThrows, SwapOut, Busy, Cur
<1>10. CASE BodyStays(t)
  BY <1>0, <1>10 DEF BodyStays, HandOff, BodySchedule, Schedule, SwitchTo, Busy, Cur
<1> QED BY <1>1, <1>2, <1>3, <1>4, <1>5, <1>6, <1>7, <1>8, <1>9, <1>10 DEF Run

\* What a step of thread t can put into the queue when nobody pins anything.
LEMMA UnpinnedStep ==
  ASSUME Types, NEW t \in Threads, Run(t) \/ BodyLeaves(t) \/ BodyStays(t), NoPins,
         NEW e \in Elems(m_fibers')
  PROVE  e \in Elems(m_fibers) \/ e.thread = AnyThread
<1> USE DEF queueVars, stopVars, countVars, fiberVars, threadVars
<1>0. /\ m_fibers \in Seq(Entry) /\ ft[t].fiber \in Fibers \cup {None}
      /\ cb_fiber[t] \in Fibers \cup {None}
  BY DEF Types, Entry
<1>1. ASSUME NEW f \in Fibers \cup {None}, m_fibers' = Push(m_fibers, FiberEntry(f, AnyThread))
      PROVE  e \in Elems(m_fibers) \/ e.thread = AnyThread
  <2>1. FiberEntry(f, AnyThread) \in Entry /\ FiberEntry(f, AnyThread).thread = AnyThread
    BY EntryTypes DEF FiberEntry
  <2> QED BY <1>0, <1>1, <2>1, PushElems
<1>2. CASE UNCHANGED m_fibers
  BY <1>2
<1>3. CASE Pick(t) /\ ~UNCHANGED m_fibers
  <2>1. FirstFor(t) \in DOMAIN m_fibers /\ m_fibers' = Erase(m_fibers, FirstFor(t))
    BY <1>3, FirstForScan DEF Pick, Abort
  <2> QED BY <1>0, <2>1, EraseElems
<1>4. CASE (AfterFiber(t) \/ AfterCb(t)) /\ ~UNCHANGED m_fibers
  BY <1>0, <1>1, <1>4 DEF AfterFiber, AfterCb
<1>5. ASSUME NEW x \in Calls, BodySchedule(t, x)
      PROVE  e \in Elems(m_fibers) \/ e.thread = AnyThread
  <2>1. x \in Entry /\ x.thread = AnyThread /\ m_fibers' = Push(m_fibers, x)
    BY <1>5, EntryTypes DEF BodySchedule, Schedule, MayPass, NoPins
  <2> QED BY <1>0, <2>1, PushElems
<1>6. ASSUME NEW p \in Pins, SwitchTo(t, p) PROVE FALSE
  BY <1>6 DEF SwitchTo, NoPins
<1>7. CASE BodyLeaves(t) \/ HandOff(t)
  BY <1>2, <1>7 DEF BodyLeaves, YieldToReady, YieldToHold, BodyReturns, BodyThrows, SwapOut, Abort, HandOff
<1>8. CASE DispatchFiber(t) \/ DispatchCb(t) \/ SkipDead(t) \/ RunExit(t) \/ IdleIn(t) \/ Idle(t)
           \/ IdleReturned(t) \/ Returned(t)
  BY <1>2, <1>8 DEF DispatchFiber, DispatchCb, SkipDead, RunExit, IdleIn, Idle, IdleReturned,
                    Returned, Abort
<1> QED BY <1>2, <1>3, <1>4, <1>5, <1>6, <1>7, <1>8 DEF Run, BodyStays

LEMMA LeftThread ==
  ASSUME CountInv, StopInv, LeftInv, UNCHANGED ctorVars, NEW t \in Threads,
         Run(t) \/ BodyLeaves(t) \/ BodyStays(t)
  PROVE  LeftInv'
<1> USE DEF ctorVars, stopVars
<1>1. /\ UNCHANGED <<m_threads, thrs, habits>>
      /\ pc[t] \notin {"unborn", "exited"} /\ pc'[t] # "unborn"
      /\ \A u \in Threads \ {t} : /\ pc'[u] = pc[u] /\ ft'[u] = ft[u]
                                  /\ cb_fiber'[u] = cb_fiber[u]
                                  /\ idle_fiber'[u] = idle_fiber[u]
  BY ThreadStep DEF CountInv
<1>2. ExecHeld'
  <2> SUFFICES ASSUME NEW f \in Fibers, mState'[f] = "EXEC"
               PROVE  \E u \in Threads : Busy(u)' /\ Cur(u)' = f
    BY DEF ExecHeld
  <2>1. CASE Busy(t)' /\ Cur(t)' = f
    BY <2>1
  <2>2. CASE mState[f] = "EXEC" /\ ~(Busy(t) /\ Cur(t) = f)
    <3>1. PICK u \in Threads : Busy(u) /\ Cur(u) = f
      BY <2>2 DEF LeftInv, ExecHeld
    <3>2. u # t
      BY <2>2, <3>1
    <3> QED BY <1>1, <3>1, <3>2 DEF Busy, Cur
  <2> QED BY <2>1, <2>2, ExecStep DEF CountInv
<1>3. NoPins' <=> NoPins
  BY <1>1 DEF NoPins
<1>4. NoPins => \A e \in Elems(m_fibers') : e.thread = AnyThread
  BY UnpinnedStep DEF CountInv, LeftInv
<1>5. ASSUME NoPins, Quiet' PROVE AllLate'
  <2>1. t # Root /\ t \in m_threads \cup thrs
    <3>1. t # Root
      BY <1>1, <1>5 DEF Quiet
    <3> QED BY <1>1, <3>1 DEF StopInv, OwnerInv, Threads
  <2>2. m_threads \cup thrs \subseteq Threads
    BY DEF CountInv, Types, Threads
  <2>3. Leaving(t)' /\ \A u \in m_threads \cup thrs : u # t => Leaving(u)
    BY <1>1, <1>5, <2>1, <2>2 DEF Quiet, Leaving, IsNull
  <2>4. /\ UNCHANGED <<m_fibers, late>>
        /\ Leaving(t) \/ (pc[t] = "pick" /\ FirstFor(t) = 0)
    BY <2>3, LeavingStep DEF CountInv
  <2>5. pc[Root] = "unborn"
    BY <1>1, <1>5, <2>1 DEF Quiet, Threads
  <2>6. CASE Leaving(t)
    <3>1. Quiet
      BY <2>1, <2>3, <2>5, <2>6 DEF Quiet
    <3> QED BY <1>5, <2>4, <3>1 DEF LeftInv, AllLate
  <2>7. CASE pc[t] = "pick" /\ FirstFor(t) = 0
    <3>1. \A i \in DOMAIN m_fibers : ~Takes(t, m_fibers[i])
      BY <2>7, FirstForScan DEF CountInv
    <3>2. \A e \in Elems(m_fibers) : e.thread = AnyThread /\ ~Takes(t, e)
      BY <1>5, <3>1 DEF LeftInv, Elems
    <3>3. \A f \in Fibers : mState[f] # "EXEC"
      <4> SUFFICES ASSUME NEW f \in Fibers, mState[f] = "EXEC" PROVE FALSE
        OBVIOUS
      <4>1. PICK u \in Threads : Busy(u) /\ Cur(u) = f
        BY DEF LeftInv, ExecHeld
      <4>2. u # Root /\ u # t
        BY <2>5, <2>7, <4>1 DEF Busy
      <4>3. u \in m_threads \cup thrs
        BY <4>1, <4>2 DEF Busy, StopInv, OwnerInv, Threads
      <4> QED BY <2>3, <4>1, <4>2, <4>3 DEF Busy, Leaving
    <3>4. \A e \in Elems(m_fibers) : e.fiber \in Fibers \cup {None}
      BY ElemsType DEF CountInv, Types
    <3>5. Elems(m_fibers) = {}
      BY <3>2, <3>3, <3>4 DEF Takes
    <3> QED BY <2>4, <3>5 DEF AllLate
  <2> QED BY <2>4, <2>6, <2>7
<1> QED BY <1>2, <1>3, <1>4, <1>5 DEF LeftInv

LEMMA DrainInvariant == Spec => []DrainInv
<1>1. Init => CallbackInv /\ LeftInv
  BY CallbackInit, LeftInit
<1>2. CountInv /\ StopInv /\ CallbackInv /\ LeftInv /\ [Next]_vars => CallbackInv' /\ LeftInv'
  <2> SUFFICES ASSUME CountInv, StopInv, CallbackInv, LeftInv, [Next]_vars
               PROVE  CallbackInv' /\ LeftInv'
    OBVIOUS
  <2>0. Types
    BY DEF CountInv
  <2>1. CASE UNCHANGED vars
    <3> USE <2>1 DEF vars, ctorVars, queueVars, stopVars, countVars, fiberVars, threadVars
    <3>1. CallbackInv'
      BY DEF CallbackInv
    <3>2. LeftInv'
      BY DEF LeftInv, ExecHeld, NoPins, AllLate, Quiet, Leaving, IsNull, Busy, Cur
    <3> QED BY <3>1, <3>2
  <2>2. CASE UNCHANGED ctorVars /\ Client
    <3>1. CallbackInv'
      BY <2>0, <2>2, CallbackSchedule, CallbackBatch DEF Client, ClientSchedule
    <3> QED BY <2>2, <3>1, LeftClient
  <2>3. CASE UNCHANGED ctorVars /\ Owner
    BY <2>3, CallbackOwner, LeftOwner
  <2>4. ASSUME NEW t \in Threads, UNCHANGED ctorVars, Run(t) \/ BodyLeaves(t) \/ BodyStays(t)
        PROVE  CallbackInv' /\ LeftInv'
    BY <2>0, <2>4, CallbackRun, CallbackBody, LeftThread
  <2> QED BY <2>1, <2>2, <2>3, <2>4 DEF Next, Live
<1> QED BY <1>1, <1>2, StopInvariant, PTL DEF Spec, DrainInv

\* Without pinned tasks, when stop() has joined its threads every callback that
\* was posted before stop() began, or by a body at any time, has been started
\* exactly once, and nothing else is left in the queue: whatever the number of
\* threads, yields and wake-ups, and although stopping() can be true while a READY
\* fiber is on its way back into the queue.
THEOREM StopDrains == Spec => []Drained
<1>1. DrainInv => Drained
  <2> SUFFICES ASSUME DrainInv, NoPins, opc = "stop_join", thrs # {}, Joined
               PROVE  /\ \A i \in DOMAIN m_fibers :
                           {m_fibers[i].fiber, m_fibers[i].cb} \cap late # {}
                      /\ \A c \in posted \ late : entries[c] = 1
    BY DEF Drained, NothingLeft, NoPins
  <2> USE DEF DrainInv
  <2>1. pc[Root] = "unborn" /\ m_threads = {}
    BY DEF CountInv, RootInv, Threads, StopInv, OwnerInv
  <2>2. Quiet
    BY <2>1 DEF Quiet, Joined, Leaving
  <2>3. AllLate
    BY <2>2 DEF LeftInv
  <2>4. \A t \in Threads : pc[t] \in {"unborn", "exited"}
    BY <2>1 DEF Joined, StopInv, OwnerInv, Threads
  <2>5. \A t \in Threads : ft[t].cb = None
    BY <2>4 DEF CallbackInv
  <2>6. ASSUME NEW c \in posted, entries[c] # 1 PROVE c \in late
    <3>1. c # None
      BY ConstantsAssumption DEF CountInv, Types, Fibers
    <3>2. PICK e \in Elems(m_fibers) : e.cb = c
      BY <2>5, <2>6, <3>1 DEF CallbackInv, CbsKept
    <3>3. e.fiber = None
      BY <3>1, <3>2 DEF CallbackInv
    <3>4. None \notin late
      BY ConstantsAssumption DEF CountInv, Types
    <3> QED BY <2>3, <3>2, <3>3, <3>4 DEF AllLate
  <2> QED BY <2>3, <2>6 DEF AllLate, Elems
<1> QED BY <1>1, DrainInvariant, PTL

----------------------------------------------------------------------------
(* With pins, and without YieldToReady *)

\* Nobody schedules from outside during stop() and no body asks to be READY.
Calm == ~habits.late /\ ~habits.ready

\* No fiber is ever on its way back into the queue, so stopping() stays true from
\* the first idle() that has seen it until the threads are joined.
StillInv ==
  Calm => /\ \A f \in Fibers : mState[f] # "READY"
          /\ \A t \in m_threads \cup thrs : idle_fiber[t] = "TERM" =>
               m_fibers = <<>> /\ m_activeThreadCount = 0

LEMMA StillInit == Init => StillInv
BY DEF Init, StillInv

\* A thread whose idle() has ended is one that stop() is about to join.
LEMMA EndedInStop ==
  ASSUME StopInv, NEW t \in m_threads \cup thrs, idle_fiber[t] = "TERM"
  PROVE  opc \notin {"ready", "started"}
BY DEF StopInv, OwnerInv, StopFlagInv

\* When m_activeThreadCount is zero no thread has a task.
LEMMA NobodyActive ==
  ASSUME CountInv, m_activeThreadCount = 0
  PROVE  \A t \in Threads : ~Active(t)
<1>1. IsFiniteSet(ActiveSet) /\ Cardinality(ActiveSet) = 0
  BY CountedFinite DEF CountInv, CountsExact, ActiveSet
<1>2. ActiveSet = {}
  BY <1>1, FS_EmptySet
<1> QED BY <1>2 DEF ActiveSet

LEMMA StillClient ==
  ASSUME StopInv, StillInv, Client, UNCHANGED ctorVars
  PROVE  StillInv'
<1> USE DEF ctorVars, stopVars, threadVars
<1>1. UNCHANGED <<m_threads, thrs, opc, idle_fiber, mState, habits>>
  BY ClientStep
<1>2. Calm => opc \in {"ready", "started"}
  BY DEF Calm, Client, ClientSchedule, ScheduleBatch, Outside
<1>3. Calm => \A t \in m_threads \cup thrs : idle_fiber[t] # "TERM"
  BY <1>2, EndedInStop
<1> QED BY <1>1, <1>3 DEF StillInv, Calm

\* The owner gives no thread a task; start() adds threads that were never idle.
LEMMA StillOwner ==
  ASSUME CountInv, StopInv, StillInv, Owner, UNCHANGED ctorVars
  PROVE  StillInv'
<1> USE DEF ctorVars, queueVars, stopVars, countVars, fiberVars, threadVars
<1>1. UNCHANGED <<m_fibers, m_activeThreadCount, mState, idle_fiber, habits>>
  BY DEF Owner, Start, StopBegin, StopEarly, StopSet, StopCall, RootBack, StopSwap,
         StopJoin, Destroy, Abort
<1>2. \A t \in m_threads' \cup thrs' : t \in m_threads \cup thrs \/ idle_fiber[t] # "TERM"
  <2>1. ASSUME NEW W \in SUBSET Workers, Start(W)
        PROVE  \A t \in m_threads' \cup thrs' : t \in m_threads \cup thrs \/ idle_fiber[t] # "TERM"
    <3>1. /\ m_threads' = m_threads \/ m_threads' = W
          /\ thrs' = thrs /\ \A t \in W : pc[t] = "unborn"
      BY <2>1 DEF Start, Abort
    <3>2. \A t \in W : idle_fiber[t] # "TERM"
      BY <3>1 DEF StopInv, StopFlagInv, Threads
    <3> QED BY <3>1, <3>2
  <2>2. CASE StopBegin \/ StopEarly \/ StopSet \/ StopCall \/ RootBack \/ StopSwap
             \/ StopJoin \/ Destroy
    BY <2>2 DEF StopBegin, StopEarly, StopSet, StopCall, RootBack, StopSwap, StopJoin,
                Destroy, Abort
  <2> QED BY <2>1, <2>2 DEF Owner
<1> QED BY <1>1, <1>2 DEF StillInv, Calm

\* No step of a thread makes a fiber READY.
LEMMA NoneReady ==
  ASSUME Types, StillInv, Calm, NEW t \in Threads, Run(t) \/ BodyLeaves(t) \/ BodyStays(t),
         NEW f \in Fibers
  PROVE  mState'[f] # "READY"
<1> USE DEF queueVars, stopVars, countVars, fiberVars, threadVars
<1>0. mState \in [Fibers -> State] /\ mState[f] # "READY"
  BY DEF Types, StillInv
<1>1. CASE UNCHANGED mState
  BY <1>0, <1>1
<1>2. CASE (DispatchFiber(t) \/ DispatchCb(t)) /\ ~UNCHANGED mState
  BY <1>0, <1>2 DEF DispatchFiber, DispatchCb, Abort, Enter
<1>3. CASE AfterFiber(t) \/ AfterCb(t)
  BY <1>0, <1>3 DEF AfterFiber, AfterCb, Settled
<1>4. CASE BodyLeaves(t) /\ ~UNCHANGED mState
  <2>1. ~YieldToReady(t)
    BY DEF YieldToReady, Calm
  <2> QED BY <1>0, <1>4, <2>1 DEF BodyLeaves, YieldToHold, BodyReturns, BodyThrows, SwapOut, Abort
<1>5. CASE BodyStays(t)
  BY <1>1, <1>5 DEF BodyStays, HandOff, BodySchedule, Schedule, SwitchTo
<1>6. CASE Pick(t) \/ SkipDead(t) \/ RunExit(t) \/ IdleIn(t) \/ Idle(t) \/ IdleReturned(t)
           \/ Returned(t)
  BY <1>1, <1>6 DEF Pick, SkipDead, RunExit, IdleIn, Idle, IdleReturned, Returned, Abort
<1> QED BY <1>1, <1>2, <1>3, <1>4, <1>5, <1>6 DEF Run

\* With an empty queue, no thread active and no fiber READY, no step of a thread
\* changes that.
LEMMA StaysStill ==
  ASSUME CountInv, StillInv, Calm, NEW t \in Threads, Run(t) \/ BodyLeaves(t) \/ BodyStays(t),
         m_fibers = <<>>, m_activeThreadCount = 0
  PROVE  m_fibers' = <<>> /\ m_activeThreadCount' = 0
<1> USE DEF queueVars, stopVars, countVars, fiberVars, threadVars
<1>0. Types /\ ~Active(t)
  BY NobodyActive DEF CountInv
<1>1. CASE Pick(t)
  <2>1. FirstFor(t) = 0
    BY <1>0, FirstForScan
  <2> QED BY <1>1, <2>1 DEF Pick, Abort
<1>2. CASE DispatchFiber(t) \/ DispatchCb(t) \/ SkipDead(t) \/ Returned(t)
  BY <1>0, <1>2 DEF DispatchFiber, DispatchCb, SkipDead, Returned, Active, IsNull
<1>3. CASE AfterFiber(t)
  <2>1. ft[t].fiber \in Fibers
    BY <1>0, <1>3 DEF AfterFiber, Types, Entry
  <2> QED BY <1>3, <2>1 DEF AfterFiber, StillInv
<1>4. CASE AfterCb(t)
  <2>1. CASE cb_fiber[t] = None
    BY <1>4, <2>1 DEF AfterCb, Push, FiberEntry, IsNull
  <2>2. CASE cb_fiber[t] # None
    <3>1. cb_fiber[t] \in Fibers
      BY <1>0, <2>2 DEF Types
    <3> QED BY <1>4, <3>1 DEF AfterCb, StillInv
  <2> QED BY <2>1, <2>2
<1>5. CASE RunExit(t) \/ IdleIn(t) \/ Idle(t) \/ IdleReturned(t)
  BY <1>5 DEF RunExit, IdleIn, Idle, IdleReturned
<1>6. CASE BodyLeaves(t) \/ BodyStays(t)
  BY <1>0, <1>6 DEF BodyLeaves, YieldToReady, YieldToHold, BodyReturns, BodyThrows, SwapOut,
                    BodyStays, HandOff, BodySchedule, SwitchTo, Active
<1> QED BY <1>1, <1>2, <1>3, <1>4, <1>5, <1>6 DEF Run

\* idle() ends only when stopping() is true.
LEMMA EndsWhenStopping ==
  ASSUME Types, NEW t \in Threads, Run(t) \/ BodyLeaves(t) \/ BodyStays(t),
         idle_fiber'[t] = "TERM", idle_fiber[t] # "TERM"
  PROVE  Stopping /\ UNCHANGED <<m_fibers, m_activeThreadCount>>
<1> USE DEF queueVars, stopVars, countVars, fiberVars, threadVars
<1>1. idle_fiber \in [Threads -> State]
  BY DEF Types
<1>2. CASE UNCHANGED idle_fiber
  BY <1>2
<1>3. CASE Idle(t)
  BY <1>1, <1>3 DEF Idle
<1>4. CASE IdleIn(t)
  BY <1>1, <1>4 DEF IdleIn
<1>5. CASE IdleReturned(t)
  BY <1>1, <1>5 DEF IdleReturned, Settled, Dead
<1>6. CASE Pick(t) \/ DispatchFiber(t) \/ DispatchCb(t) \/ SkipDead(t) \/ RunExit(t)
           \/ Returned(t) \/ AfterFiber(t) \/ AfterCb(t)
  BY <1>2, <1>6 DEF Pick, DispatchFiber, DispatchCb, SkipDead, RunExit, Returned, AfterFiber,
                    AfterCb, Abort
<1>7. CASE BodyLeaves(t) \/ BodyStays(t)
  BY <1>2, <1>7 DEF BodyLeaves, YieldToReady, YieldToHold, BodyReturns, BodyThrows, SwapOut, Abort,
                    BodyStays, HandOff, BodySchedule, Schedule, SwitchTo
<1> QED BY <1>3, <1>4, <1>5, <1>6, <1>7 DEF Run

LEMMA StillThread ==
  ASSUME CountInv, StillInv, UNCHANGED ctorVars, NEW t \in Threads,
         Run(t) \/ BodyLeaves(t) \/ BodyStays(t)
  PROVE  StillInv'
<1> USE DEF ctorVars, stopVars
<1>0. Types /\ m_threads \cup thrs \subseteq Threads
  BY DEF CountInv, Types, Threads
<1>1. /\ UNCHANGED <<m_threads, thrs, habits>>
      /\ \A u \in Threads \ {t} : idle_fiber'[u] = idle_fiber[u]
  BY <1>0, ThreadStep
<1>2. Calm' <=> Calm
  BY <1>1 DEF Calm
<1>3. Calm => \A f \in Fibers : mState'[f] # "READY"
  BY <1>0, NoneReady
<1>4. ASSUME Calm, NEW u \in m_threads \cup thrs, idle_fiber'[u] = "TERM"
      PROVE  m_fibers' = <<>> /\ m_activeThreadCount' = 0
  <2>1. CASE idle_fiber[u] = "TERM"
    BY <1>4, <2>1, StaysStill DEF StillInv
  <2>2. CASE idle_fiber[u] # "TERM"
    <3>1. u = t
      BY <1>0, <1>1, <1>4, <2>2
    <3> QED BY <1>0, <1>4, <2>2, <3>1, EndsWhenStopping DEF Stopping
  <2> QED BY <2>1, <2>2
<1> QED BY <1>1, <1>2, <1>3, <1>4 DEF StillInv

LEMMA StillInvariant == Spec => []StillInv
<1>1. Init => StillInv
  BY StillInit
<1>2. CountInv /\ StopInv /\ StillInv /\ [Next]_vars => StillInv'
  <2> SUFFICES ASSUME CountInv, StopInv, StillInv, [Next]_vars PROVE StillInv'
    OBVIOUS
  <2>1. CASE UNCHANGED vars
    BY <2>1 DEF vars, ctorVars, queueVars, stopVars, countVars, fiberVars, threadVars, StillInv, Calm
  <2>2. CASE Next
    BY <2>2, StillClient, StillOwner, StillThread DEF Next, Live
  <2> QED BY <2>1, <2>2
<1> QED BY <1>1, <1>2, StopInvariant, PTL DEF Spec

\* Whatever threads the tasks are pinned to, when stop() has joined its threads
\* nothing is left in the queue and every posted callback has been started
\* exactly once, for any number of threads, provided nobody schedules from
\* outside during stop() and no body calls YieldToReady: stopping() is then
\* stable, so no thread leaves while a task for it can still appear.
THEOREM PinnedStopDrains == Spec => []PinnedDrained
<1>1. DrainInv /\ StillInv => PinnedDrained
  <2> SUFFICES ASSUME DrainInv, StillInv, Calm, opc = "stop_join", thrs # {}, Joined
               PROVE  m_fibers = <<>> /\ \A c \in posted : entries[c] = 1
    BY DEF PinnedDrained, NothingLeft, Calm
  <2> USE DEF DrainInv
  <2>1. PICK t \in thrs : pc[t] = "exited"
    BY DEF Joined
  <2>2. idle_fiber[t] = "TERM"
    BY <2>1 DEF CountInv, Types, Threads, StopInv, StopFlagInv
  <2>3. m_fibers = <<>>
    BY <2>2 DEF StillInv
  <2>4. pc[Root] = "unborn" /\ m_threads = {}
    BY DEF CountInv, RootInv, Threads, StopInv, OwnerInv
  <2>5. \A u \in Threads : pc[u] \in {"unborn", "exited"}
    BY <2>4 DEF Joined, StopInv, OwnerInv, Threads
  <2>6. \A u \in Threads : ft[u].cb = None
    BY <2>5 DEF CallbackInv
  <2>7. ASSUME NEW c \in posted PROVE entries[c] = 1
    <3>1. c # None
      BY ConstantsAssumption DEF CountInv, Types, Fibers
    <3>2. Elems(m_fibers) = {}
      BY <2>3 DEF Elems
    <3> QED BY <2>6, <3>1, <3>2 DEF CallbackInv, CbsKept
  <2> QED BY <2>3, <2>7
<1> QED BY <1>1, DrainInvariant, StillInvariant, PTL
=============================================================================
