------------------------ MODULE SchedulerTaskProofs ------------------------
(***************************************************************************)
(* What disciplined callers can rely on, for any number of threads, fibers *)
(* and callbacks, pinned or not: no assertion of the scheduler fails, no   *)
(* two threads are ever on the stack of one fiber, a task is taken by the  *)
(* thread it was scheduled for, and the whole implements FiberPool.        *)
(***************************************************************************)
EXTENDS SchedulerProofs

\* What an entry stands for: its fiber, or the callback that has none yet.
Task(e) == IF e.fiber # None THEN e.fiber ELSE e.cb

TaskOf == [e \in Entry |-> Task(e)]

\* Thread t has taken an entry and not yet dispatched it.
Held(t) == pc[t] = "dispatch" /\ ~IsNull(ft[t])

\* An entry that waits, with P the posted callbacks and hd the rights to wake
\* fibers: a callback not yet started, a fiber that was woken, or one that gave
\* up its thread with YieldToReady.
Waits(e, P, hd) ==
  /\ ~IsNull(e) /\ (e.fiber = None \/ e.cb = None)
  /\ e.fiber # None =>
       \/ hd[e.fiber] = "woken"
       \/ /\ hd[e.fiber] = "none" /\ mState[e.fiber] = "READY"
          /\ \A t \in Threads : Busy(t) => Cur(t) # e.fiber
  /\ e.fiber = None => e.cb \in P /\ mState[e.cb] = "NONE"

\* Entries wait, in the queue q or taken by a thread, and no task waits twice.
Waiting(q, P, hd) ==
  /\ \A e \in Elems(q) : Waits(e, P, hd)
  /\ \A t \in Threads : Held(t) =>
       /\ Waits(ft[t], P, hd)
       /\ ft[t].fiber # None => mState[ft[t].fiber] \in {"INIT", "HOLD", "READY"}
       /\ \A e \in Elems(q) : Task(e) # Task(ft[t])
       /\ \A u \in Threads : Held(u) /\ Task(ft[u]) = Task(ft[t]) => u = t
  /\ Distinct(q, TaskOf)

\* Who may wake a fiber follows its state, and one that can still be woken is
\* not waiting.
Rights(q, P, hd) ==
  /\ \A c \in Cbs \ P : mState[c] = "NONE"
  /\ \A f \in Fibers : hd[f] # "none" =>
       mState[f] \in {"INIT", "HOLD", "EXEC"} /\ mCallback[f] # None
  /\ \A f \in Fibers : hd[f] = "armed" =>
       /\ \A e \in Elems(q) : Task(e) # f
       /\ \A t \in Threads : Held(t) => Task(ft[t]) # f

\* The fibers that threads have: each by one thread, and the kept cb_fiber of a
\* thread that does not run it is Reset.
Stacks ==
  /\ \A f \in Fibers : mState[f] \in {"EXEC", "READY", "HOLD"} => mCallback[f] # None
  /\ \A f \in Fibers : mState[f] = "NONE" => \A t \in Threads : cb_fiber[t] # f
  /\ \A t \in Threads : Busy(t) =>
       /\ Cur(t) # None /\ mState[Cur(t)] \in {"EXEC", "READY"} \cup Dead
       /\ pc[t] = "exec" => mState[Cur(t)] = "EXEC"
       /\ \A u \in Threads : Busy(u) /\ Cur(u) = Cur(t) => u = t
  /\ \A t \in Threads : cb_fiber[t] # None =>
       /\ ~(Busy(t) /\ ft[t].fiber = None) =>
            mState[cb_fiber[t]] = "INIT" /\ mCallback[cb_fiber[t]] = None
       /\ \A u \in Threads : cb_fiber[u] = cb_fiber[t] => u = t

TaskInv == Waiting(m_fibers, posted, hand) /\ Rights(m_fibers, posted, hand) /\ Stacks

LEMMA TaskInit == Init => TaskInv
<1> SUFFICES ASSUME Init PROVE TaskInv
  OBVIOUS
<1>1. /\ Elems(m_fibers) = {} /\ Distinct(m_fibers, TaskOf)
      /\ \A t \in Threads : pc[t] = "unborn" /\ cb_fiber[t] = None
  BY DEF Init, Elems, Distinct
<1>2. \A f \in Fibers : /\ mState[f] = IF f \in ClientFibers THEN "INIT" ELSE "NONE"
                        /\ mCallback[f] = IF f \in ClientFibers THEN f ELSE None
                        /\ hand[f] = IF f \in ClientFibers THEN "armed" ELSE "none"
  BY DEF Init
<1>3. Cbs \subseteq Fibers /\ ClientFibers \cap Cbs = {} /\ None \notin Fibers
  BY ConstantsAssumption DEF Fibers
<1>4. Waiting(m_fibers, posted, hand)
  BY <1>1 DEF Waiting, Held
<1>5. Rights(m_fibers, posted, hand)
  BY <1>1, <1>2, <1>3 DEF Rights, Held
<1>6. Stacks
  BY <1>1, <1>2, <1>3 DEF Stacks, Busy
<1> QED BY <1>4, <1>5, <1>6 DEF TaskInv

\* The types that the proofs below use.
LEMMA TaskTypes ==
  ASSUME Types
  PROVE  /\ m_fibers \in Seq(Entry) /\ posted \in SUBSET Cbs
         /\ hand \in [Fibers -> {"none", "armed", "woken"}]
         /\ mState \in [Fibers -> State] /\ mCallback \in [Fibers -> Fibers \cup {None}]
         /\ pc \in [Threads -> Pc] /\ ft \in [Threads -> Entry]
         /\ cb_fiber \in [Threads -> Fibers \cup {None}]
         /\ None \notin Fibers /\ Cbs \subseteq Fibers
         /\ \A t \in Threads : /\ ft[t].fiber \in Fibers \cup {None}
                               /\ ft[t].cb \in Cbs \cup {None}
                               /\ Cur(t) \in Fibers \cup {None}
         /\ Elems(m_fibers) \subseteq Entry
         /\ \A e \in Elems(m_fibers) : /\ e.fiber \in Fibers \cup {None}
                                       /\ e.cb \in Cbs \cup {None}
<1>1. None \notin Fibers /\ Cbs \subseteq Fibers
  BY ConstantsAssumption DEF Fibers
<1>2. \A t \in Threads : ft[t] \in Entry /\ cb_fiber[t] \in Fibers \cup {None}
  BY DEF Types
<1>3. \A t \in Threads : ft[t].fiber \in Fibers \cup {None} /\ ft[t].cb \in Cbs \cup {None}
  BY <1>2 DEF Entry
<1>4. \A t \in Threads : Cur(t) \in Fibers \cup {None}
  BY <1>2, <1>3 DEF Cur
<1>5. m_fibers \in Seq(Entry)
  BY DEF Types
<1> QED BY <1>1, <1>3, <1>4, <1>5, ElemsType DEF Types

\* A fiber that a thread has is in no other thread's hands, and is in the queue
\* only if it was woken.
LEMMA BusyNotWaiting ==
  ASSUME Types, TaskInv, NEW t \in Threads, Busy(t)
  PROVE  /\ Cur(t) \in Fibers
         /\ hand[Cur(t)] = "none" => \A e \in Elems(m_fibers) : Task(e) # Cur(t)
         /\ \A u \in Threads : Held(u) => Task(ft[u]) # Cur(t)
<1> DEFINE f == Cur(t)
<1>1. f \in Fibers /\ mState[f] \in {"EXEC", "READY"} \cup Dead
  BY TaskTypes DEF TaskInv, Stacks
<1>2. mState[f] \notin {"NONE", "INIT", "HOLD"}
  BY <1>1 DEF Dead
<1>3. ASSUME hand[f] = "none", NEW e \in Elems(m_fibers) PROVE Task(e) # f
  BY <1>1, <1>2, <1>3 DEF TaskInv, Waiting, Waits, Task
<1>4. ASSUME NEW u \in Threads, Held(u), Task(ft[u]) = f PROVE FALSE
  <2>1. /\ Waits(ft[u], posted, hand)
        /\ ft[u].fiber # None => mState[ft[u].fiber] \in {"INIT", "HOLD", "READY"}
    BY <1>4 DEF TaskInv, Waiting
  <2>2. ft[u].fiber = f /\ mState[f] = "READY"
    BY <1>1, <1>2, <1>4, <2>1 DEF Waits, Task
  <2>3. hand[f] # "woken"
    BY <1>1, <2>2 DEF TaskInv, Rights
  <2>4. f # None
    BY <1>1, TaskTypes
  <2> QED BY <2>1, <2>2, <2>3, <2>4 DEF Waits
<1> QED BY <1>1, <1>3, <1>4

\* Nor does anybody wait for, or have, the cb_fiber that a thread keeps.
LEMMA KeptNotWaiting ==
  ASSUME Types, TaskInv, NEW t \in Threads, cb_fiber[t] # None, ~(Busy(t) /\ ft[t].fiber = None)
  PROVE  /\ cb_fiber[t] \in Fibers /\ hand[cb_fiber[t]] = "none"
         /\ \A e \in Elems(m_fibers) : Task(e) # cb_fiber[t]
         /\ \A u \in Threads : /\ Held(u) => Task(ft[u]) # cb_fiber[t]
                               /\ Busy(u) => Cur(u) # cb_fiber[t]
<1> DEFINE f == cb_fiber[t]
<1>1. f \in Fibers /\ mState[f] = "INIT" /\ mCallback[f] = None
  BY TaskTypes DEF TaskInv, Stacks
<1>2. hand[f] = "none"
  BY <1>1 DEF TaskInv, Rights
<1>3. ASSUME NEW e, Waits(e, posted, hand) PROVE Task(e) # f
  BY <1>1, <1>2, <1>3 DEF Waits, Task
<1>4. \A u \in Threads : Busy(u) => Cur(u) # f
  BY <1>1 DEF TaskInv, Stacks, Dead
<1> QED BY <1>1, <1>2, <1>3, <1>4 DEF TaskInv, Waiting

\* A callback that was not posted waits nowhere.
LEMMA FreshNotWaiting ==
  ASSUME NEW q, NEW P, NEW hd, Waiting(q, P, hd), Rights(q, P, hd),
         NEW c \in Cbs \ P
  PROVE  /\ \A e \in Elems(q) : Task(e) # c
         /\ \A t \in Threads : Held(t) => Task(ft[t]) # c
<1>1. mState[c] = "NONE" /\ c \in Fibers
  BY DEF Rights, Fibers
<1>2. hd[c] = "none"
  BY <1>1 DEF Rights
<1>3. ASSUME NEW e, Waits(e, P, hd) PROVE Task(e) # c
  BY <1>1, <1>2, <1>3 DEF Waits, Task
<1> QED BY <1>3 DEF Waiting

----------------------------------------------------------------------------
(* schedule() *)

\* An entry e is queued: a callback that was not posted, or a fiber that waits
\* nowhere and can be woken.
LEMMA TaskPush ==
  ASSUME NEW q \in Seq(Entry), NEW P \in SUBSET Cbs, NEW hd,
         Waiting(q, P, hd), Rights(q, P, hd),
         \A t \in Threads : ft[t] \in Entry,
         NEW e \in Entry, e.fiber = None \/ e.cb = None,
         e.cb \in (Cbs \ P) \cup {None},
         e.fiber # None => /\ mState[e.fiber] \in {"INIT", "HOLD", "EXEC"} /\ mCallback[e.fiber] # None
                           /\ \A x \in Elems(q) : Task(x) # e.fiber
                           /\ \A t \in Threads : Held(t) => Task(ft[t]) # e.fiber,
         NEW R, R = P \cup ({e.cb} \ {None}),
         NEW hs, \A f \in Fibers : hs[f] = IF f = e.fiber THEN "woken" ELSE hd[f]
  PROVE  Waiting(Push(q, e), R, hs) /\ Rights(Push(q, e), R, hs)
<1> DEFINE r == Push(q, e)
<1>0. /\ Cbs \subseteq Fibers /\ None \notin Fibers
      /\ e.fiber \in Fibers \cup {None} /\ e.cb \in Cbs \cup {None}
  BY ConstantsAssumption DEF Entry, Fibers
<1>1. /\ Elems(q) \subseteq Elems(r) /\ Elems(r) \subseteq Elems(q) \cup {e}
      /\ \A x \in Elems(r) : x \in Elems(q) \/ (x = e /\ ~IsNull(e))
  BY PushElems
<1>2. ASSUME ~IsNull(e)
      PROVE  /\ Task(e) \in {e.fiber, e.cb} /\ Task(e) # None /\ Task(e) \in Fibers
             /\ {e.fiber, e.cb} \ {None} = {Task(e)}
             /\ \A x \in Elems(q) : Task(x) # Task(e)
             /\ \A t \in Threads : Held(t) => Task(ft[t]) # Task(e)
  <2>1. /\ Task(e) \in {e.fiber, e.cb} /\ Task(e) # None /\ Task(e) \in Fibers
        /\ {e.fiber, e.cb} \ {None} = {Task(e)}
    BY <1>0, <1>2 DEF Task, IsNull
  <2>2. CASE e.fiber # None
    BY <2>1, <2>2 DEF Task
  <2>3. CASE e.fiber = None
    <3>1. e.cb \in Cbs \ P /\ Task(e) = e.cb
      BY <1>0, <1>2, <2>3 DEF Task, IsNull
    <3> QED BY <2>1, <3>1, FreshNotWaiting
  <2> QED BY <2>1, <2>2, <2>3
<1>3. ASSUME NEW x \in Entry, Waits(x, P, hd), ~IsNull(e) => Task(x) # Task(e)
      PROVE  Waits(x, R, hs)
  <2>1. /\ ~IsNull(x) /\ (x.fiber = None \/ x.cb = None)
        /\ x.fiber # None => x.fiber \in Fibers /\ Task(x) = x.fiber
        /\ x.fiber = None => x.cb \in Fibers /\ Task(x) = x.cb
    BY <1>0, <1>3 DEF Waits, Entry, Task, IsNull
  <2>2. Task(x) \in Fibers /\ Task(x) \notin {e.fiber, e.cb}
    BY <1>0, <1>2, <1>3, <2>1 DEF IsNull
  <2>3. x.fiber # None => hs[x.fiber] = hd[x.fiber]
    BY <2>1, <2>2
  <2>4. P \subseteq R
    OBVIOUS
  <2> QED BY <1>3, <2>1, <2>3, <2>4 DEF Waits
<1>4. ~IsNull(e) => Waits(e, R, hs)
  BY <1>0, <1>2 DEF Waits, Rights, Task, IsNull
<1>5. Elems(q) \subseteq Entry
  BY ElemsType
<1>6. \A x \in Elems(r) : Waits(x, R, hs)
  BY <1>1, <1>2, <1>3, <1>4, <1>5 DEF Waiting
<1>7. \A t \in Threads : Held(t) =>
        /\ Waits(ft[t], R, hs)
        /\ ft[t].fiber # None => mState[ft[t].fiber] \in {"INIT", "HOLD", "READY"}
        /\ \A x \in Elems(r) : Task(x) # Task(ft[t])
        /\ \A u \in Threads : Held(u) /\ Task(ft[u]) = Task(ft[t]) => u = t
  BY <1>1, <1>2, <1>3 DEF Waiting
<1>8. Distinct(r, TaskOf)
  <2>1. \A x \in Elems(q) : TaskOf[e] # None => TaskOf[x] # TaskOf[e]
    BY <1>2, <1>5 DEF TaskOf, Task, IsNull
  <2> QED BY <2>1, PushDistinct DEF Waiting
<1>9. Rights(r, R, hs)
  <2>1. \A c \in Cbs \ R : mState[c] = "NONE"
    BY DEF Rights
  <2>2. \A f \in Fibers : hs[f] # "none" =>
          mState[f] \in {"INIT", "HOLD", "EXEC"} /\ mCallback[f] # None
    BY <1>0 DEF Rights
  <2>3. ASSUME NEW f \in Fibers, hs[f] = "armed"
        PROVE  /\ \A x \in Elems(r) : Task(x) # f
               /\ \A t \in Threads : Held(t) => Task(ft[t]) # f
    <3>1. f # e.fiber /\ hd[f] = "armed"
      BY <2>3
    <3>2. f # e.cb
      BY <1>0, <3>1 DEF Rights
    <3>3. ~IsNull(e) => Task(e) # f
      BY <1>2, <3>1, <3>2
    <3> QED BY <1>1, <3>1, <3>3 DEF Rights
  <2> QED BY <2>1, <2>2, <2>3 DEF Rights
<1> QED BY <1>6, <1>7, <1>8, <1>9 DEF Waiting

\* Nothing else of the invariant moves in a call of schedule().
LEMMA TaskScheduled ==
  ASSUME Stacks, UNCHANGED <<mState, mCallback, pc, ft, cb_fiber>>,
         Waiting(m_fibers', posted', hand'), Rights(m_fibers', posted', hand')
  PROVE  TaskInv'
<1>1. Waiting(m_fibers, posted, hand)'
  BY DEF Waiting, Waits, Held, Busy, Cur, Task, IsNull
<1>2. Rights(m_fibers, posted, hand)'
  BY DEF Rights, Held, Task, IsNull
<1>3. Stacks'
  BY DEF Stacks, Busy, Cur
<1> QED BY <1>1, <1>2, <1>3 DEF TaskInv

\* What a disciplined caller passes can be queued.
LEMMA MayPush ==
  ASSUME Types, TaskInv, habits.disciplined, NEW e \in Calls, MayPass(e)
  PROVE  /\ e \in Entry /\ (e.fiber = None \/ e.cb = None)
         /\ e.cb \in (Cbs \ posted) \cup {None}
         /\ e.fiber # None =>
              /\ hand[e.fiber] = "armed"
              /\ mState[e.fiber] \in {"INIT", "HOLD", "EXEC"} /\ mCallback[e.fiber] # None
              /\ \A x \in Elems(m_fibers) : Task(x) # e.fiber
              /\ \A t \in Threads : Held(t) => Task(ft[t]) # e.fiber
<1>1. /\ e \in Entry /\ (e.cb # None => e.fiber = None)
      /\ e.cb \in (Cbs \ posted) \cup {None}
  BY CallsOne
<1>2. e.fiber # None => e.fiber \in Fibers /\ hand[e.fiber] = "armed"
  BY DEF MayPass, IsNull
<1> QED BY <1>1, <1>2 DEF TaskInv, Rights

LEMMA TaskSchedule ==
  ASSUME Types, TaskInv, habits.disciplined, NEW e \in Calls, Schedule(e)
  PROVE  TaskInv'
<1>1. /\ m_fibers' = Push(m_fibers, e) /\ posted' = posted \cup ({e.cb} \ {None})
      /\ \A f \in Fibers : hand'[f] = IF f = e.fiber THEN "woken" ELSE hand[f]
      /\ UNCHANGED <<mState, mCallback, pc, ft, cb_fiber>> /\ MayPass(e)
  BY DEF Schedule, Passed, threadVars
<1>2. \A t \in Threads : ft[t] \in Entry
  BY TaskTypes
<1>3. m_fibers \in Seq(Entry) /\ posted \in SUBSET Cbs
  BY TaskTypes
<1>4. Waiting(m_fibers, posted, hand) /\ Rights(m_fibers, posted, hand) /\ Stacks
  BY DEF TaskInv
<1>5. /\ e \in Entry /\ (e.fiber = None \/ e.cb = None)
      /\ e.cb \in (Cbs \ posted) \cup {None}
      /\ e.fiber # None =>
           /\ mState[e.fiber] \in {"INIT", "HOLD", "EXEC"} /\ mCallback[e.fiber] # None
           /\ \A x \in Elems(m_fibers) : Task(x) # e.fiber
           /\ \A t \in Threads : Held(t) => Task(ft[t]) # e.fiber
  BY <1>1, MayPush
<1>6. Waiting(Push(m_fibers, e), posted', hand') /\ Rights(Push(m_fibers, e), posted', hand')
  BY <1>1, <1>2, <1>3, <1>4, <1>5, TaskPush
<1> QED BY <1>1, <1>4, <1>6, TaskScheduled

LEMMA TaskBatch ==
  ASSUME Types, TaskInv, habits.disciplined, NEW e1 \in Calls, NEW e2 \in Calls,
         ScheduleBatch(e1, e2)
  PROVE  TaskInv'
<1> DEFINE q1 == Push(m_fibers, e1)
           P1 == posted \cup ({e1.cb} \ {None})
           h1 == [f \in Fibers |-> IF f = e1.fiber THEN "woken" ELSE hand[f]]
<1>1. /\ m_fibers' = Push(q1, e2) /\ posted' = posted \cup ({e1.cb, e2.cb} \ {None})
      /\ hand' = [f \in Fibers |-> IF f \in {e1.fiber, e2.fiber} THEN "woken" ELSE hand[f]]
      /\ UNCHANGED <<mState, mCallback, pc, ft, cb_fiber>> /\ MayPass(e1) /\ MayPass(e2)
      /\ e1.thread = AnyThread /\ e2.thread = AnyThread /\ e1 # e2
  BY DEF ScheduleBatch, threadVars
<1>2. \A t \in Threads : ft[t] \in Entry
  BY TaskTypes
<1>3. m_fibers \in Seq(Entry) /\ posted \in SUBSET Cbs
  BY TaskTypes
<1>4. Waiting(m_fibers, posted, hand) /\ Rights(m_fibers, posted, hand) /\ Stacks
  BY DEF TaskInv
<1>5. /\ e1 \in Entry /\ (e1.fiber = None \/ e1.cb = None)
      /\ e1.cb \in (Cbs \ posted) \cup {None}
      /\ e1.fiber # None =>
           /\ mState[e1.fiber] \in {"INIT", "HOLD", "EXEC"} /\ mCallback[e1.fiber] # None
           /\ \A x \in Elems(m_fibers) : Task(x) # e1.fiber
           /\ \A t \in Threads : Held(t) => Task(ft[t]) # e1.fiber
  BY <1>1, MayPush
<1>6. /\ e2 \in Entry /\ (e2.fiber = None \/ e2.cb = None)
      /\ e2.cb \in (Cbs \ posted) \cup {None}
      /\ e2.fiber # None =>
           /\ mState[e2.fiber] \in {"INIT", "HOLD", "EXEC"} /\ mCallback[e2.fiber] # None
           /\ \A x \in Elems(m_fibers) : Task(x) # e2.fiber
           /\ \A t \in Threads : Held(t) => Task(ft[t]) # e2.fiber
  BY <1>1, MayPush
<1>7. /\ \A f \in Fibers : h1[f] = IF f = e1.fiber THEN "woken" ELSE hand[f]
      /\ P1 = posted \cup ({e1.cb} \ {None})
  OBVIOUS
<1> HIDE DEF P1, h1
<1>8. Waiting(q1, P1, h1) /\ Rights(q1, P1, h1)
  BY <1>2, <1>3, <1>4, <1>5, <1>7, TaskPush
<1>9. (e1.cb # None => e1.cb # e2.cb) /\ (e1.fiber # None => e1.fiber # e2.fiber)
  BY <1>1, <1>5, <1>6 DEF Entry
<1>10. e2.cb \in (Cbs \ P1) \cup {None}
  BY <1>6, <1>7, <1>9
<1>11. e2.fiber # None => \A x \in Elems(q1) : Task(x) # e2.fiber
  <2> SUFFICES ASSUME e2.fiber # None PROVE Task(e1) # e2.fiber
    BY <1>3, <1>5, <1>6, PushElems
  <2>1. e1.cb # None => mState[e1.cb] = "NONE"
    BY <1>4, <1>5 DEF Rights
  <2> QED BY <1>6, <1>9, <2>1 DEF Task
<1>12. q1 \in Seq(Entry) /\ P1 \in SUBSET Cbs
  BY <1>3, <1>5, <1>7, PushType
<1> HIDE DEF q1
<1>13. /\ posted' = P1 \cup ({e2.cb} \ {None})
       /\ \A f \in Fibers : hand'[f] = IF f = e2.fiber THEN "woken" ELSE h1[f]
  BY <1>1, <1>7
<1>14. e2.fiber # None =>
         /\ mState[e2.fiber] \in {"INIT", "HOLD", "EXEC"} /\ mCallback[e2.fiber] # None
         /\ \A x \in Elems(q1) : Task(x) # e2.fiber
         /\ \A t \in Threads : Held(t) => Task(ft[t]) # e2.fiber
  BY <1>6, <1>11
<1>15. e2 \in Entry /\ (e2.fiber = None \/ e2.cb = None)
  BY <1>6
<1>16. Waiting(Push(q1, e2), posted', hand') /\ Rights(Push(q1, e2), posted', hand')
  BY <1>2, <1>8, <1>10, <1>12, <1>13, <1>14, <1>15, TaskPush
<1> QED BY <1>1, <1>4, <1>16, TaskScheduled

\* switchTo queues the fiber that calls it.
LEMMA TaskSwitch ==
  ASSUME Types, TaskInv, habits.disciplined, NEW t \in Threads, NEW p \in Pins, SwitchTo(t, p)
  PROVE  TaskInv'
<1> DEFINE f == Cur(t)
<1>0. /\ pc[t] = "exec" /\ Busy(t) /\ hand[f] = "none" /\ mCallback[f] # None
  BY DEF SwitchTo, Busy, Free
<1>1. f \in Fibers /\ f # None /\ p \in Threads \cup {AnyThread}
  BY <1>0, BusyNotWaiting, TaskTypes, ConstantsAssumption
<1>2. PICK e \in Entry : e = FiberEntry(f, p) /\ e.fiber = f /\ e.cb = None /\ e.thread = p
  <2>1. FiberEntry(f, p) \in Entry
    BY <1>1, EntryTypes
  <2>2. /\ FiberEntry(f, p).fiber = f /\ FiberEntry(f, p).cb = None
        /\ FiberEntry(f, p).thread = p
    BY DEF FiberEntry
  <2> QED BY <2>1, <2>2
<1>3. /\ m_fibers' = Push(m_fibers, e) /\ posted' = posted
      /\ hand' = [hand EXCEPT ![f] = "woken"]
      /\ UNCHANGED <<mState, mCallback, pc, ft, cb_fiber>>
  BY <1>2 DEF SwitchTo, threadVars
<1>4. /\ \A t1 \in Threads : ft[t1] \in Entry
      /\ m_fibers \in Seq(Entry) /\ posted \in SUBSET Cbs
  BY TaskTypes
<1>5. Waiting(m_fibers, posted, hand) /\ Rights(m_fibers, posted, hand) /\ Stacks
  BY DEF TaskInv
<1>6. /\ mState[f] = "EXEC"
      /\ \A x \in Elems(m_fibers) : Task(x) # f
      /\ \A u \in Threads : Held(u) => Task(ft[u]) # f
  BY <1>0, <1>5, BusyNotWaiting DEF Stacks
<1> HIDE DEF f
<1>7. /\ posted' = posted \cup ({e.cb} \ {None})
      /\ \A g \in Fibers : hand'[g] = IF g = e.fiber THEN "woken" ELSE hand[g]
  BY <1>1, <1>2, <1>3, TaskTypes
<1>8. e.fiber # None =>
        /\ mState[e.fiber] \in {"INIT", "HOLD", "EXEC"} /\ mCallback[e.fiber] # None
        /\ \A x \in Elems(m_fibers) : Task(x) # e.fiber
        /\ \A u \in Threads : Held(u) => Task(ft[u]) # e.fiber
  BY <1>0, <1>2, <1>6
<1>9. e.cb \in (Cbs \ posted) \cup {None} /\ (e.fiber = None \/ e.cb = None)
  BY <1>2
<1>10. Waiting(Push(m_fibers, e), posted', hand') /\ Rights(Push(m_fibers, e), posted', hand')
  BY <1>4, <1>5, <1>7, <1>8, <1>9, TaskPush
<1> QED BY <1>3, <1>5, <1>10, TaskScheduled

----------------------------------------------------------------------------
(* The run loop and the bodies *)

\* A step that moves threads without giving them, or taking from them, a fiber
\* or an entry.
LEMMA TaskSame ==
  ASSUME TaskInv, UNCHANGED <<m_fibers, posted, hand, mState, mCallback, cb_fiber>>,
         \A t \in Threads : /\ Busy(t)' <=> Busy(t)
                            /\ Held(t)' => Held(t)
                            /\ Busy(t) \/ Held(t)' => ft'[t] = ft[t]
                            /\ pc'[t] = "exec" => pc[t] = "exec"
  PROVE  TaskInv'
<1>1. \A t \in Threads : Busy(t) => Cur(t)' = Cur(t)
  BY DEF Cur
<1>2. \A e : Waits(e, posted, hand) => Waits(e, posted, hand)'
  BY <1>1 DEF Waits, Task, IsNull
<1>3. Waiting(m_fibers, posted, hand)'
  <2>1. \A e \in Elems(m_fibers') : Waits(e, posted, hand)'
    BY <1>2 DEF TaskInv, Waiting
  <2>2. ASSUME NEW t \in Threads, Held(t)'
        PROVE  /\ Waits(ft[t], posted, hand)'
               /\ ft'[t].fiber # None => mState'[ft'[t].fiber] \in {"INIT", "HOLD", "READY"}
               /\ \A e \in Elems(m_fibers') : Task(e) # Task(ft'[t])
               /\ \A u \in Threads : Held(u)' /\ Task(ft'[u]) = Task(ft'[t]) => u = t
    <3>1. Held(t) /\ ft'[t] = ft[t]
      BY <2>2
    <3>2. \A u \in Threads : Held(u)' => Held(u) /\ ft'[u] = ft[u]
      OBVIOUS
    <3> QED BY <1>2, <3>1, <3>2 DEF TaskInv, Waiting, Task
  <2>3. Distinct(m_fibers', TaskOf)
    BY DEF TaskInv, Waiting
  <2> QED BY <2>1, <2>2, <2>3 DEF Waiting, Task
<1>4. Rights(m_fibers, posted, hand)'
  BY DEF TaskInv, Rights, Task
<1>5. Stacks'
  BY <1>1 DEF TaskInv, Stacks
<1> QED BY <1>3, <1>4, <1>5 DEF TaskInv

\* Thread t takes an entry of the queue.
LEMMA TaskPick ==
  ASSUME Types, TaskInv, NEW t \in Threads, Pick(t)
  PROVE  TaskInv' /\ UNCHANGED aborted
<1> USE DEF queueVars, stopVars, countVars, fiberVars, threadVars
<1> DEFINE i == FirstFor(t)
<1>0. /\ m_fibers \in Seq(Entry) /\ pc \in [Threads -> Pc] /\ ft \in [Threads -> Entry]
      /\ None \notin Fibers
  BY TaskTypes
<1>1. i = 0 \/ (i # 0 /\ i \in DOMAIN m_fibers /\ Takes(t, m_fibers[i]))
  BY FirstForScan
<1>2. i # 0 => m_fibers[i] \in Elems(m_fibers) /\ Waits(m_fibers[i], posted, hand)
  BY <1>1 DEF Elems, TaskInv, Waiting
<1>3. /\ pc[t] = "pick" /\ pc' = [pc EXCEPT ![t] = "dispatch"]
      /\ ft' = [ft EXCEPT ![t] = IF i = 0 THEN NoTask ELSE m_fibers[i]]
      /\ m_fibers' = IF i = 0 THEN m_fibers ELSE Erase(m_fibers, i)
      /\ UNCHANGED <<posted, hand, mState, mCallback, cb_fiber, aborted>>
  BY <1>2 DEF Pick, Waits
<1> HIDE DEF i
<1>4. CASE i = 0
  <2>1. pc'[t] = "dispatch" /\ ft'[t] = NoTask
    BY <1>0, <1>3, <1>4
  <2>2. \A u \in Threads : u # t => pc'[u] = pc[u] /\ ft'[u] = ft[u]
    BY <1>0, <1>3
  <2>3. ~Busy(t) /\ ~Busy(t)' /\ ~Held(t)'
    BY <1>3, <2>1 DEF Busy, Held, IsNull, NoTask
  <2>4. \A u \in Threads : /\ Busy(u)' <=> Busy(u)
                           /\ Held(u)' => Held(u)
                           /\ Busy(u) \/ Held(u)' => ft'[u] = ft[u]
                           /\ pc'[u] = "exec" => pc[u] = "exec"
    BY <2>1, <2>2, <2>3 DEF Busy, Held
  <2> QED BY <1>3, <1>4, <2>4, TaskSame
<1>5. CASE i # 0
  <2> DEFINE x == m_fibers[i]
  <2>1. /\ pc'[t] = "dispatch" /\ ft'[t] = x /\ x \in Elems(m_fibers)
        /\ Waits(x, posted, hand) /\ Takes(t, x)
    BY <1>0, <1>1, <1>2, <1>3, <1>5
  <2>2. \A u \in Threads : u # t => pc'[u] = pc[u] /\ ft'[u] = ft[u]
    BY <1>0, <1>3
  <2>3. /\ Elems(m_fibers') \subseteq Elems(m_fibers)
        /\ Distinct(m_fibers', TaskOf)
        /\ TaskOf[x] # None => \A e \in Elems(m_fibers') : TaskOf[e] # TaskOf[x]
    <3>1. m_fibers' = Erase(m_fibers, i) /\ i \in DOMAIN m_fibers
      BY <1>1, <1>3, <1>5
    <3>2. Distinct(m_fibers, TaskOf)
      BY DEF TaskInv, Waiting
    <3>3. /\ Elems(Erase(m_fibers, i)) \subseteq Elems(m_fibers)
          /\ Distinct(Erase(m_fibers, i), TaskOf)
          /\ TaskOf[m_fibers[i]] # None =>
               \A e \in Elems(Erase(m_fibers, i)) : TaskOf[e] # TaskOf[m_fibers[i]]
      BY <1>0, <3>1, <3>2, EraseElems
    <3> QED BY <3>1, <3>3
  <2>4. Elems(m_fibers) \subseteq Entry
    BY <1>0, ElemsType
  <2> HIDE DEF x
  <2>5. Task(x) # None /\ \A e \in Elems(m_fibers') : Task(e) # Task(x)
    <3>1. Task(x) # None
      BY <2>1 DEF Waits, Task, IsNull
    <3> QED BY <2>1, <2>3, <2>4, <3>1 DEF TaskOf
  <2>6. \A u \in Threads : /\ Busy(u)' <=> Busy(u)
                           /\ Busy(u) => u # t /\ ft'[u] = ft[u] /\ Cur(u)' = Cur(u)
                           /\ pc'[u] = "exec" => pc[u] = "exec"
    BY <1>3, <2>1, <2>2 DEF Busy, Cur
  <2>7. \A e : Waits(e, posted, hand) => Waits(e, posted, hand)'
    BY <1>3, <2>6 DEF Waits, Task, IsNull
  <2>8. \A u \in Threads : u # t /\ Held(u)' => Held(u) /\ ft'[u] = ft[u]
    BY <2>2 DEF Held
  <2>9. x.fiber # None => mState[x.fiber] \in {"INIT", "HOLD", "READY"}
    <3> SUFFICES ASSUME x.fiber # None PROVE mState[x.fiber] \in {"INIT", "HOLD", "READY"}
      OBVIOUS
    <3>1. x.fiber \in Fibers /\ mState[x.fiber] # "EXEC"
      BY <2>1, <2>4 DEF Entry, Takes
    <3> QED BY <2>1, <3>1 DEF Waits, TaskInv, Rights
  <2>10. Waiting(m_fibers, posted, hand)'
    <3>1. \A e \in Elems(m_fibers') : Waits(e, posted, hand)'
      BY <2>3, <2>7 DEF TaskInv, Waiting
    <3>2. ASSUME NEW u \in Threads, Held(u)'
          PROVE  /\ Waits(ft[u], posted, hand)'
                 /\ ft'[u].fiber # None => mState'[ft'[u].fiber] \in {"INIT", "HOLD", "READY"}
                 /\ \A e \in Elems(m_fibers') : Task(e) # Task(ft'[u])
                 /\ \A v \in Threads : Held(v)' /\ Task(ft'[v]) = Task(ft'[u]) => v = u
      <4>1. \A v \in Threads : v # t /\ Held(v)' => Task(ft'[v]) # Task(x)
        BY <2>1, <2>8 DEF TaskInv, Waiting
      <4>2. CASE u = t
        BY <1>3, <2>1, <2>5, <2>7, <2>9, <4>1, <4>2 DEF Takes
      <4>3. CASE u # t
        <5>1. Held(u) /\ ft'[u] = ft[u]
          BY <2>8, <3>2, <4>3
        <5>2. /\ Waits(ft[u], posted, hand)
              /\ ft[u].fiber # None => mState[ft[u].fiber] \in {"INIT", "HOLD", "READY"}
              /\ \A e \in Elems(m_fibers) : Task(e) # Task(ft[u])
              /\ \A v \in Threads : Held(v) /\ Task(ft[v]) = Task(ft[u]) => v = u
          BY <5>1 DEF TaskInv, Waiting
        <5>3. \A v \in Threads : Held(v)' /\ Task(ft'[v]) = Task(ft'[u]) => v = u
          BY <2>1, <2>8, <4>1, <4>3, <3>2, <5>1, <5>2
        <5> QED BY <1>3, <2>3, <2>7, <5>1, <5>2, <5>3
      <4> QED BY <4>2, <4>3
    <3> QED BY <2>3, <3>1, <3>2 DEF Waiting, Task
  <2>11. Rights(m_fibers, posted, hand)'
    <3>1. \A f \in Fibers : hand[f] = "armed" =>
            /\ \A e \in Elems(m_fibers') : Task(e) # f
            /\ \A u \in Threads : Held(u)' => Task(ft'[u]) # f
      BY <2>1, <2>3, <2>8 DEF TaskInv, Rights
    <3> QED BY <1>3, <3>1 DEF TaskInv, Rights, Task
  <2>12. Stacks'
    BY <1>3, <2>6 DEF TaskInv, Stacks
  <2> QED BY <1>3, <2>10, <2>11, <2>12 DEF TaskInv
<1> QED BY <1>4, <1>5

\* The entry in a thread's hands is a fiber: nobody has it, nobody keeps it, and
\* its body is not over.
LEMMA HeldFiber ==
  ASSUME Types, TaskInv, NEW t \in Threads, Held(t), ft[t].fiber # None
  PROVE  LET f == ft[t].fiber IN
         /\ f \in Fibers /\ mState[f] \in {"INIT", "HOLD", "READY"} /\ mCallback[f] # None
         /\ Task(ft[t]) = f
         /\ \A e \in Elems(m_fibers) : Task(e) # f
         /\ \A u \in Threads : /\ Busy(u) => Cur(u) # f
                               /\ cb_fiber[u] # f
                               /\ u # t /\ Held(u) => Task(ft[u]) # f
<1> DEFINE f == ft[t].fiber
<1>1. f \in Fibers /\ Task(ft[t]) = f
  BY TaskTypes DEF Task
<1>2. /\ Waits(ft[t], posted, hand)
      /\ mState[f] \in {"INIT", "HOLD", "READY"}
      /\ \A e \in Elems(m_fibers) : Task(e) # f
      /\ \A u \in Threads : u # t /\ Held(u) => Task(ft[u]) # f
  BY <1>1 DEF TaskInv, Waiting
<1>3. mCallback[f] # None
  BY <1>1, <1>2 DEF Waits, TaskInv, Rights, Stacks
<1>4. \A u \in Threads : Busy(u) => Cur(u) # f
  BY <1>1, BusyNotWaiting
<1>5. ASSUME NEW u \in Threads, cb_fiber[u] = f PROVE FALSE
  <2>1. cb_fiber[u] # None
    BY <1>5
  <2>2. CASE Busy(u) /\ ft[u].fiber = None
    BY <1>4, <1>5, <2>2 DEF Cur
  <2>3. CASE ~(Busy(u) /\ ft[u].fiber = None)
    BY <1>1, <1>5, <2>1, <2>3, KeptNotWaiting
  <2> QED BY <2>2, <2>3
<1> QED BY <1>1, <1>2, <1>3, <1>4, <1>5

\* Thread t enters or resumes fiber f, which nobody else has, keeps or awaits:
\* what remains to be shown of its hands and its cb_fiber is a hypothesis.
LEMMA TaskEnter ==
  ASSUME Types, TaskInv, NEW t \in Threads, Held(t),
         NEW f \in Fibers, NEW b \in Fibers, NEW s, Enter(f, b, s),
         mState[f] # "EXEC",
         \A e \in Elems(m_fibers) : Task(e) # f,
         \A u \in Threads \ {t} : /\ Held(u) => Task(ft[u]) # f
                                  /\ Busy(u) => Cur(u) # f
                                  /\ cb_fiber[u] # f,
         f \in Cbs => f \in posted,
         pc' = [pc EXCEPT ![t] = "exec"],
         \A u \in Threads \ {t} : ft'[u] = ft[u] /\ cb_fiber'[u] = cb_fiber[u],
         Cur(t)' = f, cb_fiber'[t] = f \/ cb_fiber'[t] = cb_fiber[t],
         cb_fiber'[t] = f <=> ft'[t].fiber = None,
         UNCHANGED <<m_fibers, posted>>
  PROVE  TaskInv'
<1>0. /\ mState \in [Fibers -> State] /\ mCallback \in [Fibers -> Fibers \cup {None}]
      /\ hand \in [Fibers -> {"none", "armed", "woken"}]
      /\ pc \in [Threads -> Pc] /\ None \notin Fibers /\ Cbs \subseteq Fibers
      /\ \A u \in Threads : /\ ft[u].fiber \in Fibers \cup {None} /\ ft[u].cb \in Cbs \cup {None}
                            /\ cb_fiber[u] \in Fibers \cup {None}
      /\ \A e \in Elems(m_fibers) : e.fiber \in Fibers \cup {None} /\ e.cb \in Cbs \cup {None}
  BY TaskTypes
<1>1. /\ mState'[f] = "EXEC" /\ mCallback'[f] = b /\ hand'[f] = "none"
      /\ \A g \in Fibers : g # f => /\ mState'[g] = mState[g] /\ mCallback'[g] = mCallback[g]
                                    /\ hand'[g] = hand[g]
  BY <1>0 DEF Enter
<1>2. /\ pc'[t] = "exec" /\ pc[t] = "dispatch" /\ Busy(t)' /\ ~Busy(t) /\ ~Held(t)'
      /\ \A u \in Threads \ {t} : /\ pc'[u] = pc[u] /\ Cur(u)' = Cur(u)
                                  /\ Busy(u)' <=> Busy(u)
                                  /\ Held(u)' <=> Held(u)
  BY <1>0 DEF Busy, Held, Cur
<1>3. ASSUME NEW e, e.fiber \in Fibers \cup {None}, e.cb \in Cbs \cup {None},
             Waits(e, posted, hand), Task(e) # f
      PROVE  Waits(e, posted, hand)'
  <2>1. /\ ~IsNull(e) /\ (e.fiber = None \/ e.cb = None)
        /\ Task(e) \in Fibers
        /\ e.fiber # None => Task(e) = e.fiber
        /\ e.fiber = None => Task(e) = e.cb
    BY <1>0, <1>3 DEF Waits, Task, IsNull
  <2>2. e.fiber # None =>
          \/ hand'[e.fiber] = "woken"
          \/ /\ hand'[e.fiber] = "none" /\ mState'[e.fiber] = "READY"
             /\ \A u \in Threads : Busy(u)' => Cur(u)' # e.fiber
    BY <1>1, <1>2, <1>3, <2>1 DEF Waits
  <2>3. e.fiber = None => e.cb \in posted' /\ mState'[e.cb] = "NONE"
    BY <1>0, <1>1, <1>3, <2>1 DEF Waits
  <2> QED BY <2>1, <2>2, <2>3 DEF Waits, Task, IsNull
<1>4. Waiting(m_fibers, posted, hand)'
  <2>1. \A e \in Elems(m_fibers') : Waits(e, posted, hand)'
    BY <1>0, <1>3 DEF TaskInv, Waiting
  <2>2. ASSUME NEW u \in Threads, Held(u)'
        PROVE  /\ Waits(ft[u], posted, hand)'
               /\ ft'[u].fiber # None => mState'[ft'[u].fiber] \in {"INIT", "HOLD", "READY"}
               /\ \A e \in Elems(m_fibers') : Task(e) # Task(ft'[u])
               /\ \A v \in Threads : Held(v)' /\ Task(ft'[v]) = Task(ft'[u]) => v = u
    <3>1. u # t /\ Held(u) /\ ft'[u] = ft[u] /\ Task(ft[u]) # f
      BY <1>2, <2>2
    <3>2. /\ Waits(ft[u], posted, hand)
          /\ ft[u].fiber # None => mState[ft[u].fiber] \in {"INIT", "HOLD", "READY"}
          /\ \A e \in Elems(m_fibers) : Task(e) # Task(ft[u])
          /\ \A v \in Threads : Held(v) /\ Task(ft[v]) = Task(ft[u]) => v = u
      BY <3>1 DEF TaskInv, Waiting
    <3>3. Waits(ft[u], posted, hand)'
      BY <1>0, <1>3, <3>1, <3>2
    <3>4. ft[u].fiber # None => mState'[ft[u].fiber] = mState[ft[u].fiber]
      BY <1>0, <1>1, <3>1 DEF Task
    <3>5. \A v \in Threads : Held(v)' => v # t /\ Held(v) /\ ft'[v] = ft[v]
      BY <1>2
    <3> QED BY <3>1, <3>2, <3>3, <3>4, <3>5
  <2>3. Distinct(m_fibers', TaskOf)
    BY DEF TaskInv, Waiting
  <2> QED BY <2>1, <2>2, <2>3 DEF Waiting, Task
<1>5. Rights(m_fibers, posted, hand)'
  <2>1. \A c \in Cbs \ posted' : mState'[c] = "NONE"
    BY <1>0, <1>1 DEF TaskInv, Rights
  <2>2. \A g \in Fibers : hand'[g] # "none" =>
          mState'[g] \in {"INIT", "HOLD", "EXEC"} /\ mCallback'[g] # None
    BY <1>1 DEF TaskInv, Rights
  <2>3. \A g \in Fibers : hand'[g] = "armed" =>
          /\ \A e \in Elems(m_fibers') : Task(e) # g
          /\ \A u \in Threads : Held(u)' => Task(ft'[u]) # g
    BY <1>1, <1>2 DEF TaskInv, Rights
  <2> QED BY <2>1, <2>2, <2>3 DEF Rights, Task
<1>6. Stacks'
  <2>1. \A g \in Fibers : mState'[g] \in {"EXEC", "READY", "HOLD"} => mCallback'[g] # None
    BY <1>0, <1>1 DEF TaskInv, Stacks
  <2>2. \A g \in Fibers : mState'[g] = "NONE" => \A u \in Threads : cb_fiber'[u] # g
    BY <1>0, <1>1 DEF TaskInv, Stacks
  <2>3. ASSUME NEW u \in Threads, Busy(u)'
        PROVE  /\ Cur(u)' # None /\ mState'[Cur(u)'] \in {"EXEC", "READY"} \cup Dead
               /\ pc'[u] = "exec" => mState'[Cur(u)'] = "EXEC"
               /\ \A v \in Threads : Busy(v)' /\ Cur(v)' = Cur(u)' => v = u
    <3>1. \A v \in Threads \ {t} : Busy(v)' => Cur(v)' # f
      BY <1>2
    <3>2. CASE u = t
      BY <1>0, <1>1, <3>1, <3>2
    <3>3. CASE u # t
      <4>1. /\ Cur(u) \in Fibers /\ Cur(u) # f /\ Cur(u)' = Cur(u) /\ Busy(u) /\ pc'[u] = pc[u]
        BY <1>2, <2>3, <3>3, BusyNotWaiting
      <4> QED BY <1>0, <1>1, <1>2, <3>1, <4>1 DEF TaskInv, Stacks
    <3> QED BY <3>2, <3>3
  <2>4. ASSUME NEW u \in Threads, cb_fiber'[u] # None
        PROVE  /\ ~(Busy(u)' /\ ft'[u].fiber = None) =>
                    mState'[cb_fiber'[u]] = "INIT" /\ mCallback'[cb_fiber'[u]] = None
               /\ \A v \in Threads : cb_fiber'[v] = cb_fiber'[u] => v = u
    <3>1. \A v \in Threads \ {t} : cb_fiber'[v] # f
      OBVIOUS
    <3>2. CASE cb_fiber'[u] = f
      BY <1>2, <3>1, <3>2
    <3>3. CASE cb_fiber'[u] # f
      <4>1. cb_fiber'[u] = cb_fiber[u] /\ cb_fiber[u] \in Fibers
        BY <1>0, <2>4, <3>3
      <4>2. \A v \in Threads : cb_fiber'[v] = cb_fiber'[u] => v = u
        <5>1. \A v \in Threads : cb_fiber'[v] = cb_fiber'[u] => cb_fiber[v] = cb_fiber[u]
          BY <3>3, <4>1
        <5>2. \A v \in Threads : cb_fiber[v] = cb_fiber[u] => v = u
          BY <2>4, <4>1 DEF TaskInv, Stacks
        <5> QED BY <5>1, <5>2
      <4>3. ~(Busy(u)' /\ ft'[u].fiber = None) => ~(Busy(u) /\ ft[u].fiber = None)
        <5>1. CASE u = t
          BY <1>2, <5>1
        <5>2. CASE u # t
          BY <1>2, <5>2
        <5> QED BY <5>1, <5>2
      <4>4. ~(Busy(u) /\ ft[u].fiber = None) =>
              mState[cb_fiber[u]] = "INIT" /\ mCallback[cb_fiber[u]] = None
        BY <2>4, <4>1 DEF TaskInv, Stacks
      <4> QED BY <1>1, <3>3, <4>1, <4>2, <4>3, <4>4
    <3> QED BY <3>2, <3>3
  <2> QED BY <2>1, <2>2, <2>3, <2>4 DEF Stacks
<1> QED BY <1>4, <1>5, <1>6 DEF TaskInv

LEMMA TaskDispatchFiber ==
  ASSUME Types, TaskInv, NEW t \in Threads, DispatchFiber(t)
  PROVE  TaskInv' /\ UNCHANGED aborted
<1> USE DEF queueVars, stopVars, countVars, threadVars
<1> DEFINE f == ft[t].fiber
<1>1. pc[t] = "dispatch" /\ f # None /\ Held(t)
  BY DEF DispatchFiber, Held, IsNull
<1>2. /\ f \in Fibers /\ mState[f] \in {"INIT", "HOLD", "READY"} /\ mCallback[f] # None
      /\ Task(ft[t]) = f
      /\ \A e \in Elems(m_fibers) : Task(e) # f
      /\ \A u \in Threads : /\ Busy(u) => Cur(u) # f
                            /\ cb_fiber[u] # f
                            /\ u # t /\ Held(u) => Task(ft[u]) # f
  BY <1>1, HeldFiber
<1>3. /\ Enter(f, mCallback[f], mState[f]) /\ pc' = [pc EXCEPT ![t] = "exec"]
      /\ UNCHANGED <<m_fibers, posted, ft, cb_fiber, aborted>>
  BY <1>2 DEF DispatchFiber
<1>4. mCallback[f] \in Fibers
  BY <1>2, TaskTypes
<1>5. f \in Cbs => f \in posted
  BY <1>2 DEF TaskInv, Rights
<1>6. Cur(t)' = f /\ ft'[t].fiber # None /\ cb_fiber'[t] # f /\ cb_fiber'[t] = cb_fiber[t]
  BY <1>1, <1>2, <1>3 DEF Cur
<1>7. mState[f] # "EXEC"
  BY <1>2
<1> HIDE DEF f
<1>8. PICK b \in Fibers, s \in State : Enter(f, b, s)
  BY <1>2, <1>3, <1>4, TaskTypes
<1>9. \A u \in Threads \ {t} : ft'[u] = ft[u] /\ cb_fiber'[u] = cb_fiber[u]
  BY <1>3
<1>10. /\ pc' = [pc EXCEPT ![t] = "exec"] /\ UNCHANGED <<m_fibers, posted>>
  BY <1>3
<1>11. TaskInv'
  BY <1>1, <1>2, <1>5, <1>6, <1>7, <1>8, <1>9, <1>10, TaskEnter
<1> QED BY <1>3, <1>11

\* A callback runs in the cb_fiber that the thread keeps, which nobody knows, or
\* in a fiber of its own, which did not exist.
LEMMA TaskDispatchCb ==
  ASSUME Types, TaskInv, NEW t \in Threads, DispatchCb(t)
  PROVE  TaskInv' /\ UNCHANGED aborted
<1> USE DEF queueVars, stopVars, countVars, threadVars
<1> DEFINE c == ft[t].cb
           f == IF cb_fiber[t] # None THEN cb_fiber[t] ELSE c
<1>1. /\ pc[t] = "dispatch" /\ Held(t) /\ ~Busy(t)
      /\ ft[t].fiber = None /\ c # None /\ Task(ft[t]) = c
  BY DEF DispatchCb, Held, IsNull, Busy, Task
<1>2. /\ Waits(ft[t], posted, hand)
      /\ \A e \in Elems(m_fibers) : Task(e) # c
      /\ \A u \in Threads : u # t /\ Held(u) => Task(ft[u]) # c
  BY <1>1 DEF TaskInv, Waiting
<1>3. c \in Cbs /\ c \in Fibers /\ c \in posted /\ mState[c] = "NONE"
  BY <1>1, <1>2, TaskTypes DEF Waits
<1>4. /\ f \in Fibers /\ mState[f] # "EXEC" /\ (f \in Cbs => f \in posted)
      /\ cb_fiber[t] # None => mState[f] = "INIT"
      /\ \A e \in Elems(m_fibers) : Task(e) # f
      /\ \A u \in Threads \ {t} : /\ Held(u) => Task(ft[u]) # f
                                  /\ Busy(u) => Cur(u) # f
                                  /\ cb_fiber[u] # f
  <2>1. CASE cb_fiber[t] = None
    <3>1. f = c
      BY <2>1
    <3>2. \A u \in Threads : (Busy(u) => Cur(u) # c) /\ cb_fiber[u] # c
      BY <1>3 DEF TaskInv, Stacks, Dead
    <3> QED BY <1>2, <1>3, <2>1, <3>1, <3>2
  <2>2. CASE cb_fiber[t] # None
    <3>1. f = cb_fiber[t]
      BY <2>2
    <3>2. /\ mState[f] = "INIT"
          /\ \A u \in Threads \ {t} : cb_fiber[u] # f
      BY <1>1, <2>2, <3>1 DEF TaskInv, Stacks
    <3>3. /\ f \in Fibers
          /\ \A e \in Elems(m_fibers) : Task(e) # f
          /\ \A u \in Threads : (Held(u) => Task(ft[u]) # f) /\ (Busy(u) => Cur(u) # f)
      BY <1>1, <2>2, <3>1, KeptNotWaiting
    <3>4. f \in Cbs => f \in posted
      BY <3>2 DEF TaskInv, Rights
    <3> QED BY <3>2, <3>3, <3>4
  <2> QED BY <2>1, <2>2
<1>5. /\ Enter(f, c, "INIT") /\ pc' = [pc EXCEPT ![t] = "exec"]
      /\ ft' = [ft EXCEPT ![t] = NoTask] /\ cb_fiber' = [cb_fiber EXCEPT ![t] = f]
      /\ UNCHANGED <<m_fibers, posted, aborted>>
  BY <1>4 DEF DispatchCb
<1> HIDE DEF f, c
<1>6. ft'[t].fiber = None /\ cb_fiber'[t] = f /\ Cur(t)' = f
  BY <1>5, TaskTypes DEF Cur, NoTask
<1>7. \A u \in Threads \ {t} : ft'[u] = ft[u] /\ cb_fiber'[u] = cb_fiber[u]
  BY <1>5, TaskTypes
<1>8. pc' = [pc EXCEPT ![t] = "exec"] /\ UNCHANGED <<m_fibers, posted>> /\ Enter(f, c, "INIT")
  BY <1>5
<1>9. TaskInv'
  BY <1>1, <1>3, <1>4, <1>6, <1>7, <1>8, TaskEnter
<1> QED BY <1>5, <1>9

\* The body of thread t's fiber ends, or asks to be READY, and nobody may wake it.
LEMMA TaskLeave ==
  ASSUME Types, TaskInv, NEW t \in Threads, pc[t] = "exec", hand[Cur(t)] = "none",
         NEW s \in {"READY"} \cup Dead, mState' = [mState EXCEPT ![Cur(t)] = s],
         \A g \in Fibers : g # Cur(t) => mCallback'[g] = mCallback[g],
         s = "READY" => mCallback'[Cur(t)] # None,
         pc' = [pc EXCEPT ![t] = "swapout"],
         UNCHANGED <<m_fibers, posted, hand, ft, cb_fiber>>
  PROVE  TaskInv'
<1> DEFINE f == Cur(t)
<1>0. /\ mState \in [Fibers -> State] /\ pc \in [Threads -> Pc]
      /\ None \notin Fibers /\ Cbs \subseteq Fibers
      /\ \A u \in Threads : /\ ft[u].fiber \in Fibers \cup {None} /\ ft[u].cb \in Cbs \cup {None}
                            /\ cb_fiber[u] \in Fibers \cup {None}
      /\ \A e \in Elems(m_fibers) : e.fiber \in Fibers \cup {None} /\ e.cb \in Cbs \cup {None}
  BY TaskTypes
<1>1. Busy(t)
  BY DEF Busy
<1>2. /\ f \in Fibers /\ mState[f] = "EXEC" /\ hand[f] = "none"
      /\ \A e \in Elems(m_fibers) : Task(e) # f
      /\ \A u \in Threads : Held(u) => Task(ft[u]) # f
      /\ \A u \in Threads : u # t /\ Busy(u) => Cur(u) # f
  BY <1>1, BusyNotWaiting DEF TaskInv, Stacks
<1>3. \A u \in Threads : /\ Cur(u)' = Cur(u) /\ (Busy(u)' <=> Busy(u)) /\ (Held(u)' <=> Held(u))
                         /\ pc'[u] = "exec" => pc[u] = "exec" /\ u # t
  BY <1>0 DEF Cur, Busy, Held
<1>4. /\ mState'[f] = s /\ s \notin {"NONE", "INIT", "HOLD", "EXEC"}
      /\ \A g \in Fibers : g # f => mState'[g] = mState[g] /\ mCallback'[g] = mCallback[g]
  BY <1>0, <1>2 DEF Dead
<1>5. s = "READY" => mCallback'[f] # None
  OBVIOUS
<1> HIDE DEF f
<1>6. ASSUME NEW e, e.fiber \in Fibers \cup {None}, e.cb \in Cbs \cup {None},
             Waits(e, posted, hand), Task(e) # f
      PROVE  Waits(e, posted, hand)'
  <2>1. /\ e.fiber # None => e.fiber # f /\ e.fiber \in Fibers
        /\ e.fiber = None => e.cb # f /\ e.cb \in Fibers
    BY <1>0, <1>6 DEF Waits, Task, IsNull
  <2> QED BY <1>3, <1>4, <1>6, <2>1 DEF Waits, Task, IsNull
<1>7. Waiting(m_fibers, posted, hand)'
  <2>1. \A e \in Elems(m_fibers') : Waits(e, posted, hand)'
    BY <1>0, <1>2, <1>6 DEF TaskInv, Waiting
  <2>2. ASSUME NEW u \in Threads, Held(u)'
        PROVE  /\ Waits(ft[u], posted, hand)'
               /\ ft'[u].fiber # None => mState'[ft'[u].fiber] \in {"INIT", "HOLD", "READY"}
               /\ \A e \in Elems(m_fibers') : Task(e) # Task(ft'[u])
               /\ \A v \in Threads : Held(v)' /\ Task(ft'[v]) = Task(ft'[u]) => v = u
    <3>1. Held(u) /\ Task(ft[u]) # f
      BY <1>2, <1>3, <2>2
    <3>2. /\ Waits(ft[u], posted, hand)
          /\ ft[u].fiber # None => mState[ft[u].fiber] \in {"INIT", "HOLD", "READY"}
          /\ \A e \in Elems(m_fibers) : Task(e) # Task(ft[u])
          /\ \A v \in Threads : Held(v) /\ Task(ft[v]) = Task(ft[u]) => v = u
      BY <3>1 DEF TaskInv, Waiting
    <3>3. Waits(ft[u], posted, hand)'
      BY <1>0, <1>6, <3>1, <3>2
    <3>4. ft[u].fiber # None => mState'[ft[u].fiber] = mState[ft[u].fiber]
      BY <1>0, <1>4, <3>1 DEF Task
    <3> QED BY <1>3, <3>2, <3>3, <3>4
  <2>3. Distinct(m_fibers', TaskOf)
    BY DEF TaskInv, Waiting
  <2> QED BY <2>1, <2>2, <2>3 DEF Waiting, Task
<1>8. Rights(m_fibers, posted, hand)'
  BY <1>0, <1>2, <1>3, <1>4 DEF TaskInv, Rights, Task
<1>9. Stacks'
  <2>1. \A g \in Fibers : mState'[g] \in {"EXEC", "READY", "HOLD"} => mCallback'[g] # None
    BY <1>2, <1>4, <1>5 DEF TaskInv, Stacks
  <2>2. \A g \in Fibers : mState'[g] = "NONE" => \A u \in Threads : cb_fiber'[u] # g
    BY <1>4 DEF TaskInv, Stacks
  <2>3. ASSUME NEW u \in Threads, Busy(u)'
        PROVE  /\ Cur(u)' # None /\ mState'[Cur(u)'] \in {"EXEC", "READY"} \cup Dead
               /\ pc'[u] = "exec" => mState'[Cur(u)'] = "EXEC"
               /\ \A v \in Threads : Busy(v)' /\ Cur(v)' = Cur(u)' => v = u
    <3>1. Busy(u) /\ Cur(u) \in Fibers
      BY <1>3, <2>3, BusyNotWaiting
    <3>2. /\ Cur(u) # None /\ mState[Cur(u)] \in {"EXEC", "READY"} \cup Dead
          /\ pc[u] = "exec" => mState[Cur(u)] = "EXEC"
          /\ \A v \in Threads : Busy(v) /\ Cur(v) = Cur(u) => v = u
      BY <3>1 DEF TaskInv, Stacks
    <3>3. CASE u = t
      BY <1>3, <1>4, <3>2, <3>3 DEF f
    <3>4. CASE u # t
      BY <1>2, <1>3, <1>4, <3>1, <3>2, <3>4
    <3> QED BY <3>3, <3>4
  <2>4. ASSUME NEW u \in Threads, cb_fiber'[u] # None
        PROVE  /\ ~(Busy(u)' /\ ft'[u].fiber = None) =>
                    mState'[cb_fiber'[u]] = "INIT" /\ mCallback'[cb_fiber'[u]] = None
               /\ \A v \in Threads : cb_fiber'[v] = cb_fiber'[u] => v = u
    BY <1>0, <1>2, <1>3, <1>4, <2>4 DEF TaskInv, Stacks
  <2> QED BY <2>1, <2>2, <2>3, <2>4 DEF Stacks
<1> QED BY <1>7, <1>8, <1>9 DEF TaskInv

\* Thread t gives up its fiber: one that is READY is queued, one that asked to
\* be held is, and of one that ended the thread may keep the stack.
LEMMA TaskRelease ==
  ASSUME Types, TaskInv, NEW t \in Threads, pc[t] = "post",
         pc' = [pc EXCEPT ![t] = "pick"],
         \A u \in Threads \ {t} : ft'[u] = ft[u] /\ cb_fiber'[u] = cb_fiber[u],
         cb_fiber'[t] # None => /\ cb_fiber'[t] = cb_fiber[t] /\ mState'[cb_fiber[t]] = "INIT"
                                /\ mCallback'[cb_fiber[t]] = None,
         mState[Cur(t)] = "READY" =>
           mState'[Cur(t)] = "READY" /\ m_fibers' = Push(m_fibers, FiberEntry(Cur(t), AnyThread)),
         mState[Cur(t)] # "READY" => m_fibers' = m_fibers,
         mState[Cur(t)] = "EXEC" => mState'[Cur(t)] = "HOLD",
         mState[Cur(t)] \in Dead => mState'[Cur(t)] \in Dead \cup {"INIT"},
         mState[Cur(t)] \notin Dead => mCallback'[Cur(t)] = mCallback[Cur(t)],
         \A g \in Fibers : g # Cur(t) => mState'[g] = mState[g] /\ mCallback'[g] = mCallback[g],
         UNCHANGED <<posted, hand>>
  PROVE  TaskInv'
<1> DEFINE f == Cur(t)
<1>0. /\ m_fibers \in Seq(Entry) /\ pc \in [Threads -> Pc]
      /\ None \notin Fibers /\ Cbs \subseteq Fibers
      /\ \A u \in Threads : /\ ft[u].fiber \in Fibers \cup {None} /\ ft[u].cb \in Cbs \cup {None}
                            /\ cb_fiber[u] \in Fibers \cup {None}
      /\ \A e \in Elems(m_fibers) : e.fiber \in Fibers \cup {None} /\ e.cb \in Cbs \cup {None}
  BY TaskTypes
<1>1. Busy(t)
  BY DEF Busy
<1>2. /\ f \in Fibers /\ f # None /\ mState[f] \in {"EXEC", "READY"} \cup Dead
      /\ hand[f] = "none" => \A e \in Elems(m_fibers) : Task(e) # f
      /\ \A u \in Threads : Held(u) => Task(ft[u]) # f
      /\ \A u \in Threads : u # t /\ Busy(u) => Cur(u) # f
  BY <1>0, <1>1, BusyNotWaiting DEF TaskInv, Stacks
<1>3. hand[f] # "none" => mState[f] = "EXEC" /\ mState'[f] = "HOLD"
  BY <1>2 DEF TaskInv, Rights, Dead
<1>4. /\ ~Busy(t)' /\ ~Held(t)' /\ pc'[t] = "pick"
      /\ \A u \in Threads \ {t} : /\ Cur(u)' = Cur(u) /\ pc'[u] = pc[u] /\ ft'[u] = ft[u]
                                  /\ Busy(u)' <=> Busy(u)
                                  /\ Held(u)' <=> Held(u)
  BY <1>0 DEF Cur, Busy, Held
<1>5. /\ mState'[f] \notin {"NONE", "EXEC"}
      /\ mState'[f] \in {"READY", "HOLD"} => mCallback'[f] # None
  BY <1>2 DEF TaskInv, Stacks, Dead
<1>6. ASSUME NEW e, e.fiber \in Fibers \cup {None}, e.cb \in Cbs \cup {None},
             Waits(e, posted, hand)
      PROVE  Waits(e, posted, hand)'
  <2>1. /\ ~IsNull(e) /\ (e.fiber = None \/ e.cb = None)
        /\ Task(e) \in Fibers
        /\ e.fiber # None => Task(e) = e.fiber
        /\ e.fiber = None => Task(e) = e.cb
    BY <1>0, <1>6 DEF Waits, Task, IsNull
  <2>2. e.fiber = None => e.cb \in posted /\ mState[e.cb] = "NONE"
    BY <1>6 DEF Waits
  <2>3. e.fiber # None =>
          \/ hand[e.fiber] = "woken"
          \/ /\ hand[e.fiber] = "none" /\ mState[e.fiber] = "READY"
             /\ \A u \in Threads : Busy(u) => Cur(u) # e.fiber
    BY <1>6 DEF Waits
  <2>4. e.fiber = None => e.cb \in posted /\ mState'[e.cb] = "NONE"
    BY <1>2, <2>1, <2>2 DEF Dead
  <2>5. e.fiber # None =>
          \/ hand[e.fiber] = "woken"
          \/ /\ hand[e.fiber] = "none" /\ mState'[e.fiber] = "READY"
             /\ \A u \in Threads : Busy(u)' => Cur(u)' # e.fiber
    BY <1>1, <1>4, <2>1, <2>3
  <2> QED BY <2>1, <2>4, <2>5 DEF Waits, Task, IsNull
<1>7. ASSUME mState[f] = "READY"
      PROVE  /\ Distinct(m_fibers', TaskOf)
             /\ \A x \in Elems(m_fibers') : x \in Elems(m_fibers) \/ Task(x) = f
             /\ \A x \in Elems(m_fibers') \ Elems(m_fibers) : Waits(x, posted, hand)'
  <2>1. PICK e \in Entry : /\ m_fibers' = Push(m_fibers, e)
                           /\ e.fiber = f /\ e.cb = None /\ e.thread = AnyThread
    <3>1. FiberEntry(f, AnyThread) \in Entry
      BY <1>2, EntryTypes
    <3>2. /\ FiberEntry(f, AnyThread).fiber = f /\ FiberEntry(f, AnyThread).cb = None
          /\ FiberEntry(f, AnyThread).thread = AnyThread
      BY DEF FiberEntry
    <3> QED BY <1>7, <3>1, <3>2
  <2>2. Task(e) = f /\ ~IsNull(e)
    BY <1>2, <2>1 DEF Task, IsNull
  <2>3. Elems(m_fibers') \subseteq Elems(m_fibers) \cup {e}
    BY <1>0, <2>1, PushElems
  <2>4. hand[f] = "none" /\ mState'[f] = "READY"
    BY <1>2, <1>3, <1>7
  <2>5. Waits(e, posted, hand)'
    <3>1. \A u \in Threads : Busy(u)' => Cur(u)' # f
      BY <1>2, <1>4
    <3> QED BY <2>1, <2>2, <2>4, <3>1 DEF Waits, Task, IsNull
  <2>6. Distinct(m_fibers', TaskOf)
    <3>1. Distinct(m_fibers, TaskOf)
      BY DEF TaskInv, Waiting
    <3>2. Elems(m_fibers) \subseteq Entry
      BY <1>0, ElemsType
    <3>3. \A x \in Elems(m_fibers) : TaskOf[e] # None => TaskOf[x] # TaskOf[e]
      BY <1>2, <2>2, <2>4, <3>2 DEF TaskOf
    <3> QED BY <1>0, <2>1, <3>1, <3>3, PushDistinct
  <2> QED BY <2>2, <2>3, <2>5, <2>6
<1>8. /\ Distinct(m_fibers', TaskOf)
      /\ \A x \in Elems(m_fibers') : /\ x \in Elems(m_fibers) \/ (Task(x) = f /\ mState[f] = "READY")
                                     /\ Waits(x, posted, hand)'
  <2>1. \A x \in Elems(m_fibers) : Waits(x, posted, hand)'
    BY <1>0, <1>6 DEF TaskInv, Waiting
  <2>2. CASE mState[f] = "READY"
    BY <1>7, <2>1, <2>2
  <2>3. CASE mState[f] # "READY"
    BY <2>1, <2>3 DEF TaskInv, Waiting
  <2> QED BY <2>2, <2>3
<1>9. Waiting(m_fibers, posted, hand)'
  <2>1. ASSUME NEW u \in Threads, Held(u)'
        PROVE  /\ Waits(ft[u], posted, hand)'
               /\ ft'[u].fiber # None => mState'[ft'[u].fiber] \in {"INIT", "HOLD", "READY"}
               /\ \A e \in Elems(m_fibers') : Task(e) # Task(ft'[u])
               /\ \A v \in Threads : Held(v)' /\ Task(ft'[v]) = Task(ft'[u]) => v = u
    <3>1. u # t /\ Held(u) /\ ft'[u] = ft[u] /\ Task(ft[u]) # f
      BY <1>2, <1>4, <2>1
    <3>2. /\ Waits(ft[u], posted, hand)
          /\ ft[u].fiber # None => mState[ft[u].fiber] \in {"INIT", "HOLD", "READY"}
          /\ \A e \in Elems(m_fibers) : Task(e) # Task(ft[u])
          /\ \A v \in Threads : Held(v) /\ Task(ft[v]) = Task(ft[u]) => v = u
      BY <3>1 DEF TaskInv, Waiting
    <3>3. Waits(ft[u], posted, hand)'
      BY <1>0, <1>6, <3>1, <3>2
    <3>4. ft[u].fiber # None => mState'[ft[u].fiber] = mState[ft[u].fiber]
      BY <1>0, <3>1 DEF Task
    <3>5. \A v \in Threads : Held(v)' => v # t /\ Held(v) /\ ft'[v] = ft[v]
      BY <1>4
    <3> QED BY <1>8, <3>1, <3>2, <3>3, <3>4, <3>5
  <2> QED BY <1>8, <2>1 DEF Waiting, Task
<1>10. Rights(m_fibers, posted, hand)'
  <2>1. \A c \in Cbs \ posted : mState'[c] = "NONE"
    BY <1>0, <1>2 DEF TaskInv, Rights, Dead
  <2>2. \A g \in Fibers : hand[g] # "none" =>
          mState'[g] \in {"INIT", "HOLD", "EXEC"} /\ mCallback'[g] # None
    BY <1>3, <1>5 DEF TaskInv, Rights
  <2>3. \A g \in Fibers : hand[g] = "armed" =>
          /\ \A e \in Elems(m_fibers') : Task(e) # g
          /\ \A u \in Threads : Held(u)' => Task(ft'[u]) # g
    BY <1>3, <1>4, <1>8 DEF TaskInv, Rights
  <2> QED BY <2>1, <2>2, <2>3 DEF Rights, Task
<1>11. Stacks'
  <2>0. \A u \in Threads : cb_fiber'[u] # None => cb_fiber'[u] = cb_fiber[u]
    OBVIOUS
  <2>1. \A g \in Fibers : mState'[g] \in {"EXEC", "READY", "HOLD"} => mCallback'[g] # None
    BY <1>5 DEF TaskInv, Stacks
  <2>2. \A g \in Fibers : mState'[g] = "NONE" => \A u \in Threads : cb_fiber'[u] # g
    BY <1>0, <1>5, <2>0 DEF TaskInv, Stacks
  <2>3. ASSUME NEW u \in Threads, Busy(u)'
        PROVE  /\ Cur(u)' # None /\ mState'[Cur(u)'] \in {"EXEC", "READY"} \cup Dead
               /\ pc'[u] = "exec" => mState'[Cur(u)'] = "EXEC"
               /\ \A v \in Threads : Busy(v)' /\ Cur(v)' = Cur(u)' => v = u
    <3>1. u # t /\ Busy(u) /\ Cur(u) \in Fibers /\ Cur(u) # f
      BY <1>2, <1>4, <2>3, BusyNotWaiting
    <3>2. /\ Cur(u) # None /\ mState[Cur(u)] \in {"EXEC", "READY"} \cup Dead
          /\ pc[u] = "exec" => mState[Cur(u)] = "EXEC"
          /\ \A v \in Threads : Busy(v) /\ Cur(v) = Cur(u) => v = u
      BY <3>1 DEF TaskInv, Stacks
    <3> QED BY <1>4, <3>1, <3>2
  <2>4. ASSUME NEW u \in Threads, cb_fiber'[u] # None
        PROVE  /\ ~(Busy(u)' /\ ft'[u].fiber = None) =>
                    mState'[cb_fiber'[u]] = "INIT" /\ mCallback'[cb_fiber'[u]] = None
               /\ \A v \in Threads : cb_fiber'[v] = cb_fiber'[u] => v = u
    <3>1. cb_fiber'[u] = cb_fiber[u] /\ cb_fiber[u] # None /\ cb_fiber[u] \in Fibers
      BY <1>0, <2>0, <2>4
    <3>2. \A v \in Threads : cb_fiber'[v] = cb_fiber'[u] => v = u
      BY <2>0, <2>4, <3>1 DEF TaskInv, Stacks
    <3>3. CASE u = t
      BY <2>4, <3>1, <3>2, <3>3
    <3>4. CASE u # t
      <4> SUFFICES ASSUME ~(Busy(u) /\ ft[u].fiber = None)
                   PROVE  mState'[cb_fiber[u]] = "INIT" /\ mCallback'[cb_fiber[u]] = None
        BY <1>4, <3>1, <3>2, <3>4
      <4>1. mState[cb_fiber[u]] = "INIT" /\ mCallback[cb_fiber[u]] = None
        BY <3>1 DEF TaskInv, Stacks
      <4>2. cb_fiber[u] # f
        BY <1>2, <4>1 DEF Dead
      <4> QED BY <3>1, <4>1, <4>2
    <3> QED BY <3>3, <3>4
  <2> QED BY <2>1, <2>2, <2>3, <2>4 DEF Stacks
<1> QED BY <1>9, <1>10, <1>11 DEF TaskInv

LEMMA TaskAfter ==
  ASSUME Types, TaskInv, NEW t \in Threads, AfterFiber(t) \/ AfterCb(t)
  PROVE  TaskInv' /\ UNCHANGED aborted
<1> USE DEF queueVars, stopVars, countVars, threadVars
<1> DEFINE f == Cur(t)
<1>0. pc[t] = "post" /\ Busy(t)
  BY DEF AfterFiber, AfterCb, Busy
<1>1. f \in Fibers /\ f # None /\ mState[f] \in {"EXEC", "READY"} \cup Dead
  BY <1>0, BusyNotWaiting DEF TaskInv, Stacks
<1>2. CASE AfterFiber(t)
  <2>1. ft[t].fiber = f /\ ft[t].fiber # None
    BY <1>2 DEF AfterFiber, Cur
  <2>2. /\ pc' = [pc EXCEPT ![t] = "pick"] /\ ft' = [ft EXCEPT ![t] = NoTask]
        /\ m_fibers' = IF mState[f] = "READY"
                       THEN Push(m_fibers, FiberEntry(f, AnyThread)) ELSE m_fibers
        /\ mState' = [mState EXCEPT ![f] = Settled(@)]
        /\ UNCHANGED <<posted, hand, mCallback, cb_fiber, aborted>>
    BY <1>2, <2>1 DEF AfterFiber
  <2> HIDE DEF f
  <2>3. \A u \in Threads \ {t} : ft'[u] = ft[u] /\ cb_fiber'[u] = cb_fiber[u]
    BY <2>2, TaskTypes
  <2>4. /\ mState'[f] = Settled(mState[f])
        /\ \A g \in Fibers : g # f => mState'[g] = mState[g] /\ mCallback'[g] = mCallback[g]
    BY <1>1, <2>2, TaskTypes
  <2>5. cb_fiber'[t] # None => /\ cb_fiber'[t] = cb_fiber[t] /\ mState'[cb_fiber[t]] = "INIT"
                               /\ mCallback'[cb_fiber[t]] = None
    <3> SUFFICES ASSUME cb_fiber[t] # None
                 PROVE  mState'[cb_fiber[t]] = "INIT" /\ mCallback[cb_fiber[t]] = None
      BY <2>2
    <3>1. mState[cb_fiber[t]] = "INIT" /\ mCallback[cb_fiber[t]] = None
      BY <2>1 DEF TaskInv, Stacks
    <3>2. cb_fiber[t] # f /\ cb_fiber[t] \in Fibers
      BY <1>1, <3>1, TaskTypes DEF Dead
    <3> QED BY <2>4, <3>1, <3>2
  <2>6. /\ mState[f] = "READY" =>
             mState'[f] = "READY" /\ m_fibers' = Push(m_fibers, FiberEntry(f, AnyThread))
        /\ mState[f] # "READY" => m_fibers' = m_fibers
        /\ mState[f] = "EXEC" => mState'[f] = "HOLD"
        /\ mState[f] \in Dead => mState'[f] \in Dead \cup {"INIT"}
        /\ mState[f] \notin Dead => mCallback'[f] = mCallback[f]
    BY <2>2, <2>4 DEF Settled, Dead
  <2>7. /\ pc' = [pc EXCEPT ![t] = "pick"] /\ UNCHANGED <<posted, hand, aborted>>
    BY <2>2, TaskTypes
  <2>8. f = Cur(t)
    BY DEF f
  <2>9. \A g \in Fibers : g # f => mState'[g] = mState[g] /\ mCallback'[g] = mCallback[g]
    BY <2>4
  <2>10. TaskInv'
    BY <1>0, <2>3, <2>5, <2>6, <2>7, <2>8, <2>9, TaskRelease
  <2> QED BY <2>7, <2>10
<1>3. CASE AfterCb(t)
  <2>1. f = cb_fiber[t]
    BY <1>3 DEF AfterCb, Cur
  <2>2. /\ pc' = [pc EXCEPT ![t] = "pick"] /\ ft' = ft
        /\ m_fibers' = IF mState[f] = "READY"
                       THEN Push(m_fibers, FiberEntry(f, AnyThread)) ELSE m_fibers
        /\ mState' = [mState EXCEPT ![f] = IF @ \in Dead THEN "INIT" ELSE Settled(@)]
        /\ mCallback' = [mCallback EXCEPT ![f] = IF mState[f] \in Dead THEN None ELSE @]
        /\ cb_fiber' = [cb_fiber EXCEPT ![t] = IF mState[f] \in Dead THEN @ ELSE None]
        /\ UNCHANGED <<posted, hand, aborted>>
    BY <1>3, <2>1 DEF AfterCb
  <2> HIDE DEF f
  <2>3. \A u \in Threads \ {t} : ft'[u] = ft[u] /\ cb_fiber'[u] = cb_fiber[u]
    BY <2>2, TaskTypes
  <2>4. /\ mState'[f] = IF mState[f] \in Dead THEN "INIT" ELSE Settled(mState[f])
        /\ mCallback'[f] = IF mState[f] \in Dead THEN None ELSE mCallback[f]
        /\ cb_fiber'[t] = IF mState[f] \in Dead THEN cb_fiber[t] ELSE None
        /\ \A g \in Fibers : g # f => mState'[g] = mState[g] /\ mCallback'[g] = mCallback[g]
    BY <1>1, <2>2, TaskTypes
  <2>5. cb_fiber'[t] # None => /\ cb_fiber'[t] = cb_fiber[t] /\ mState'[cb_fiber[t]] = "INIT"
                               /\ mCallback'[cb_fiber[t]] = None
    BY <2>1, <2>4
  <2>6. /\ mState[f] = "READY" =>
             mState'[f] = "READY" /\ m_fibers' = Push(m_fibers, FiberEntry(f, AnyThread))
        /\ mState[f] # "READY" => m_fibers' = m_fibers
        /\ mState[f] = "EXEC" => mState'[f] = "HOLD"
        /\ mState[f] \in Dead => mState'[f] \in Dead \cup {"INIT"}
        /\ mState[f] \notin Dead => mCallback'[f] = mCallback[f]
    BY <2>2, <2>4 DEF Settled, Dead
  <2>7. /\ pc' = [pc EXCEPT ![t] = "pick"] /\ UNCHANGED <<posted, hand, aborted>>
    BY <2>2, TaskTypes
  <2>8. f = Cur(t)
    BY DEF f
  <2>9. \A g \in Fibers : g # f => mState'[g] = mState[g] /\ mCallback'[g] = mCallback[g]
    BY <2>4
  <2>10. TaskInv'
    BY <1>0, <2>3, <2>5, <2>6, <2>7, <2>8, <2>9, TaskRelease
  <2> QED BY <2>7, <2>10
<1> QED BY <1>2, <1>3

\* The body gives away the right to wake its fiber.
LEMMA TaskHandOff ==
  ASSUME Types, TaskInv, NEW t \in Threads, HandOff(t)
  PROVE  TaskInv'
<1> DEFINE f == Cur(t)
<1>0. pc[t] = "exec" /\ Busy(t) /\ mCallback[f] # None /\ hand[f] = "none"
  BY DEF HandOff, Busy
<1>1. /\ f \in Fibers /\ mState[f] = "EXEC"
      /\ \A e \in Elems(m_fibers) : Task(e) # f
      /\ \A u \in Threads : Held(u) => Task(ft[u]) # f
  BY <1>0, BusyNotWaiting DEF TaskInv, Stacks
<1>2. /\ hand' = [hand EXCEPT ![f] = "armed"]
      /\ UNCHANGED <<m_fibers, posted, mState, mCallback, pc, ft, cb_fiber>>
  BY DEF HandOff, queueVars, threadVars
<1> HIDE DEF f
<1>3. /\ hand'[f] = "armed" /\ \A g \in Fibers : g # f => hand'[g] = hand[g]
  BY <1>1, <1>2, TaskTypes
<1>4. /\ None \notin Fibers
      /\ \A u \in Threads : ft[u].fiber \in Fibers \cup {None}
      /\ \A e \in Elems(m_fibers) : e.fiber \in Fibers \cup {None}
  BY TaskTypes
<1>5. /\ \A u \in Threads : (Busy(u)' <=> Busy(u)) /\ (Held(u)' <=> Held(u)) /\ Cur(u)' = Cur(u)
  BY <1>2 DEF Busy, Held, Cur
<1>6. ASSUME NEW e, e.fiber \in Fibers \cup {None}, Waits(e, posted, hand), Task(e) # f
      PROVE  Waits(e, posted, hand)'
  <2>1. e.fiber # None => hand'[e.fiber] = hand[e.fiber]
    BY <1>3, <1>6 DEF Task
  <2> QED BY <1>2, <1>5, <1>6, <2>1 DEF Waits, Task, IsNull
<1>7. Waiting(m_fibers, posted, hand)'
  <2>1. \A e \in Elems(m_fibers') : Waits(e, posted, hand)'
    BY <1>1, <1>2, <1>4, <1>6 DEF TaskInv, Waiting
  <2>2. \A u \in Threads : Held(u) => Waits(ft[u], posted, hand)'
    BY <1>1, <1>2, <1>4, <1>6 DEF TaskInv, Waiting
  <2>3. \A u \in Threads : Held(u) =>
         
          /\ ft[u].fiber # None => mState[ft[u].fiber] \in {"INIT", "HOLD", "READY"}
          /\ \A e \in Elems(m_fibers) : Task(e) # Task(ft[u])
          /\ \A v \in Threads : Held(v) /\ Task(ft[v]) = Task(ft[u]) => v = u
    BY DEF TaskInv, Waiting
  <2>4. Distinct(m_fibers', TaskOf)
    BY <1>2 DEF TaskInv, Waiting
  <2> QED BY <1>2, <1>5, <2>1, <2>2, <2>3, <2>4 DEF Waiting, Task
<1>8. Rights(m_fibers, posted, hand)'
  BY <1>0, <1>1, <1>2, <1>3, <1>5 DEF TaskInv, Rights, Task
<1>9. Stacks'
  BY <1>2, <1>5 DEF TaskInv, Stacks
<1> QED BY <1>7, <1>8, <1>9 DEF TaskInv

\* The steps of a body that give the thread back.
LEMMA TaskBodyLeaves ==
  ASSUME Types, TaskInv, habits.disciplined, NEW t \in Threads, BodyLeaves(t)
  PROVE  TaskInv' /\ UNCHANGED aborted
<1> USE DEF queueVars, stopVars, countVars, fiberVars, threadVars
<1> DEFINE f == Cur(t)
<1>0. pc[t] = "exec" => f \in Fibers /\ mState[f] = "EXEC" /\ mCallback[f] # None
  BY BusyNotWaiting DEF TaskInv, Stacks, Busy
<1>1. CASE YieldToReady(t)
  <2>1. /\ pc[t] = "exec" /\ hand[f] = "none" /\ mState' = [mState EXCEPT ![f] = "READY"]
        /\ pc' = [pc EXCEPT ![t] = "swapout"]
        /\ UNCHANGED <<m_fibers, posted, hand, mCallback, ft, cb_fiber, aborted>>
    BY <1>0, <1>1 DEF YieldToReady, Free
  <2>2. mCallback'[f] # None /\ \A g \in Fibers : g # f => mCallback'[g] = mCallback[g]
    BY <1>0, <2>1
  <2> QED BY <2>1, <2>2, TaskLeave
<1>2. CASE BodyReturns(t)
  <2>1. /\ pc[t] = "exec" /\ hand[f] = "none" /\ mState' = [mState EXCEPT ![f] = "TERM"]
        /\ pc' = [pc EXCEPT ![t] = "swapout"] /\ mCallback' = [mCallback EXCEPT ![f] = None]
        /\ UNCHANGED <<m_fibers, posted, hand, ft, cb_fiber, aborted>>
    BY <1>0, <1>2 DEF BodyReturns, Free
  <2>2. \A g \in Fibers : g # f => mCallback'[g] = mCallback[g]
    BY <2>1, TaskTypes
  <2>3. "TERM" \in {"READY"} \cup Dead /\ "TERM" # "READY"
    BY DEF Dead
  <2> QED BY <2>1, <2>2, <2>3, TaskLeave
<1>3. CASE BodyThrows(t)
  <2>1. /\ pc[t] = "exec" /\ hand[f] = "none" /\ mState' = [mState EXCEPT ![f] = "EXCEPT"]
        /\ pc' = [pc EXCEPT ![t] = "swapout"]
        /\ UNCHANGED <<m_fibers, posted, hand, mCallback, ft, cb_fiber, aborted>>
    BY <1>0, <1>3 DEF BodyThrows, Free
  <2>2. \A g \in Fibers : g # f => mCallback'[g] = mCallback[g]
    BY <2>1
  <2>3. "EXCEPT" \in {"READY"} \cup Dead /\ "EXCEPT" # "READY"
    BY DEF Dead
  <2> QED BY <2>1, <2>2, <2>3, TaskLeave
<1>4. CASE YieldToHold(t) \/ SwapOut(t)
  <2>1. /\ pc[t] \in {"exec", "swapout"}
        /\ \/ pc' = [pc EXCEPT ![t] = "swapout"]
           \/ pc' = [pc EXCEPT ![t] = "ret"]
        /\ UNCHANGED <<m_fibers, posted, hand, mState, mCallback, ft, cb_fiber, aborted>>
    BY <1>0, <1>4 DEF YieldToHold, SwapOut
  <2>2. /\ pc'[t] \in {"swapout", "ret"} /\ \A u \in Threads : u # t => pc'[u] = pc[u]
    BY <2>1, TaskTypes
  <2>3. \A u \in Threads : /\ Busy(u)' <=> Busy(u)
                           /\ Held(u)' => Held(u)
                           /\ Busy(u) \/ Held(u)' => ft'[u] = ft[u]
                           /\ pc'[u] = "exec" => pc[u] = "exec"
    BY <2>1, <2>2 DEF Busy, Held
  <2> QED BY <2>1, <2>3, TaskSame
<1> QED BY <1>1, <1>2, <1>3, <1>4 DEF BodyLeaves

LEMMA TaskBodyStays ==
  ASSUME Types, TaskInv, habits.disciplined, NEW t \in Threads, BodyStays(t)
  PROVE  TaskInv' /\ UNCHANGED aborted
<1>1. UNCHANGED aborted
  BY DEF BodyStays, HandOff, BodySchedule, Schedule, SwitchTo
<1>2. CASE HandOff(t)
  BY <1>1, <1>2, TaskHandOff
<1>3. CASE \E e \in Calls : BodySchedule(t, e)
  BY <1>1, <1>3, TaskSchedule DEF BodySchedule
<1>4. CASE \E p \in Pins : SwitchTo(t, p)
  BY <1>1, <1>4, TaskSwitch
<1> QED BY <1>2, <1>3, <1>4 DEF BodyStays

LEMMA TaskRun ==
  ASSUME Types, TaskInv, NEW t \in Threads, Run(t)
  PROVE  TaskInv' /\ UNCHANGED aborted
<1> USE DEF queueVars, stopVars, countVars, fiberVars, threadVars
<1>1. CASE Pick(t)
  BY <1>1, TaskPick
<1>2. CASE DispatchFiber(t)
  BY <1>2, TaskDispatchFiber
<1>3. CASE DispatchCb(t)
  BY <1>3, TaskDispatchCb
<1>4. CASE SkipDead(t)
  <2>1. Held(t) /\ ft[t].fiber # None /\ mState[ft[t].fiber] \in Dead
    BY <1>4 DEF SkipDead, Held, IsNull
  <2>2. mState[ft[t].fiber] \in {"INIT", "HOLD", "READY"}
    BY <2>1, HeldFiber
  <2> QED BY <2>1, <2>2 DEF Dead
<1>5. CASE RunExit(t) \/ IdleIn(t) \/ Idle(t) \/ IdleReturned(t) \/ Returned(t)
  <2>1. /\ UNCHANGED <<m_fibers, posted, hand, mState, mCallback, ft, cb_fiber, aborted>>
        /\ \/ pc[t] = "dispatch" /\ pc' = [pc EXCEPT ![t] = "exited"]
           \/ pc[t] = "dispatch" /\ pc' = [pc EXCEPT ![t] = "idle"]
           \/ pc[t] = "idle" /\ pc' = [pc EXCEPT ![t] = "idle_ret"]
           \/ pc[t] = "idle_ret" /\ pc' = [pc EXCEPT ![t] = "pick"]
           \/ pc[t] = "ret" /\ pc' = [pc EXCEPT ![t] = "post"]
    BY <1>5 DEF RunExit, IdleIn, Idle, IdleReturned, Returned
  <2>2. \A u \in Threads : u # t => pc'[u] = pc[u]
    BY <2>1, TaskTypes
  <2>3. \/ pc[t] = "ret" /\ pc'[t] = "post"
        \/ pc[t] \in {"dispatch", "idle", "idle_ret"} /\ pc'[t] \in {"exited", "idle", "idle_ret", "pick"}
    BY <2>1, TaskTypes
  <2>4. \A u \in Threads : /\ Busy(u)' <=> Busy(u)
                           /\ Held(u)' => Held(u)
                           /\ Busy(u) \/ Held(u)' => ft'[u] = ft[u]
                           /\ pc'[u] = "exec" => pc[u] = "exec"
    BY <2>1, <2>2, <2>3 DEF Busy, Held
  <2> QED BY <2>1, <2>4, TaskSame
<1>6. CASE AfterFiber(t) \/ AfterCb(t)
  BY <1>6, TaskAfter
<1> QED BY <1>1, <1>2, <1>3, <1>4, <1>5, <1>6 DEF Run

\* start() and stop() move no task, and start() finds m_threads empty and the
\* destructor m_stopping set.
LEMMA TaskOwner ==
  ASSUME CountInv, StopInv, TaskInv, Owner
  PROVE  TaskInv' /\ UNCHANGED aborted
<1> USE DEF queueVars, stopVars, countVars, fiberVars, threadVars
<1>1. /\ UNCHANGED <<m_fibers, posted, hand, mState, mCallback, ft, cb_fiber, aborted>>
      /\ \A t \in Threads : pc'[t] = pc[t] \/ (pc[t] = "unborn" /\ pc'[t] = "pick")
  <2>1. CASE \E W \in SUBSET Workers : Start(W)
    BY <2>1 DEF Start, StopInv, OwnerInv
  <2>2. CASE StopCall
    BY <2>2 DEF StopCall, CountInv, RootInv, Types
  <2>3. CASE StopBegin \/ StopEarly \/ StopSet \/ RootBack \/ StopSwap \/ StopJoin
    BY <2>3 DEF StopBegin, StopEarly, StopSet, RootBack, StopSwap, StopJoin
  <2>4. CASE Destroy
    BY <2>4 DEF Destroy, StopInv, StopFlagInv
  <2> QED BY <2>1, <2>2, <2>3, <2>4 DEF Owner
<1>2. \A t \in Threads : /\ Busy(t)' <=> Busy(t)
                         /\ Held(t)' => Held(t)
                         /\ Busy(t) \/ Held(t)' => ft'[t] = ft[t]
                         /\ pc'[t] = "exec" => pc[t] = "exec"
  BY <1>1 DEF Busy, Held
<1> QED BY <1>1, <1>2, TaskSame

----------------------------------------------------------------------------
(* The theorems *)

\* What holds between the steps when every caller keeps at most one pending
\* wake-up per fiber.
Disciplined == habits.disciplined => TaskInv /\ ~aborted

LEMMA DisciplinedInvariant == Spec => [](CountInv /\ Disciplined)
<1>1. Init => Disciplined
  BY TaskInit DEF Init, Disciplined
<1>2. CountInv /\ StopInv /\ Disciplined /\ [Next]_vars => Disciplined'
  <2> SUFFICES ASSUME CountInv, StopInv, Disciplined, [Next]_vars, habits'.disciplined
               PROVE  TaskInv' /\ ~aborted'
    BY DEF Disciplined
  <2>1. habits.disciplined /\ TaskInv /\ ~aborted /\ Types
    BY DEF Next, Live, vars, ctorVars, Disciplined, CountInv
  <2>2. CASE UNCHANGED vars
    BY <2>1, <2>2 DEF vars, queueVars, fiberVars, threadVars, TaskInv, Waiting, Waits, Rights, Stacks,
                      Held, Busy, Cur, Task, IsNull
  <2>3. CASE Owner
    BY <2>1, <2>3, TaskOwner
  <2>4. CASE Client
    <3>1. UNCHANGED aborted
      BY <2>4, ClientStep
    <3>2. ASSUME NEW e \in Calls, ClientSchedule(e) PROVE TaskInv'
      BY <2>1, <3>2, TaskSchedule DEF ClientSchedule
    <3>3. ASSUME NEW e1 \in Calls, NEW e2 \in Calls, ScheduleBatch(e1, e2) PROVE TaskInv'
      BY <2>1, <3>3, TaskBatch
    <3> QED BY <2>1, <2>4, <3>1, <3>2, <3>3 DEF Client
  <2>5. ASSUME NEW t \in Threads, Run(t) \/ BodyLeaves(t) \/ BodyStays(t)
        PROVE  TaskInv' /\ ~aborted'
    BY <2>1, <2>5, TaskRun, TaskBodyLeaves, TaskBodyStays
  <2> QED BY <2>2, <2>3, <2>4, <2>5 DEF Next, Live
<1> QED BY <1>1, <1>2, StopInvariant, PTL DEF Spec

\* With at most one pending wake-up per fiber no P_ASSERT of run(), SwapIn, the
\* yields, Reset, start() or the destructor fails, whatever the number of threads,
\* fibers, callbacks and pins and however their steps interleave.
THEOREM AssertionsHold == Spec => [](habits.disciplined => NoAbort)
<1>1. Disciplined => (habits.disciplined => NoAbort)
  BY DEF Disciplined, NoAbort
<1> QED BY <1>1, DisciplinedInvariant, PTL

\* Nor are two threads ever on the stack of one fiber, even while a wake-up comes
\* between a fiber's YieldToHold and its swapcontext.
THEOREM StacksAreExclusive == Spec => [](habits.disciplined => ExclusiveStack)
<1>1. Disciplined => (habits.disciplined => ExclusiveStack)
  BY DEF Disciplined, TaskInv, Stacks, ExclusiveStack, OnStack, Busy
<1> QED BY <1>1, DisciplinedInvariant, PTL

----------------------------------------------------------------------------
(* The scheduler implements FiberPool *)

\* Fiber f has body b, which is not over.
Runs(f, b) == mCallback[f] = b /\ mState[f] \notin Dead

\* A body that is not over is in one fiber: a client's own fiber before it is
\* entered, and after that a fiber that is executing, held or READY.
BodyInv ==
  /\ \A f \in Fibers : mState[f] = "NONE" => mCallback[f] = None
  /\ \A f \in Fibers : mState[f] \in {"EXEC", "READY", "HOLD"} => entries[mCallback[f]] # 0
  /\ \A f \in Fibers : mState[f] = "INIT" /\ mCallback[f] # None =>
       f \in ClientFibers /\ mCallback[f] = f /\ entries[f] = 0
  /\ \A f, g, b \in Fibers : Runs(f, b) /\ Runs(g, b) => f = g

\* The pool is up.
Up == opc \notin {"ready", "destroyed"}

\* A step that the bodies do not see.
LEMMA PoolSame ==
  ASSUME Up' <=> Up, UNCHANGED entries,
         \A f, b \in Fibers : Runs(f, b)' <=> Runs(f, b),
         \A t \in Threads : /\ OnStack(t)' <=> OnStack(t)
                            /\ OnStack(t) => Cur(t) \in Fibers /\ Cur(t)' = Cur(t)
  PROVE  UNCHANGED Pool!poolVars
<1>1. ASSUME NEW b \in Fibers PROVE On(b)' = On(b)
  BY DEF On, Runs
<1>2. ASSUME NEW b \in Fibers PROVE Phase(b)' = Phase(b)
  BY DEF Phase, Runs
<1> QED BY <1>1, <1>2 DEF Pool!poolVars, Up

\* Body b is begun or resumed by thread t.
LEMMA PoolTakesUp ==
  ASSUME NEW b \in Fibers, NEW t \in Threads, Up, Up', On(b) = {},
         \A c \in Fibers : t \notin On(c), On(b)' = {t},
         \A c \in Fibers : c # b => On(c)' = On(c) /\ Phase(c)' = Phase(c),
         Phase(b) \in {"new", "live"}, Phase(b)' = "live"
  PROVE  Pool!Next
<1> QED BY DEF Pool!Next, Pool!Begin, Pool!Resume, Pool!TakeUp, Up

\* Body b leaves its thread, for good or not.
LEMMA PoolLeaves ==
  ASSUME NEW b \in Fibers, Up' <=> Up, On(b) # {}, On(b)' = {},
         \A c \in Fibers : c # b => On(c)' = On(c) /\ Phase(c)' = Phase(c),
         Phase(b)' \in {Phase(b), "ended"}
  PROVE  Pool!Next
<1> QED BY DEF Pool!Next, Pool!Leave, Pool!End, Up

LEMMA BodyInit == Init => BodyInv /\ Pool!Init
<1> SUFFICES ASSUME Init PROVE BodyInv /\ Pool!Init
  OBVIOUS
<1>0. Cbs \subseteq Fibers /\ ClientFibers \cap Cbs = {} /\ None \notin Fibers
  BY ConstantsAssumption DEF Fibers
<1>1. \A f \in Fibers : /\ mState[f] = IF f \in ClientFibers THEN "INIT" ELSE "NONE"
                        /\ mCallback[f] = IF f \in ClientFibers THEN f ELSE None
                        /\ entries[f] = 0
  BY DEF Init
<1>2. BodyInv
  BY <1>0, <1>1 DEF BodyInv, Runs
<1>3. \A b \in Fibers : On(b) = {} /\ Phase(b) = "new"
  BY <1>1 DEF Init, On, Phase, OnStack
<1>4. opc = "ready"
  BY DEF Init
<1> QED BY <1>2, <1>3, <1>4 DEF Pool!Init

\* A step that changes no body.
LEMMA BodySame ==
  ASSUME BodyInv, UNCHANGED <<mState, mCallback, entries>>
  PROVE  BodyInv'
BY DEF BodyInv, Runs

\* Thread t enters or resumes body b in fiber f.
LEMMA PoolEnter ==
  ASSUME Types, TaskInv, BodyInv, NEW t \in Threads, pc[t] = "dispatch",
         NEW f \in Fibers, NEW b \in Fibers, NEW s, Enter(f, b, s),
         \/ s = "INIT" /\ entries[b] = 0
         \/ s # "INIT" /\ entries[b] # 0 /\ Runs(f, b),
         mCallback[f] \in {b, None},
         \A g \in Fibers : g # f => ~Runs(g, b),
         \A u \in Threads \ {t} : Busy(u) => Cur(u) # f,
         pc' = [pc EXCEPT ![t] = "exec"],
         \A u \in Threads \ {t} : ft'[u] = ft[u] /\ cb_fiber'[u] = cb_fiber[u],
         Cur(t)' = f, Up, Up'
  PROVE  BodyInv' /\ Pool!Next
<1>0. /\ mState \in [Fibers -> State] /\ mCallback \in [Fibers -> Fibers \cup {None}]
      /\ pc \in [Threads -> Pc] /\ None \notin Fibers
  BY TaskTypes
<1>1. /\ mState'[f] = "EXEC" /\ mCallback'[f] = b
      /\ \A g \in Fibers : g # f => mState'[g] = mState[g] /\ mCallback'[g] = mCallback[g]
  BY <1>0 DEF Enter
<1>2. entries \in [Fibers -> Nat]
  BY DEF Types
<1>3. /\ entries'[b] # 0
      /\ \A g \in Fibers : g # b => entries'[g] = entries[g]
  BY <1>2 DEF Enter
<1>4. /\ Runs(f, b)'
      /\ \A g \in Fibers : g # f => \A c \in Fibers : Runs(g, c)' <=> Runs(g, c)
      /\ \A c \in Fibers : c # b => ~Runs(f, c) /\ ~Runs(f, c)'
  BY <1>0, <1>1 DEF Runs, Dead
<1>5. BodyInv'
  <2>1. \A g \in Fibers : mState'[g] = "NONE" => mCallback'[g] = None
    BY <1>1 DEF BodyInv
  <2>2. ASSUME NEW g \in Fibers, mState'[g] \in {"EXEC", "READY", "HOLD"}
        PROVE  entries'[mCallback'[g]] # 0
    <3>1. CASE g = f
      BY <1>1, <1>3, <3>1
    <3>2. CASE g # f
      <4>1. mCallback[g] \in Fibers /\ entries[mCallback[g]] # 0
        BY <1>0, <1>1, <2>2, <3>2 DEF BodyInv, TaskInv, Stacks
      <4> QED BY <1>1, <1>3, <3>2, <4>1
    <3> QED BY <3>1, <3>2
  <2>3. ASSUME NEW g \in Fibers, mState'[g] = "INIT", mCallback'[g] # None
        PROVE  g \in ClientFibers /\ mCallback'[g] = g /\ entries'[g] = 0
    <3>1. g # f /\ mState[g] = "INIT" /\ mCallback[g] # None
      BY <1>1, <2>3
    <3>2. g \in ClientFibers /\ mCallback[g] = g /\ entries[g] = 0
      BY <3>1 DEF BodyInv
    <3>3. g # b
      BY <3>1, <3>2 DEF Runs, Dead
    <3> QED BY <1>1, <1>3, <3>1, <3>2, <3>3
  <2>4. \A g, h, c \in Fibers : Runs(g, c)' /\ Runs(h, c)' => g = h
    BY <1>4 DEF BodyInv
  <2> QED BY <2>1, <2>2, <2>3, <2>4 DEF BodyInv
<1>6. /\ ~OnStack(t) /\ OnStack(t)'
      /\ \A u \in Threads \ {t} : /\ (OnStack(u)' <=> OnStack(u)) /\ Cur(u)' = Cur(u)
                                  /\ OnStack(u) => Cur(u) \in Fibers /\ Cur(u) # f
  <2>1. \A u \in Threads : OnStack(u) => Busy(u)
    BY DEF OnStack, Busy
  <2>2. \A u \in Threads : OnStack(u) => Cur(u) \in Fibers
    BY <2>1, BusyNotWaiting
  <2>3. \A u \in Threads \ {t} : Cur(u)' = Cur(u)
    BY DEF Cur
  <2> QED BY <1>0, <2>1, <2>2, <2>3 DEF OnStack
<1>7. \A c \in Fibers : t \notin On(c)
  BY <1>6 DEF On
<1>8. On(b) = {}
  BY <1>6 DEF On, Runs
<1>9. On(b)' = {t}
  BY <1>4, <1>6 DEF On, Runs
<1>10. ASSUME NEW c \in Fibers, c # b PROVE On(c)' = On(c) /\ Phase(c)' = Phase(c)
  <2>1. On(c)' = On(c)
    BY <1>4, <1>6, <1>10 DEF On, Runs
  <2>2. \A g \in Fibers : Runs(g, c)' <=> Runs(g, c)
    BY <1>4, <1>10
  <2>3. entries'[c] = entries[c]
    BY <1>3, <1>10
  <2> QED BY <2>1, <2>2, <2>3 DEF Phase, Runs
<1>11. Phase(b)' = "live"
  BY <1>3, <1>4 DEF Phase, Runs
<1>12. Phase(b) \in {"new", "live"}
  BY DEF Phase, Runs
<1> QED BY <1>5, <1>7, <1>8, <1>9, <1>10, <1>11, <1>12, PoolTakesUp

\* The body of thread t's fiber ends.
LEMMA PoolEnd ==
  ASSUME Types, TaskInv, BodyInv, NEW t \in Threads, pc[t] = "exec",
         NEW s \in Dead, mState' = [mState EXCEPT ![Cur(t)] = s],
         \A g \in Fibers : g # Cur(t) => mCallback'[g] = mCallback[g],
         pc' = [pc EXCEPT ![t] = "swapout"], UNCHANGED <<opc, entries, ft, cb_fiber>>
  PROVE  BodyInv' /\ Pool!Next
<1>0. /\ mState \in [Fibers -> State] /\ mCallback \in [Fibers -> Fibers \cup {None}]
      /\ pc \in [Threads -> Pc] /\ None \notin Fibers
  BY TaskTypes
<1>1. PICK f \in Fibers, b \in Fibers :
        /\ f = Cur(t) /\ mState[f] = "EXEC" /\ mCallback[f] = b /\ entries[b] # 0 /\ Runs(f, b)
  <2>1. Cur(t) \in Fibers /\ mState[Cur(t)] = "EXEC" /\ mCallback[Cur(t)] # None
    BY BusyNotWaiting DEF TaskInv, Stacks, Busy
  <2> QED BY <1>0, <2>1 DEF BodyInv, Runs, Dead
<1>2. /\ mState'[f] = s /\ s \notin {"NONE", "EXEC", "READY", "HOLD", "INIT"}
      /\ \A g \in Fibers : g # f => mState'[g] = mState[g] /\ mCallback'[g] = mCallback[g]
  BY <1>0, <1>1 DEF Dead
<1>3. /\ \A g \in Fibers : g # f => \A c \in Fibers : Runs(g, c)' <=> Runs(g, c)
      /\ \A c \in Fibers : ~Runs(f, c)'
      /\ \A c \in Fibers : c # b => ~Runs(f, c)
      /\ \A g \in Fibers : g # f => ~Runs(g, b)
  BY <1>1, <1>2 DEF Runs, BodyInv
<1>4. BodyInv'
  <2>1. \A g, h, c \in Fibers : Runs(g, c)' /\ Runs(h, c)' => g = h
    BY <1>3 DEF BodyInv
  <2> QED BY <1>2, <2>1 DEF BodyInv
<1>5. /\ OnStack(t) /\ OnStack(t)' /\ Cur(t)' = f
      /\ \A u \in Threads \ {t} : /\ (OnStack(u)' <=> OnStack(u)) /\ Cur(u)' = Cur(u)
                                  /\ OnStack(u) => Cur(u) \in Fibers /\ Cur(u) # f
  <2>1. \A u \in Threads : OnStack(u) => Busy(u)
    BY DEF OnStack, Busy
  <2>2. \A u \in Threads : OnStack(u) => Cur(u) \in Fibers /\ (u # t => Cur(u) # f)
    BY <1>1, <2>1, BusyNotWaiting DEF TaskInv, Stacks, Busy
  <2>3. \A u \in Threads : Cur(u)' = Cur(u)
    BY DEF Cur
  <2> QED BY <1>0, <1>1, <2>2, <2>3 DEF OnStack
<1>6. On(b) # {} /\ On(b)' = {}
  <2>1. t \in On(b)
    BY <1>1, <1>5 DEF On, Runs
  <2>2. On(b)' = {}
    BY <1>1, <1>3, <1>5 DEF On, Runs
  <2> QED BY <2>1, <2>2
<1>7. ASSUME NEW c \in Fibers, c # b PROVE On(c)' = On(c) /\ Phase(c)' = Phase(c)
  <2>1. \A g \in Fibers : Runs(g, c)' <=> Runs(g, c)
    BY <1>3, <1>7
  <2>2. \A u \in Threads : /\ OnStack(u)' <=> OnStack(u)
                           /\ OnStack(u) => Cur(u)' = Cur(u) /\ Cur(u) \in Fibers
    BY <1>1, <1>5
  <2>3. On(c)' = On(c)
    BY <2>1, <2>2 DEF On, Runs
  <2> QED BY <2>1, <2>3 DEF Phase, Runs
<1>8. Phase(b)' = "ended"
  BY <1>1, <1>3 DEF Phase, Runs
<1>9. Up' <=> Up
  BY DEF Up
<1> QED BY <1>1, <1>4, <1>6, <1>7, <1>8, <1>9, PoolLeaves

\* Threads are in run() only between start() and the return of stop().
LEMMA RunningIsUp ==
  ASSUME CountInv, StopInv, NEW t \in Threads, pc[t] \notin {"unborn", "exited"}
  PROVE  Up
BY DEF CountInv, RootInv, StopInv, OwnerInv, Up, Threads

LEMMA PoolDispatchFiber ==
  ASSUME Types, TaskInv, BodyInv, NEW t \in Threads, DispatchFiber(t), Up
  PROVE  BodyInv' /\ Pool!Next
<1> USE DEF queueVars, stopVars, countVars, threadVars
<1>1. Held(t) /\ ft[t].fiber # None /\ pc[t] = "dispatch"
  BY DEF DispatchFiber, Held, IsNull
<1>2. PICK f \in Fibers :
        /\ f = ft[t].fiber /\ mState[f] \in {"INIT", "HOLD", "READY"} /\ mCallback[f] # None
        /\ \A u \in Threads : Busy(u) => Cur(u) # f
  BY <1>1, HeldFiber
<1>3. PICK b \in Fibers : b = mCallback[f] /\ Runs(f, b)
  BY <1>2, TaskTypes DEF Runs, Dead
<1>4. /\ Enter(f, b, mState[f]) /\ pc' = [pc EXCEPT ![t] = "exec"]
      /\ UNCHANGED <<opc, ft, cb_fiber>>
  BY <1>2, <1>3 DEF DispatchFiber
<1>5. \/ mState[f] = "INIT" /\ entries[b] = 0
      \/ mState[f] # "INIT" /\ entries[b] # 0 /\ Runs(f, b)
  BY <1>2, <1>3 DEF BodyInv
<1>6. \A g \in Fibers : g # f => ~Runs(g, b)
  BY <1>3 DEF BodyInv
<1>7. Cur(t)' = f /\ \A u \in Threads \ {t} : ft'[u] = ft[u] /\ cb_fiber'[u] = cb_fiber[u]
  BY <1>1, <1>2, <1>4 DEF Cur
<1>8. Up'
  BY <1>4 DEF Up
<1>9. mCallback[f] \in {b, None} /\ pc' = [pc EXCEPT ![t] = "exec"] /\ Enter(f, b, mState[f])
  BY <1>3, <1>4
<1> QED BY <1>1, <1>2, <1>5, <1>6, <1>7, <1>8, <1>9, PoolEnter

LEMMA PoolDispatchCb ==
  ASSUME Types, TaskInv, CallbackInv, BodyInv, NEW t \in Threads, DispatchCb(t), Up
  PROVE  BodyInv' /\ Pool!Next
<1> USE DEF queueVars, stopVars, countVars, threadVars
<1>1. /\ pc[t] = "dispatch" /\ Held(t) /\ ~Busy(t) /\ ft[t].fiber = None /\ ft[t].cb # None
      /\ Task(ft[t]) = ft[t].cb
  BY DEF DispatchCb, Held, IsNull, Busy, Task
<1>2. PICK c \in Cbs : c = ft[t].cb /\ entries[c] = 0 /\ mState[c] = "NONE" /\ c \in Fibers
  <2>1. Waits(ft[t], posted, hand)
    BY <1>1 DEF TaskInv, Waiting
  <2> QED BY <1>1, <2>1, TaskTypes DEF Waits, CallbackInv, CbsKept
<1>3. \A g \in Fibers : ~Runs(g, c)
  <2> SUFFICES ASSUME NEW g \in Fibers, mCallback[g] = c, mState[g] \notin Dead PROVE FALSE
    BY DEF Runs
  <2>1. mState[g] \in State /\ c # None /\ c \notin ClientFibers
    BY <1>1, <1>2, TaskTypes, ConstantsAssumption
  <2> QED BY <1>2, <2>1 DEF BodyInv, State, Dead
<1>4. PICK f \in Fibers :
        /\ f = (IF cb_fiber[t] # None THEN cb_fiber[t] ELSE c)
        /\ mCallback[f] = None /\ (cb_fiber[t] # None => mState[f] = "INIT")
        /\ \A u \in Threads \ {t} : Busy(u) => Cur(u) # f
  <2>1. CASE cb_fiber[t] = None
    <3>1. mCallback[c] = None
      BY <1>2 DEF BodyInv
    <3>2. \A u \in Threads : Busy(u) => Cur(u) # c
      BY <1>2 DEF TaskInv, Stacks, Dead
    <3> QED BY <1>2, <2>1, <3>1, <3>2
  <2>2. CASE cb_fiber[t] # None
    <3>1. mState[cb_fiber[t]] = "INIT" /\ mCallback[cb_fiber[t]] = None
      BY <1>1, <2>2 DEF TaskInv, Stacks
    <3>2. cb_fiber[t] \in Fibers /\ \A u \in Threads : Busy(u) => Cur(u) # cb_fiber[t]
      BY <1>1, <2>2, KeptNotWaiting
    <3> QED BY <2>2, <3>1, <3>2
  <2> QED BY <2>1, <2>2
<1>5. /\ Enter(f, c, "INIT") /\ pc' = [pc EXCEPT ![t] = "exec"]
      /\ ft' = [ft EXCEPT ![t] = NoTask] /\ cb_fiber' = [cb_fiber EXCEPT ![t] = f]
      /\ UNCHANGED opc
  BY <1>2, <1>4 DEF DispatchCb
<1>6. Cur(t)' = f
  BY <1>5, TaskTypes DEF Cur, NoTask
<1>7. \A u \in Threads \ {t} : ft'[u] = ft[u] /\ cb_fiber'[u] = cb_fiber[u]
  BY <1>5, TaskTypes
<1>8. Up' /\ pc' = [pc EXCEPT ![t] = "exec"] /\ Enter(f, c, "INIT")
  BY <1>5 DEF Up
<1>9. mCallback[f] \in {c, None} /\ \A u \in Threads \ {t} : Busy(u) => Cur(u) # f
  BY <1>4
<1>10. entries[c] = 0 /\ c \in Fibers
  BY <1>2
<1> QED BY <1>1, <1>3, <1>6, <1>7, <1>8, <1>9, <1>10, PoolEnter

\* A live body leaves its thread when its context is saved.
LEMMA PoolSwapOut ==
  ASSUME Types, TaskInv, BodyInv, NEW t \in Threads, SwapOut(t)
  PROVE  BodyInv' /\ [Pool!Next]_(Pool!poolVars)
<1> USE DEF queueVars, stopVars, countVars, fiberVars, threadVars
<1>0. /\ mState \in [Fibers -> State] /\ mCallback \in [Fibers -> Fibers \cup {None}]
      /\ pc \in [Threads -> Pc] /\ None \notin Fibers
  BY TaskTypes
<1>1. /\ pc[t] = "swapout" /\ pc' = [pc EXCEPT ![t] = "ret"]
      /\ UNCHANGED <<opc, mState, mCallback, entries, ft, cb_fiber>>
  BY DEF SwapOut
<1>2. BodyInv'
  BY <1>1, BodySame
<1>3. PICK f \in Fibers : f = Cur(t) /\ mState[f] \in {"EXEC", "READY"} \cup Dead
  BY <1>1, BusyNotWaiting DEF TaskInv, Stacks, Busy
<1>4. /\ OnStack(t) /\ ~OnStack(t)'
      /\ \A u \in Threads \ {t} : /\ (OnStack(u)' <=> OnStack(u)) /\ Cur(u)' = Cur(u)
                                  /\ OnStack(u) => Cur(u) \in Fibers /\ Cur(u) # f
  <2>1. \A u \in Threads : OnStack(u) => Busy(u)
    BY DEF OnStack, Busy
  <2>2. \A u \in Threads : OnStack(u) => Cur(u) \in Fibers /\ (u # t => Cur(u) # f)
    BY <1>1, <1>3, <2>1, BusyNotWaiting DEF TaskInv, Stacks, Busy
  <2>3. \A u \in Threads : Cur(u)' = Cur(u)
    BY <1>1 DEF Cur
  <2> QED BY <1>0, <1>1, <2>2, <2>3 DEF OnStack
<1>5. (\A g, c \in Fibers : Runs(g, c)' <=> Runs(g, c)) /\ (Up' <=> Up)
  BY <1>1 DEF Runs, Up
<1>6. \A c \in Fibers : Phase(c)' = Phase(c)
  BY <1>1 DEF Phase
<1>7. \A c \in Fibers : ~Runs(f, c) => On(c)' = On(c)
  BY <1>3, <1>4, <1>5 DEF On, Runs
<1>8. CASE mState[f] \in Dead
  <2>1. \A c \in Fibers : On(c)' = On(c)
    BY <1>7, <1>8 DEF Runs
  <2> QED BY <1>2, <1>5, <1>6, <2>1 DEF Pool!poolVars, Up
<1>9. CASE mState[f] \notin Dead
  <2>1. PICK b \in Fibers : mCallback[f] = b /\ Runs(f, b)
    BY <1>0, <1>3, <1>9 DEF TaskInv, Stacks, Runs
  <2>2. t \in On(b)
    BY <1>3, <1>4, <2>1 DEF On, Runs
  <2>3. On(b)' = {}
    <3>1. \A g \in Fibers : g # f => ~Runs(g, b)
      BY <2>1 DEF BodyInv
    <3> QED BY <1>4, <1>5, <3>1 DEF On, Runs
  <2>4. \A c \in Fibers : c # b => On(c)' = On(c) /\ Phase(c)' = Phase(c)
    BY <1>6, <1>7, <2>1 DEF Runs
  <2>5. Phase(b)' \in {Phase(b), "ended"}
    BY <1>6
  <2> QED BY <1>2, <1>5, <2>2, <2>3, <2>4, <2>5, PoolLeaves
<1> QED BY <1>8, <1>9

\* A step of thread t, which is not on a stack, or stays on the same one, and
\* leaves every body where it was.
LEMMA PoolStutters ==
  ASSUME Types, TaskInv, NEW t \in Threads,
         \A u \in Threads \ {t} : pc'[u] = pc[u] /\ ft'[u] = ft[u] /\ cb_fiber'[u] = cb_fiber[u],
         OnStack(t)' <=> OnStack(t), OnStack(t) => UNCHANGED <<ft, cb_fiber>>,
         \A f, b \in Fibers : Runs(f, b)' <=> Runs(f, b), UNCHANGED <<opc, entries>>
  PROVE  UNCHANGED Pool!poolVars
<1>1. \A u \in Threads : OnStack(u) => Cur(u) \in Fibers
  BY BusyNotWaiting DEF OnStack, Busy
<1>2. \A u \in Threads : (OnStack(u)' <=> OnStack(u)) /\ (OnStack(u) => Cur(u)' = Cur(u))
  <2>1. CASE OnStack(t)
    BY <2>1 DEF OnStack, Cur
  <2>2. CASE ~OnStack(t)
    BY <2>2 DEF OnStack, Cur
  <2> QED BY <2>1, <2>2
<1>3. Up' <=> Up
  BY DEF Up
<1> QED BY <1>1, <1>2, <1>3, PoolSame

\* What becomes of the fiber that gave up the thread: its body, if it has one,
\* stays in it.
LEMMA PoolAfter ==
  ASSUME Types, TaskInv, BodyInv, NEW t \in Threads, AfterFiber(t) \/ AfterCb(t)
  PROVE  BodyInv' /\ UNCHANGED Pool!poolVars
<1> USE DEF queueVars, stopVars, countVars, threadVars
<1>0. /\ pc[t] = "post" /\ Busy(t) /\ pc' = [pc EXCEPT ![t] = "pick"]
      /\ pc \in [Threads -> Pc] /\ UNCHANGED <<opc, entries>>
  BY TaskTypes DEF AfterFiber, AfterCb, Busy
<1>1. PICK f \in Fibers : f = Cur(t) /\ mState[f] \in {"EXEC", "READY"} \cup Dead
  BY <1>0, BusyNotWaiting DEF TaskInv, Stacks
<1>2. /\ mState[f] = "READY" => mState'[f] = "READY" /\ mCallback'[f] = mCallback[f]
      /\ mState[f] = "EXEC" => mState'[f] = "HOLD" /\ mCallback'[f] = mCallback[f]
      /\ mState[f] \in Dead => mState'[f] \in Dead \/ (mState'[f] = "INIT" /\ mCallback'[f] = None)
      /\ \A g \in Fibers : g # f => mState'[g] = mState[g] /\ mCallback'[g] = mCallback[g]
  <2>1. CASE AfterFiber(t)
    <3>1. mState' = [mState EXCEPT ![f] = Settled(@)] /\ mCallback' = mCallback
      BY <1>1, <2>1 DEF AfterFiber, Cur
    <3>2. /\ mState'[f] = Settled(mState[f])
          /\ \A g \in Fibers : g # f => mState'[g] = mState[g] /\ mCallback'[g] = mCallback[g]
      BY <1>1, <3>1, TaskTypes
    <3> QED BY <3>1, <3>2 DEF Settled, Dead
  <2>2. CASE AfterCb(t)
    <3>1. /\ mState' = [mState EXCEPT ![f] = IF @ \in Dead THEN "INIT" ELSE Settled(@)]
          /\ mCallback' = [mCallback EXCEPT ![f] = IF mState[f] \in Dead THEN None ELSE @]
      BY <1>1, <2>2 DEF AfterCb, Cur
    <3>2. /\ mState'[f] = IF mState[f] \in Dead THEN "INIT" ELSE Settled(mState[f])
          /\ mCallback'[f] = IF mState[f] \in Dead THEN None ELSE mCallback[f]
          /\ \A g \in Fibers : g # f => mState'[g] = mState[g] /\ mCallback'[g] = mCallback[g]
      BY <1>1, <3>1, TaskTypes
    <3> QED BY <3>2 DEF Settled, Dead
  <2> QED BY <2>1, <2>2
<1>3. \A g, b \in Fibers : Runs(g, b)' <=> Runs(g, b)
  <2>1. None \notin Fibers
    BY TaskTypes
  <2> QED BY <1>1, <1>2, <2>1 DEF Runs, Dead
<1>4. BodyInv'
  <2>1. \A g \in Fibers : mState'[g] = "NONE" => mCallback'[g] = None
    BY <1>1, <1>2 DEF BodyInv, Dead
  <2>2. \A g \in Fibers : mState'[g] \in {"EXEC", "READY", "HOLD"} => entries'[mCallback'[g]] # 0
    BY <1>0, <1>1, <1>2 DEF BodyInv, Dead
  <2>3. \A g \in Fibers : mState'[g] = "INIT" /\ mCallback'[g] # None =>
          g \in ClientFibers /\ mCallback'[g] = g /\ entries'[g] = 0
    BY <1>0, <1>1, <1>2 DEF BodyInv, Dead
  <2>4. \A g, h, b \in Fibers : Runs(g, b)' /\ Runs(h, b)' => g = h
    BY <1>3 DEF BodyInv
  <2> QED BY <2>1, <2>2, <2>3, <2>4 DEF BodyInv
<1>5. ~OnStack(t) /\ ~OnStack(t)'
  BY <1>0 DEF OnStack
<1>6. \A u \in Threads \ {t} : pc'[u] = pc[u] /\ ft'[u] = ft[u] /\ cb_fiber'[u] = cb_fiber[u]
  BY ThreadStep DEF Run
<1> QED BY <1>0, <1>3, <1>4, <1>5, <1>6, PoolStutters

LEMMA PoolYieldToReady ==
  ASSUME Types, TaskInv, BodyInv, NEW t \in Threads, YieldToReady(t)
  PROVE  BodyInv' /\ UNCHANGED Pool!poolVars
<1> USE DEF queueVars, stopVars, countVars, threadVars
<1>0. pc[t] = "exec"
  BY DEF YieldToReady
<1>1. PICK f \in Fibers : f = Cur(t) /\ mState[f] = "EXEC"
  BY <1>0, BusyNotWaiting DEF TaskInv, Stacks, Busy
<1>2. /\ mState' = [mState EXCEPT ![f] = "READY"] /\ pc' = [pc EXCEPT ![t] = "swapout"]
      /\ UNCHANGED <<opc, mCallback, entries, ft, cb_fiber>>
  BY <1>1 DEF YieldToReady
<1>3. mState'[f] = "READY" /\ \A g \in Fibers : g # f => mState'[g] = mState[g]
  BY <1>1, <1>2, TaskTypes
<1>4. \A g, b \in Fibers : Runs(g, b)' <=> Runs(g, b)
  BY <1>1, <1>2, <1>3 DEF Runs, Dead
<1>5. BodyInv'
  <2>1. \A g, h, b \in Fibers : Runs(g, b)' /\ Runs(h, b)' => g = h
    BY <1>4 DEF BodyInv
  <2> QED BY <1>1, <1>2, <1>3, <2>1 DEF BodyInv
<1>6. OnStack(t) /\ OnStack(t)' /\ \A u \in Threads \ {t} : pc'[u] = pc[u]
  BY <1>0, <1>2, TaskTypes DEF OnStack
<1> QED BY <1>2, <1>4, <1>5, <1>6, PoolStutters

\* The steps of threads, one by one, are steps of the pool or nothing to it.
LEMMA PoolThread ==
  ASSUME CountInv, StopInv, CallbackInv, TaskInv, BodyInv, habits.disciplined,
         NEW t \in Threads, Run(t) \/ BodyLeaves(t) \/ BodyStays(t)
  PROVE  BodyInv' /\ [Pool!Next]_(Pool!poolVars)
<1> USE DEF queueVars, stopVars, countVars, fiberVars, threadVars
<1>0. Types /\ pc \in [Threads -> Pc]
  BY TaskTypes DEF CountInv
<1>1. \A u \in Threads \ {t} : pc'[u] = pc[u] /\ ft'[u] = ft[u] /\ cb_fiber'[u] = cb_fiber[u]
  BY <1>0, ThreadStep
<1>2. Up
  BY <1>0, ThreadStep, RunningIsUp
<1>3. ASSUME UNCHANGED <<opc, mState, mCallback, entries>>, OnStack(t)' <=> OnStack(t),
             OnStack(t) => UNCHANGED <<ft, cb_fiber>>
      PROVE  BodyInv' /\ UNCHANGED Pool!poolVars
  <2>1. \A f, b \in Fibers : Runs(f, b)' <=> Runs(f, b)
    BY <1>3 DEF Runs
  <2> QED BY <1>0, <1>1, <1>3, <2>1, BodySame, PoolStutters
<1>4. CASE Pick(t)
  <2>1. /\ UNCHANGED <<opc, mState, mCallback, entries>> /\ pc[t] = "pick"
        /\ pc' = [pc EXCEPT ![t] = "dispatch"] \/ pc' = pc
    BY <1>4 DEF Pick, Abort
  <2>2. ~OnStack(t) /\ ~OnStack(t)'
    BY <1>0, <2>1 DEF OnStack
  <2> QED BY <1>3, <2>1, <2>2
<1>5. CASE DispatchFiber(t)
  BY <1>0, <1>2, <1>5, PoolDispatchFiber
<1>6. CASE DispatchCb(t)
  BY <1>0, <1>2, <1>6, PoolDispatchCb
<1>7. CASE \/ SkipDead(t) \/ RunExit(t) \/ IdleIn(t) \/ Idle(t) \/ IdleReturned(t) \/ Returned(t)
  <2>1. /\ UNCHANGED <<opc, mState, mCallback, entries>>
        /\ pc[t] \in {"dispatch", "idle", "idle_ret", "ret"}
        /\ \E p \in {"pick", "exited", "idle", "idle_ret", "post"} : pc' = [pc EXCEPT ![t] = p]
    BY <1>7 DEF SkipDead, RunExit, IdleIn, Idle, IdleReturned, Returned
  <2>2. ~OnStack(t) /\ ~OnStack(t)'
    BY <1>0, <2>1 DEF OnStack
  <2> QED BY <1>3, <2>1, <2>2
<1>8. CASE AfterFiber(t) \/ AfterCb(t)
  BY <1>0, <1>8, PoolAfter
<1>9. CASE YieldToReady(t)
  BY <1>0, <1>9, PoolYieldToReady
<1>10. CASE YieldToHold(t)
  <2>1. /\ UNCHANGED <<opc, mState, mCallback, entries, ft, cb_fiber>> /\ pc[t] = "exec"
        /\ pc' = [pc EXCEPT ![t] = "swapout"] \/ pc' = pc
    BY <1>10 DEF YieldToHold, Abort
  <2>2. OnStack(t) /\ OnStack(t)'
    BY <1>0, <2>1 DEF OnStack
  <2> QED BY <1>3, <2>1, <2>2
<1>11. CASE BodyReturns(t)
  <2>1. /\ pc[t] = "exec" /\ mState' = [mState EXCEPT ![Cur(t)] = "TERM"]
        /\ mCallback' = [mCallback EXCEPT ![Cur(t)] = None]
        /\ pc' = [pc EXCEPT ![t] = "swapout"] /\ UNCHANGED <<opc, entries, ft, cb_fiber>>
    BY <1>11 DEF BodyReturns
  <2>2. \A g \in Fibers : g # Cur(t) => mCallback'[g] = mCallback[g]
    BY <1>0, <2>1, TaskTypes
  <2>3. "TERM" \in Dead
    BY DEF Dead
  <2> QED BY <1>0, <2>1, <2>2, <2>3, PoolEnd
<1>12. CASE BodyThrows(t)
  <2>1. /\ pc[t] = "exec" /\ mState' = [mState EXCEPT ![Cur(t)] = "EXCEPT"]
        /\ pc' = [pc EXCEPT ![t] = "swapout"]
        /\ UNCHANGED <<opc, mCallback, entries, ft, cb_fiber>>
    BY <1>12 DEF BodyThrows
  <2>2. \A g \in Fibers : g # Cur(t) => mCallback'[g] = mCallback[g]
    BY <2>1
  <2>3. "EXCEPT" \in Dead
    BY DEF Dead
  <2> QED BY <1>0, <2>1, <2>2, <2>3, PoolEnd
<1>13. CASE SwapOut(t)
  BY <1>0, <1>13, PoolSwapOut
<1>14. CASE BodyStays(t)
  <2>1. UNCHANGED <<opc, mState, mCallback, entries, pc, ft, cb_fiber>>
    BY <1>14 DEF BodyStays, HandOff, BodySchedule, Schedule, SwitchTo
  <2>2. OnStack(t)' <=> OnStack(t)
    BY <2>1 DEF OnStack
  <2> QED BY <1>3, <2>1, <2>2
<1> QED BY <1>4, <1>5, <1>6, <1>7, <1>8, <1>9, <1>10, <1>11, <1>12, <1>13, <1>14 DEF Run, BodyLeaves

\* The owner opens the pool and closes it when nothing is on a thread.
LEMMA PoolOwner ==
  ASSUME CountInv, StopInv, TaskInv, BodyInv, Owner
  PROVE  BodyInv' /\ [Pool!Next]_(Pool!poolVars)
<1> USE DEF queueVars, stopVars, countVars, fiberVars, threadVars
<1>0. Types
  BY DEF CountInv
<1>1. /\ UNCHANGED <<mState, mCallback, entries, ft, cb_fiber>>
      /\ \A t \in Threads : pc'[t] = pc[t] \/ (pc[t] = "unborn" /\ pc'[t] = "pick")
  <2>1. CASE \E W \in SUBSET Workers : Start(W)
    BY <2>1 DEF Start, StopInv, OwnerInv
  <2>2. CASE StopCall
    BY <2>2 DEF StopCall, CountInv, RootInv, Types
  <2>3. CASE StopBegin \/ StopEarly \/ StopSet \/ RootBack \/ StopSwap \/ StopJoin
    BY <2>3 DEF StopBegin, StopEarly, StopSet, RootBack, StopSwap, StopJoin
  <2>4. CASE Destroy
    BY <2>4 DEF Destroy, Abort
  <2> QED BY <2>1, <2>2, <2>3, <2>4 DEF Owner
<1>2. BodyInv'
  BY <1>1, BodySame
<1>3. \A t \in Threads : /\ OnStack(t)' <=> OnStack(t)
                         /\ OnStack(t) => Cur(t) \in Fibers /\ Cur(t)' = Cur(t)
  <2>1. \A t \in Threads : OnStack(t) => Cur(t) \in Fibers
    BY <1>0, BusyNotWaiting DEF OnStack, Busy
  <2> QED BY <1>1, <2>1 DEF OnStack, Cur
<1>4. \A f, b \in Fibers : Runs(f, b)' <=> Runs(f, b)
  BY <1>1 DEF Runs
<1>5. ASSUME Up' <=> Up PROVE UNCHANGED Pool!poolVars
  BY <1>1, <1>3, <1>4, <1>5, PoolSame
<1>6. \A b \in Fibers : On(b)' = On(b) /\ Phase(b)' = Phase(b)
  <2>1. \A b \in Fibers : On(b)' = On(b)
    BY <1>3, <1>4 DEF On, Runs
  <2>2. \A b \in Fibers : Phase(b)' = Phase(b)
    BY <1>1 DEF Phase
  <2> QED BY <2>1, <2>2
<1>7. CASE ~Up /\ Up'
  BY <1>2, <1>6, <1>7 DEF Up, Pool!Next, Pool!Open
<1>8. CASE Up /\ ~Up'
  <2>1. (StopEarly /\ opc = "stop_early") \/ (StopJoin /\ opc = "stop_join" /\ Joined)
    BY <1>8 DEF Owner, Start, StopBegin, StopEarly, StopSet, StopCall, RootBack, StopSwap, StopJoin,
                Destroy, Abort, Up
  <2>2. \A t \in Threads : ~OnStack(t)
    BY <2>1 DEF CountInv, RootInv, StopInv, OwnerInv, Joined, OnStack, Threads
  <2>3. \A b \in Fibers : On(b) = {}
    BY <2>2 DEF On
  <2> QED BY <1>2, <1>6, <1>8, <2>3 DEF Up, Pool!Next, Pool!Close
<1>9. CASE Up' <=> Up
  BY <1>2, <1>5, <1>9
<1> QED BY <1>7, <1>8, <1>9

\* A scheduler with disciplined callers implements FiberPool: whatever the queue,
\* the fiber states and the counters do, every body is begun once, is on at most
\* one thread at a time, leaves its thread only by its own step, never goes on
\* after its end, and is on no thread when stop() has returned.
THEOREM SchedulerIsPool == Spec /\ [](habits.disciplined) => ImplementsPool
<1>1. Init => BodyInv /\ Pool!Init
  BY BodyInit
<1>2. ASSUME CountInv, Disciplined, DrainInv, BodyInv, habits.disciplined, [Next]_vars
      PROVE  BodyInv' /\ [Pool!Next]_(Pool!poolVars)
  <2>0. TaskInv /\ ~aborted /\ CountInv /\ StopInv /\ CallbackInv /\ Types
    BY <1>2 DEF Disciplined, DrainInv, CountInv
  <2>1. CASE UNCHANGED <<opc, mState, mCallback, entries, pc, ft, cb_fiber>>
    <3>1. \A f, b \in Fibers : Runs(f, b)' <=> Runs(f, b)
      BY <2>1 DEF Runs
    <3>2. \A t \in Threads : /\ OnStack(t)' <=> OnStack(t)
                             /\ OnStack(t) => Cur(t) \in Fibers /\ Cur(t)' = Cur(t)
      BY <2>0, <2>1, BusyNotWaiting DEF OnStack, Busy, Cur
    <3>3. Up' <=> Up
      BY <2>1 DEF Up
    <3> QED BY <1>2, <2>1, <3>1, <3>2, <3>3, PoolSame, BodySame
  <2>2. CASE Owner
    BY <1>2, <2>0, <2>2, PoolOwner
  <2>3. CASE Client
    BY <2>1, <2>3, ClientStep DEF stopVars, threadVars
  <2>4. ASSUME NEW t \in Threads, Run(t) \/ BodyLeaves(t) \/ BodyStays(t)
        PROVE  BodyInv' /\ [Pool!Next]_(Pool!poolVars)
    BY <1>2, <2>0, <2>4, PoolThread
  <2>5. CASE UNCHANGED vars
    BY <2>1, <2>5 DEF vars, stopVars, fiberVars, threadVars
  <2> QED BY <1>2, <2>2, <2>3, <2>4, <2>5 DEF Next, Live
<1> QED BY <1>1, <1>2, DisciplinedInvariant, DrainInvariant, PTL DEF Spec, ImplementsPool, Pool!Spec
=============================================================================
