------------------------------- MODULE Thread -------------------------------
(***************************************************************************)
(* primo/thread.{h,cpp}: the Thread object, the POSIX thread that it       *)
(* starts, and the Semaphore by which the constructor waits until run()    *)
(* has taken what it needs from the object.                                *)
(*                                                                         *)
(* An object and its POSIX thread have one name.  One owner constructs,    *)
(* joins and destroys the objects.  sem_post and sem_wait do not fail on a *)
(* semaphore that exists, and callbacks throw nothing but std::exception.  *)
(***************************************************************************)
EXTENDS Integers

CONSTANTS
  Objects, \* the Thread objects
  Kept     \* objects that the owner destroys only after join(); only their
           \* callbacks call Thread::SetName and GetStaticThreadName

ASSUME ConstantsAssumption == Kept \subseteq Objects

VARIABLES
  obj,        \* the object's lifetime
  mThread,    \* mThread # 0
  mId,        \* mId # -1
  mCb,        \* the object still has its callback
  mSemaphore, \* the count of the semaphore
  pc,         \* where the POSIX thread is
  cb,         \* run()'s local cb is not empty
  calls,      \* how often the callback was called
  reaped,     \* successful pthread_join and pthread_detach calls
  undefined   \* a member was used outside the object's lifetime

vars == <<obj, mThread, mId, mCb, mSemaphore, pc, cb, calls, reaped, undefined>>

Init ==
  /\ obj = [x \in Objects |-> "none"]
  /\ mThread = [x \in Objects |-> FALSE]
  /\ mId = [x \in Objects |-> FALSE]
  /\ mCb = [x \in Objects |-> FALSE]
  /\ mSemaphore = [x \in Objects |-> 0]
  /\ pc = [x \in Objects |-> "none"]
  /\ cb = [x \in Objects |-> FALSE]
  /\ calls = [x \in Objects |-> 0]
  /\ reaped = [x \in Objects |-> 0]
  /\ undefined = FALSE

\* The POSIX thread of x uses a member of x.
Touch(x) == undefined' = (undefined \/ obj[x] \notin {"constructing", "alive", "joining"})

----------------------------------------------------------------------------
(* The owner *)

\* One call at a time: the owner is neither in a constructor nor in join().
OwnerFree == \A x \in Objects : obj[x] \notin {"constructing", "joining"}

\* The constructor up to pthread_create
Construct(x) ==
  /\ OwnerFree /\ obj[x] = "none"
  /\ mCb' = [mCb EXCEPT ![x] = TRUE]
  /\ obj' = [obj EXCEPT ![x] = "constructing"]
  /\ mThread' = [mThread EXCEPT ![x] = TRUE]
  /\ pc' = [pc EXCEPT ![x] = "begin"]
  /\ UNCHANGED <<mId, mSemaphore, cb, calls, reaped, undefined>>

\* pthread_create fails: the constructor throws and there is no object
ConstructFails(x) ==
  /\ OwnerFree /\ obj[x] = "none"
  /\ obj' = [obj EXCEPT ![x] = "failed"]
  /\ UNCHANGED <<mThread, mId, mCb, mSemaphore, pc, cb, calls, reaped, undefined>>

\* BUG: the constructor does not wait.
BugMayReturn(x) == TRUE

\* sem_wait returns
MayReturn(x) == mSemaphore[x] > 0

\* mSemaphore.wait() at the end of the constructor
Constructed(x) ==
  /\ obj[x] = "constructing" /\ MayReturn(x)
  /\ mSemaphore' = [mSemaphore EXCEPT ![x] = @ - 1]
  /\ obj' = [obj EXCEPT ![x] = "alive"]
  /\ UNCHANGED <<mThread, mId, mCb, pc, cb, calls, reaped, undefined>>

\* BUG: join() detaches the thread.
BugJoinDetaches(x) ==
  /\ OwnerFree /\ obj[x] = "alive" /\ mThread[x]
  /\ mThread' = [mThread EXCEPT ![x] = FALSE]
  /\ reaped' = [reaped EXCEPT ![x] = @ + 1]
  /\ UNCHANGED <<obj, mId, mCb, mSemaphore, pc, cb, calls, undefined>>

\* join() blocks in pthread_join; it returns at once when mThread is 0
Join(x) ==
  /\ OwnerFree /\ obj[x] = "alive"
  /\ obj' = [obj EXCEPT ![x] = IF mThread[x] THEN "joining" ELSE @]
  /\ UNCHANGED <<mThread, mId, mCb, mSemaphore, pc, cb, calls, reaped, undefined>>

\* BUG: join() leaves mThread.
BugAfterJoin(x) == TRUE

\* mThread after join()
AfterJoin(x) == FALSE

\* pthread_join returns.  It fails only for a thread that cannot be joined, which
\* mThread rules out (ReapedOnce), so lines 113-118, which throw, are left out.
Joined(x) ==
  /\ obj[x] = "joining" /\ pc[x] = "done"
  /\ reaped' = [reaped EXCEPT ![x] = @ + 1]
  /\ mThread' = [mThread EXCEPT ![x] = AfterJoin(x)]
  /\ obj' = [obj EXCEPT ![x] = "alive"]
  /\ UNCHANGED <<mId, mCb, mSemaphore, pc, cb, calls, undefined>>

\* ~Thread(): a thread that was not joined is detached
Destroy(x) ==
  /\ OwnerFree /\ obj[x] = "alive"
  /\ x \in Kept => reaped[x] > 0
  /\ reaped' = [reaped EXCEPT ![x] = IF mThread[x] THEN @ + 1 ELSE @]
  /\ obj' = [obj EXCEPT ![x] = "destroyed"]
  /\ UNCHANGED <<mThread, mId, mCb, mSemaphore, pc, cb, calls, undefined>>

----------------------------------------------------------------------------
(* run(), on the POSIX thread of x *)

\* t_thread, mId, and the name for pthread_setname_np
SetId(x) ==
  /\ pc[x] = "begin"
  /\ Touch(x)
  /\ mId' = [mId EXCEPT ![x] = TRUE]
  /\ pc' = [pc EXCEPT ![x] = "swap"]
  /\ UNCHANGED <<obj, mThread, mCb, mSemaphore, cb, calls, reaped>>

\* BUG: notifies before the callback is taken.
BugSwapCbLate(x) ==
  /\ pc[x] = "swap"
  /\ Touch(x)
  /\ mSemaphore' = [mSemaphore EXCEPT ![x] = @ + 1]
  /\ pc' = [pc EXCEPT ![x] = "notify"]
  /\ UNCHANGED <<obj, mThread, mId, mCb, cb, calls, reaped>>

\* cb.swap(thread->mCb)
SwapCb(x) ==
  /\ pc[x] = "swap"
  /\ Touch(x)
  /\ cb' = [cb EXCEPT ![x] = mCb[x]]
  /\ mCb' = [mCb EXCEPT ![x] = FALSE]
  /\ pc' = [pc EXCEPT ![x] = "notify"]
  /\ UNCHANGED <<obj, mThread, mId, mSemaphore, calls, reaped>>

\* BUG: never notifies.
BugNotifyNobody(x) ==
  /\ pc[x] = "notify"
  /\ Touch(x)
  /\ pc' = [pc EXCEPT ![x] = "call"]
  /\ UNCHANGED <<obj, mThread, mId, mCb, mSemaphore, cb, calls, reaped>>

\* mSemaphore.notify()
Notify(x) ==
  /\ pc[x] = "notify"
  /\ Touch(x)
  /\ mSemaphore' = [mSemaphore EXCEPT ![x] = @ + 1]
  /\ pc' = [pc EXCEPT ![x] = "call"]
  /\ UNCHANGED <<obj, mThread, mId, mCb, cb, calls, reaped>>

\* cb(): an empty callback throws, which run() catches
CallCb(x) ==
  /\ pc[x] = "call"
  /\ calls' = [calls EXCEPT ![x] = IF cb[x] THEN @ + 1 ELSE @]
  /\ pc' = [pc EXCEPT ![x] = IF cb[x] THEN "in_cb" ELSE "done"]
  /\ UNCHANGED <<obj, mThread, mId, mCb, mSemaphore, cb, reaped, undefined>>

\* SetName or GetStaticThreadName, through t_thread
UseThis(x) ==
  /\ x \in Kept /\ pc[x] = "in_cb"
  /\ Touch(x)
  /\ UNCHANGED <<obj, mThread, mId, mCb, mSemaphore, pc, cb, calls, reaped>>

\* The callback returns or throws, and the POSIX thread ends
Return(x) ==
  /\ pc[x] = "in_cb"
  /\ pc' = [pc EXCEPT ![x] = "done"]
  /\ UNCHANGED <<obj, mThread, mId, mCb, mSemaphore, cb, calls, reaped, undefined>>

Run(x) == SetId(x) \/ SwapCb(x) \/ Notify(x) \/ CallCb(x) \/ Return(x)

Owner(x) == \/ Construct(x) \/ ConstructFails(x) \/ Constructed(x)
            \/ Join(x) \/ Joined(x) \/ Destroy(x)

Next == \E x \in Objects : Owner(x) \/ Run(x) \/ UseThis(x)

Spec == Init /\ [][Next]_vars

\* POSIX threads run, callbacks end, and a call of the owner goes on once it
\* can.  Nobody has to construct, join or destroy.
FairSpec == /\ Spec
            /\ \A x \in Objects : WF_vars(Run(x))
            /\ \A x \in Objects : WF_vars(Constructed(x) \/ Joined(x))

----------------------------------------------------------------------------
(* Properties *)

\* Once the constructor has returned, GetId() is the id of the thread and run()
\* owns the callback: start() of the scheduler reads the id right away.
Handshake ==
  \A x \in Objects :
    obj[x] \in {"alive", "joining", "destroyed"} =>
      mId[x] /\ ~mCb[x] /\ cb[x]

\* No member of a Thread is used outside its lifetime: not by run(), even when
\* the owner destroys the object right after the constructor, and not by a
\* callback when the owner joins first.
InLifetime == ~undefined

\* pthread_join and pthread_detach are called once for each thread at most, and
\* for every thread whose object was destroyed.
ReapedOnce ==
  \A x \in Objects : /\ reaped[x] <= 1
                     /\ obj[x] = "destroyed" => reaped[x] = 1

\* join() returns only after the callback has ended, having run once.
JoinMeansDone ==
  \A x \in Objects : obj[x] = "alive" /\ ~mThread[x] => pc[x] = "done" /\ calls[x] = 1

\* The constructor and join() return.
OwnerProgress ==
  \A x \in Objects : obj[x] \in {"constructing", "joining"} ~> obj[x] = "alive"
=============================================================================
