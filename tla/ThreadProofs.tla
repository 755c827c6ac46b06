---------------------------- MODULE ThreadProofs ----------------------------
(***************************************************************************)
(* The handshake between the Thread constructor and run(), the lifetime of *)
(* the object, and the reaping of the POSIX thread, for any set of objects *)
(* and any of them kept until join().                                      *)
(***************************************************************************)
EXTENDS Thread, TLAPS

Lifetimes == {"none", "failed", "constructing", "alive", "joining", "destroyed"}

Places == {"none", "begin", "swap", "notify", "call", "in_cb", "done"}

Types ==
  /\ obj \in [Objects -> Lifetimes]
  /\ pc \in [Objects -> Places]
  /\ mThread \in [Objects -> BOOLEAN]
  /\ mId \in [Objects -> BOOLEAN]
  /\ mCb \in [Objects -> BOOLEAN]
  /\ cb \in [Objects -> BOOLEAN]
  /\ mSemaphore \in [Objects -> Nat]
  /\ calls \in [Objects -> Nat]
  /\ reaped \in [Objects -> Nat]

\* The POSIX thread has notified the constructor, and needs nothing more of the
\* object but what its callback asks for.
Notified(x) == pc[x] \in {"call", "in_cb", "done"}

\* Before the object is made there is no thread.
Unmade ==
  \A x \in Objects : obj[x] \in {"none", "failed"} =>
    /\ pc[x] = "none" /\ mSemaphore[x] = 0 /\ calls[x] = 0 /\ reaped[x] = 0

\* The constructor returns by the one notify: the semaphore holds it exactly
\* while it is given and not yet taken.
Handed ==
  \A x \in Objects :
    /\ obj[x] = "constructing" =>
         /\ mThread[x] /\ pc[x] # "none"
         /\ mSemaphore[x] = IF Notified(x) THEN 1 ELSE 0
    /\ obj[x] \in {"alive", "joining", "destroyed"} =>
         Notified(x) /\ mSemaphore[x] = 0

\* What run() has taken from the object so far.
Taken ==
  \A x \in Objects :
    /\ pc[x] \in {"begin", "swap"} => mCb[x]
    /\ pc[x] \in {"swap", "notify"} \/ Notified(x) => mId[x]
    /\ pc[x] = "notify" \/ Notified(x) => ~mCb[x] /\ cb[x]
    /\ calls[x] = IF pc[x] \in {"in_cb", "done"} THEN 1 ELSE 0

\* mThread says whether the POSIX thread has yet to be reaped; join() waits for
\* its end.
Owned ==
  \A x \in Objects :
    /\ obj[x] \in {"constructing", "joining"} => mThread[x] /\ reaped[x] = 0
    /\ obj[x] = "alive" =>
         IF mThread[x] THEN reaped[x] = 0 ELSE reaped[x] = 1 /\ pc[x] = "done"
    /\ obj[x] = "destroyed" => reaped[x] = 1 /\ (x \in Kept => pc[x] = "done")

ThreadInv == Types /\ Unmade /\ Handed /\ Taken /\ Owned /\ InLifetime

\* No object exists at first.
LEMMA ThreadInit == Init => ThreadInv
BY DEF Init, ThreadInv, Types, Unmade, Handed, Taken, Owned, InLifetime, Lifetimes,
       Places, Notified

\* The types are kept by every step.
LEMMA TypesStep ==
  ASSUME ThreadInv, NEW x \in Objects, Owner(x) \/ Run(x) \/ UseThis(x)
  PROVE  Types'
<1> USE DEF ThreadInv, Types, Lifetimes, Places
<1>1. CASE Construct(x) BY <1>1 DEF Construct
<1>2. CASE ConstructFails(x) BY <1>2 DEF ConstructFails
<1>3. CASE Constructed(x)
  <2>1. mSemaphore[x] - 1 \in Nat
    BY <1>3 DEF Constructed, MayReturn
  <2> QED BY <1>3, <2>1 DEF Constructed
<1>4. CASE Join(x) BY <1>4 DEF Join
<1>5. CASE Joined(x) BY <1>5 DEF Joined, AfterJoin
<1>6. CASE Destroy(x) BY <1>6 DEF Destroy
<1>7. CASE SetId(x) BY <1>7 DEF SetId
<1>8. CASE SwapCb(x) BY <1>8 DEF SwapCb
<1>9. CASE Notify(x) BY <1>9 DEF Notify
<1>10. CASE CallCb(x) BY <1>10 DEF CallCb
<1>11. CASE Return(x) BY <1>11 DEF Return
<1>12. CASE UseThis(x) BY <1>12 DEF UseThis
<1> QED
  BY <1>1, <1>2, <1>3, <1>4, <1>5, <1>6, <1>7, <1>8, <1>9, <1>10, <1>11, <1>12
     DEF Owner, Run

\* The owner's steps: only join() and the destructor reap, each once, and join()
\* after the end of the thread.
LEMMA OwnerStep ==
  ASSUME ThreadInv, NEW x \in Objects, Owner(x)
  PROVE  (Unmade /\ Handed /\ Taken /\ Owned /\ InLifetime)'
<1> USE DEF ThreadInv, Types, Unmade, Handed, Taken, Owned, InLifetime, Notified
<1>1. CASE Construct(x) BY <1>1 DEF Construct
<1>2. CASE ConstructFails(x) BY <1>2 DEF ConstructFails
<1>3. CASE Constructed(x) BY <1>3 DEF Constructed, MayReturn
<1>4. CASE Join(x) BY <1>4 DEF Join
<1>5. CASE Joined(x) BY <1>5 DEF Joined, AfterJoin
<1>6. CASE Destroy(x) BY <1>6 DEF Destroy
<1> QED BY <1>1, <1>2, <1>3, <1>4, <1>5, <1>6 DEF Owner

\* The POSIX thread's steps: up to notify() the constructor has not returned, and
\* a callback that uses the object runs only while the object is kept.
LEMMA RunStep ==
  ASSUME ThreadInv, NEW x \in Objects, Run(x) \/ UseThis(x)
  PROVE  (Unmade /\ Handed /\ Taken /\ Owned /\ InLifetime)'
<1> USE DEF ThreadInv, Types, Lifetimes, Unmade, Handed, Taken, Owned, InLifetime,
            Notified, Touch
<1>1. CASE SetId(x)
  <2>1. obj[x] = "constructing"
    BY <1>1 DEF SetId
  <2>2. InLifetime'
    BY <1>1, <2>1 DEF SetId
  <2>3. (Unmade /\ Handed /\ Owned)'
    BY <1>1, <2>1 DEF SetId
  <2>4. Taken'
    BY <1>1 DEF SetId
  <2> QED BY <2>2, <2>3, <2>4
<1>2. CASE SwapCb(x)
  <2>1. obj[x] = "constructing"
    BY <1>2 DEF SwapCb
  <2>2. InLifetime'
    BY <1>2, <2>1 DEF SwapCb
  <2>3. (Unmade /\ Handed /\ Owned)'
    BY <1>2, <2>1 DEF SwapCb
  <2>4. Taken'
    BY <1>2 DEF SwapCb
  <2> QED BY <2>2, <2>3, <2>4
<1>3. CASE Notify(x) BY <1>3 DEF Notify
<1>4. CASE CallCb(x) BY <1>4 DEF CallCb
<1>5. CASE Return(x) BY <1>5 DEF Return
<1>6. CASE UseThis(x) BY <1>6 DEF UseThis
<1> QED BY <1>1, <1>2, <1>3, <1>4, <1>5, <1>6 DEF Run

LEMMA ThreadInvariant == Spec => []ThreadInv
<1>1. ThreadInv /\ [Next]_vars => ThreadInv'
  <2> SUFFICES ASSUME ThreadInv, [Next]_vars PROVE ThreadInv'
    OBVIOUS
  <2>1. CASE UNCHANGED vars
    BY <2>1 DEF vars, ThreadInv, Types, Unmade, Handed, Taken, Owned, InLifetime, Notified
  <2>2. ASSUME NEW x \in Objects, Owner(x) \/ Run(x) \/ UseThis(x) PROVE ThreadInv'
    BY <2>2, TypesStep, OwnerStep, RunStep DEF ThreadInv
  <2> QED BY <2>1, <2>2 DEF Next
<1> QED BY <1>1, ThreadInit, PTL DEF Spec

\* Whoever has a constructed Thread can read its id, and run() has its callback,
\* however constructors and threads interleave.
THEOREM ThreadHandshake == Spec => []Handshake
<1>1. ThreadInv => Handshake
  BY DEF ThreadInv, Handshake, Handed, Taken, Notified
<1> QED BY <1>1, ThreadInvariant, PTL

\* No member of a Thread is used before its constructor or after its destructor.
THEOREM ThreadInLifetime == Spec => []InLifetime
<1>1. ThreadInv => InLifetime
  BY DEF ThreadInv
<1> QED BY <1>1, ThreadInvariant, PTL

\* A POSIX thread is joined or detached once at most, and has been when its
\* object is destroyed.
THEOREM ThreadReaped == Spec => []ReapedOnce
<1>1. ThreadInv => ReapedOnce
  <2> SUFFICES ASSUME ThreadInv, NEW x \in Objects
               PROVE  reaped[x] <= 1 /\ (obj[x] = "destroyed" => reaped[x] = 1)
    BY DEF ReapedOnce
  <2>1. reaped[x] \in {0, 1}
    BY DEF ThreadInv, Types, Lifetimes, Unmade, Owned
  <2>2. obj[x] = "destroyed" => reaped[x] = 1
    BY DEF ThreadInv, Owned
  <2> QED BY <2>1, <2>2
<1> QED BY <1>1, ThreadInvariant, PTL

\* When join() has returned, the callback ran once and is over.
THEOREM ThreadJoined == Spec => []JoinMeansDone
<1>1. ThreadInv => JoinMeansDone
  BY DEF ThreadInv, Taken, Owned, JoinMeansDone
<1> QED BY <1>1, ThreadInvariant, PTL
=============================================================================
