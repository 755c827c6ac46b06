------------------------------- MODULE CfgVar -------------------------------
(***************************************************************************)
(* One configuration variable of primo/config.h: the value mVal, the map   *)
(* mCbs of change listeners, and the RWMutex that guards both.             *)
(*                                                                         *)
(* A call waits for the lock, works inside it and gives it back when the   *)
(* scoped lock is destroyed, also when an exception leaves the scope.      *)
(* SetValue holds the read lock while it compares and calls the listeners, *)
(* and takes the write lock anew for the assignment.                       *)
(*                                                                         *)
(* A listener is "ok", "throws" or "null", an empty std::function, whose   *)
(* call throws bad_function_call.  Listeners do not call the variable.     *)
(* sFuncId is shared by all variables of one type T; this is the only one. *)
(***************************************************************************)
EXTENDS Integers, FiniteSets

CONSTANTS
  Threads,   \* the callers
  Setters,   \* the threads that call SetValue and FromString
  Calls,     \* the other operations that the threads call
  Apart,     \* callers let GetListener overlap no other call
  Kinds,     \* the listeners that are passed to AddListener
  Values,    \* values of type T
  Default,   \* the constructor's default_val
  MaxKey,    \* bound: listener keys are at most MaxKey
  MaxCalls,  \* bound: calls that one thread makes
  None

ReadOps  == {"SetValue", "GetValue", "ToString", "GetListener"}
WriteOps == {"AddListener", "DelListener", "ClearListener"}
Keys     == 1..MaxKey

ASSUME ConstantsAssumption ==
  /\ IsFiniteSet(Threads) /\ Setters \subseteq Threads /\ None \notin Threads
  /\ Calls \subseteq (ReadOps \cup WriteOps) \ {"SetValue"}
  /\ Kinds \subseteq {"ok", "throws", "null"}
  /\ Apart \in BOOLEAN
  /\ Default \in Values /\ None \notin Values
  /\ MaxKey \in Nat /\ MaxCalls \in Nat

VARIABLES
  mVal, mCbs, sFuncId,
  readers, writer,  \* the RWMutex: who holds it
  pc,               \* where each thread is in its call
  op,               \* the operation it called
  arg,              \* that operation's value, key or listener
  todo,             \* listeners SetValue's loop has yet to call
  calls,            \* calls begun
  told,             \* what each listener takes for the value, see AddListener
  failed            \* a SetValue threw and none has assigned since

lockVars  == <<readers, writer>>
callVars  == <<op, arg, calls>>
ghostVars == <<told, failed>>
vars == <<mVal, mCbs, sFuncId, lockVars, pc, callVars, todo, ghostVars>>

Init ==
  /\ mVal = Default
  /\ mCbs = [k \in Keys |-> "absent"]
  /\ sFuncId = 0
  /\ readers = {} /\ writer = None
  /\ pc = [t \in Threads |-> "idle"]
  /\ op = [t \in Threads |-> "GetValue"]
  /\ arg = [t \in Threads |-> None]
  /\ todo = [t \in Threads |-> {}]
  /\ calls = [t \in Threads |-> 0]
  /\ told = [k \in Keys |-> None]
  /\ failed = FALSE

Registered == {k \in Keys : mCbs[k] # "absent"}

----------------------------------------------------------------------------
(* RWMutex and its scoped locks *)

\* BUG: only AddListener takes the write lock.
BugWriteLocked(o) == o = "AddListener"

\* Operation o takes the WriteLock first, the others the ReadLock.
WriteLocked(o) == o \in WriteOps

\* rdlock: glibc's default rwlock lets readers pass waiting writers
RdLock(t) == writer = None /\ readers' = readers \cup {t} /\ UNCHANGED writer

WrLock(t) == writer = None /\ readers = {} /\ writer' = t /\ UNCHANGED readers

\* BUG: an early return or an exception leaves the read lock held.
BugUnlockNothing(t) == UNCHANGED lockVars

\* ~ReadScopeLockImpl and ~WriteScopeLockImpl
Unlock(t) == /\ readers' = readers \ {t}
             /\ writer' = IF writer = t THEN None ELSE writer

----------------------------------------------------------------------------
(* The calls *)

\* What a call may be given: SetValue a value (FromString, whose conversion
\* succeeded, is the same call; one that fails changes nothing), the listener
\* operations a key or a listener.
Args(o) == CASE o = "SetValue" -> Values
             [] o = "AddListener" -> Kinds
             [] o \in {"DelListener", "GetListener"} -> Keys
             [] OTHER -> {None}

\* AddListener calls under way, for the bound on the keys
Adding == Cardinality({u \in Threads : op[u] = "AddListener" /\ pc[u] # "idle"})

\* GetListener modifies the map under the read lock when the key is missing.
MayOverlap(t, o) ==
  Apart => \A u \in Threads \ {t} :
             pc[u] # "idle" => o # "GetListener" /\ op[u] # "GetListener"

Call(t, o, a) ==
  /\ pc[t] = "idle" /\ calls[t] < MaxCalls
  /\ o \in Calls \/ (o = "SetValue" /\ t \in Setters)
  /\ a \in Args(o)
  /\ o = "AddListener" => sFuncId + Adding < MaxKey
  /\ MayOverlap(t, o)
  /\ pc' = [pc EXCEPT ![t] = "wait"]
  /\ op' = [op EXCEPT ![t] = o]
  /\ arg' = [arg EXCEPT ![t] = a]
  /\ calls' = [calls EXCEPT ![t] = @ + 1]
  /\ UNCHANGED <<mVal, mCbs, sFuncId, lockVars, todo, ghostVars>>

Acquire(t) ==
  /\ pc[t] = "wait"
  /\ IF WriteLocked(op[t]) THEN WrLock(t) ELSE RdLock(t)
  /\ pc' = [pc EXCEPT ![t] = "inside"]
  /\ UNCHANGED <<mVal, mCbs, sFuncId, callVars, todo, ghostVars>>

\* Thread t is inside the first lock of operation o.
In(t, o) == pc[t] = "inside" /\ op[t] = o

Leave(t) == Unlock(t) /\ pc' = [pc EXCEPT ![t] = "idle"]

\* GetValue and ToString copy the value
Read(t) ==
  /\ In(t, "GetValue") \/ In(t, "ToString")
  /\ Leave(t)
  /\ UNCHANGED <<mVal, mCbs, sFuncId, callVars, todo, ghostVars>>

\* BUG: the loop stops before the last listener.
BugLoop == {k \in Registered : \E j \in Registered : k < j}

\* The listeners that the loop of SetValue visits
Loop == Registered

\* SetValue: the comparison
Compare(t) ==
  /\ In(t, "SetValue")
  /\ IF mVal = arg[t]
     THEN Leave(t) /\ UNCHANGED todo
     ELSE /\ todo' = [todo EXCEPT ![t] = Loop]
          /\ pc' = [pc EXCEPT ![t] = "notify"]
          /\ UNCHANGED lockVars
  /\ UNCHANGED <<mVal, mCbs, sFuncId, callVars, ghostVars>>

\* BUG: the listeners learn the value that is about to be replaced.
BugNewValue(t) == mVal

\* The second argument of cb.second(mVal, val)
NewValue(t) == arg[t]

\* SetValue's loop over mCbs, in the order of the keys
Notify(t) ==
  LET k == CHOOSE i \in todo[t] : \A j \in todo[t] : i <= j IN
  /\ pc[t] = "notify" /\ todo[t] # {}
  /\ IF mCbs[k] = "ok"
     THEN /\ told' = [told EXCEPT ![k] = NewValue(t)]
          /\ todo' = [todo EXCEPT ![t] = @ \ {k}]
          /\ UNCHANGED <<pc, lockVars, failed>>
     ELSE /\ Leave(t)
          /\ todo' = [todo EXCEPT ![t] = {}]
          /\ failed' = TRUE
          /\ UNCHANGED told
  /\ UNCHANGED <<mVal, mCbs, sFuncId, callVars>>

\* The end of the braces: the read lock is released
Notified(t) ==
  /\ pc[t] = "notify" /\ todo[t] = {}
  /\ Unlock(t)
  /\ pc' = [pc EXCEPT ![t] = "rewait"]
  /\ UNCHANGED <<mVal, mCbs, sFuncId, callVars, todo, ghostVars>>

Reacquire(t) ==
  /\ pc[t] = "rewait"
  /\ WrLock(t)
  /\ pc' = [pc EXCEPT ![t] = "assign"]
  /\ UNCHANGED <<mVal, mCbs, sFuncId, callVars, todo, ghostVars>>

Assign(t) ==
  /\ pc[t] = "assign"
  /\ mVal' = arg[t]
  /\ failed' = FALSE
  /\ Leave(t)
  /\ UNCHANGED <<mCbs, sFuncId, callVars, todo, told>>

\* BUG: the next key is one more than the number of listeners.
BugNextKey == Cardinality(Registered) + 1

\* ++sFuncId
NextKey == sFuncId + 1

\* No SetValue is under way.
Quiet == \A u \in Threads : op[u] = "SetValue" => pc[u] = "idle"

\* Whoever adds a listener while nobody sets the value knows the value; during
\* a SetValue the listener may be too late for its calls (None).
AddListener(t) ==
  LET k == NextKey IN
  /\ In(t, "AddListener")
  /\ sFuncId' = k
  /\ mCbs' = [mCbs EXCEPT ![k] = arg[t]]
  /\ told' = [told EXCEPT ![k] = IF Quiet THEN mVal ELSE None]
  /\ Leave(t)
  /\ UNCHANGED <<mVal, callVars, todo, failed>>

DelListener(t) ==
  /\ In(t, "DelListener")
  /\ mCbs' = [mCbs EXCEPT ![arg[t]] = "absent"]
  /\ Leave(t)
  /\ UNCHANGED <<mVal, sFuncId, callVars, todo, ghostVars>>

\* mCbs[key] adds an empty listener when the key is missing
GetListener(t) ==
  /\ In(t, "GetListener")
  /\ mCbs' = [mCbs EXCEPT ![arg[t]] = IF @ = "absent" THEN "null" ELSE @]
  /\ Leave(t)
  /\ UNCHANGED <<mVal, sFuncId, callVars, todo, ghostVars>>

ClearListener(t) ==
  /\ In(t, "ClearListener")
  /\ mCbs' = [k \in Keys |-> "absent"]
  /\ Leave(t)
  /\ UNCHANGED <<mVal, sFuncId, callVars, todo, ghostVars>>

Work(t) == \/ Acquire(t) \/ Read(t)
           \/ Compare(t) \/ Notify(t) \/ Notified(t) \/ Reacquire(t) \/ Assign(t)
           \/ AddListener(t) \/ DelListener(t) \/ GetListener(t)
           \/ ClearListener(t)

Next == \E t \in Threads :
          \/ \E o \in ReadOps \cup WriteOps : \E a \in Args(o) : Call(t, o, a)
          \/ Work(t)

Spec == Init /\ [][Next]_vars

\* A thread inside a call goes on; the lock goes to a waiting thread once it is
\* free and the others make no further calls.
FairSpec == Spec /\ \A t \in Threads : WF_vars(Work(t))

----------------------------------------------------------------------------
(* Properties *)

\* Thread t is between taking and releasing the lock.
Holds(t) == pc[t] \in {"inside", "notify", "assign"}

Pc == {"idle", "wait", "inside", "notify", "rewait", "assign"}

\* Every variable has its type, and the lock is held by exactly the threads
\* that are inside it: no return and no exception keeps it.
TypeOK ==
  /\ mVal \in Values
  /\ mCbs \in [Keys -> {"absent", "ok", "throws", "null"}]
  /\ sFuncId \in 0..MaxKey
  /\ readers \subseteq Threads /\ writer \in Threads \cup {None}
  /\ pc \in [Threads -> Pc]
  /\ op \in [Threads -> ReadOps \cup WriteOps]
  /\ todo \in [Threads -> SUBSET Keys]
  /\ calls \in [Threads -> 0..MaxCalls]
  /\ told \in [Keys -> Values \cup {None}]
  /\ failed \in BOOLEAN
  /\ \A t \in Threads : Holds(t) <=> (t \in readers \/ t = writer)

\* Thread t modifies mVal or mCbs before it releases the lock.
Modifies(t) ==
  \/ pc[t] = "assign"
  \/ pc[t] = "inside" /\ op[t] \in WriteOps
  \/ In(t, "GetListener") /\ mCbs[arg[t]] = "absent"

\* No data race: nobody modifies the value or the map of listeners while
\* another thread compares, copies, iterates or modifies.
NoRace == \A t, u \in Threads : t # u /\ Modifies(t) => ~Holds(u)

\* A listener stays until its key is deleted or all are cleared: no AddListener
\* and no SetValue replaces it.
ListenersStay ==
  [][\A k \in Keys : mCbs[k] \in {"ok", "throws"} =>
                       mCbs'[k] \in {mCbs[k], "absent"}]_vars

\* Once no SetValue is under way, what a listener was last told is the value
\* (config.h:316): no change is missed and none is announced that did not
\* happen, unless a listener threw: then those called before it stay ahead.
ListenersFollow ==
  Quiet /\ ~failed =>
    \A k \in Keys : mCbs[k] = "ok" /\ told[k] # None => told[k] = mVal

\* Every call returns: no path keeps the lock or waits for a lock it holds.
CallsReturn == \A t \in Threads : pc[t] # "idle" ~> pc[t] = "idle"
=============================================================================
