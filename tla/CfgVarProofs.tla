---------------------------- MODULE CfgVarProofs ----------------------------
(***************************************************************************)
(* The lock discipline of a configuration variable, the keys of its        *)
(* listeners, and what the listeners know of its value, for any threads,   *)
(* values, listeners and calls.                                            *)
(***************************************************************************)
EXTENDS CfgVar, FiniteSetTheorems, TLAPS

LockTypes ==
  /\ readers \subseteq Threads /\ writer \in Threads \cup {None}
  /\ pc \in [Threads -> Pc]
  /\ op \in [Threads -> ReadOps \cup WriteOps]

\* The lock is held by exactly those who are inside, by one writer alone.
HeldInv ==
  /\ \A t \in Threads : Holds(t) <=> (t \in readers \/ t = writer)
  /\ writer # None => readers = {}

\* Whoever assigns, or is inside a write-locked operation, is the writer; the
\* later phases belong to SetValue.
WriterInv ==
  \A t \in Threads :
    /\ pc[t] = "assign" => writer = t
    /\ pc[t] = "inside" /\ op[t] \in WriteOps => writer = t
    /\ pc[t] \in {"notify", "rewait", "assign"} => op[t] = "SetValue"

\* If callers keep it apart, a GetListener call has the variable to itself.
ApartInv ==
  Apart => \A t, u \in Threads :
    t # u /\ pc[t] # "idle" /\ op[t] = "GetListener" => pc[u] = "idle"

LockInv == LockTypes /\ HeldInv /\ WriterInv /\ ApartInv

\* Nobody holds the lock at first.
LEMMA LockInit == Init => LockInv
BY ConstantsAssumption
   DEF Init, LockInv, LockTypes, HeldInv, WriterInv, ApartInv, Holds, Pc, ReadOps,
       WriteOps

\* Beginning a call takes no lock, and keeps GetListener apart.
LEMMA CallStep ==
  ASSUME LockInv,
         NEW t \in Threads, NEW o \in ReadOps \cup WriteOps, NEW a \in Args(o),
         Call(t, o, a)
  PROVE  LockInv'
<1>1. LockTypes'
  BY DEF Call, lockVars, LockInv, LockTypes, Pc
<1>2. HeldInv' /\ WriterInv'
  BY DEF Call, lockVars, LockInv, LockTypes, HeldInv, WriterInv, Holds
<1>3. ApartInv'
  BY DEF Call, MayOverlap, LockInv, LockTypes, ApartInv
<1> QED BY <1>1, <1>2, <1>3 DEF LockInv

\* Taking the lock of the first section keeps the discipline.
LEMMA AcquireStep ==
  ASSUME LockInv, NEW t \in Threads, Acquire(t)
  PROVE  LockInv'
<1>1. LockTypes'
  BY DEF Acquire, RdLock, WrLock, callVars, LockInv, LockTypes, Pc
<1>2. HeldInv'
  BY ConstantsAssumption
     DEF Acquire, RdLock, WrLock, callVars, LockInv, LockTypes, HeldInv, Holds
<1>3. WriterInv'
  BY ConstantsAssumption
     DEF Acquire, RdLock, WrLock, WriteLocked, callVars, LockInv, LockTypes,
         HeldInv, WriterInv, Holds
<1>4. ApartInv'
  BY DEF Acquire, callVars, LockInv, LockTypes, ApartInv
<1> QED BY <1>1, <1>2, <1>3, <1>4 DEF LockInv

\* Releasing the lock, by the end of the call or by that of SetValue's first
\* scope, keeps the discipline.
LEMMA ReleaseStep ==
  ASSUME LockInv, NEW t \in Threads, Holds(t), Unlock(t), UNCHANGED op,
         NEW p \in {"idle", "rewait"}, p = "rewait" => pc[t] = "notify",
         pc' = [pc EXCEPT ![t] = p]
  PROVE  LockInv'
<1>1. LockTypes'
  BY DEF Unlock, LockInv, LockTypes, Pc
<1>2. HeldInv'
  BY ConstantsAssumption DEF Unlock, LockInv, LockTypes, HeldInv, Holds
<1>3. WriterInv'
  BY ConstantsAssumption
     DEF Unlock, LockInv, LockTypes, HeldInv, WriterInv, Holds
<1>4. ApartInv'
  BY DEF LockInv, LockTypes, HeldInv, ApartInv, Holds
<1> QED BY <1>1, <1>2, <1>3, <1>4 DEF LockInv

\* The steps of SetValue inside its first lock, and taking the second one.
LEMMA SetStep ==
  ASSUME LockInv, NEW t \in Threads, UNCHANGED op,
         \/ In(t, "SetValue") /\ pc' = [pc EXCEPT ![t] = "notify"] /\ UNCHANGED lockVars
         \/ pc[t] = "notify" /\ UNCHANGED <<pc, lockVars>>
         \/ pc[t] = "rewait" /\ WrLock(t) /\ pc' = [pc EXCEPT ![t] = "assign"]
  PROVE  LockInv'
<1>1. LockTypes'
  BY DEF WrLock, lockVars, LockInv, LockTypes, Pc
<1>2. HeldInv'
  BY ConstantsAssumption DEF WrLock, lockVars, In, LockInv, LockTypes, HeldInv, Holds
<1>3. WriterInv'
  BY ConstantsAssumption
     DEF WrLock, lockVars, In, LockInv, LockTypes, HeldInv, WriterInv, Holds, WriteOps
<1>4. ApartInv'
  BY DEF In, LockInv, LockTypes, WriterInv, ApartInv
<1> QED BY <1>1, <1>2, <1>3, <1>4 DEF LockInv

\* Every step of a call preserves the invariant.
LEMMA WorkStep ==
  ASSUME LockInv, NEW t \in Threads, Work(t)
  PROVE  LockInv'
<1>1. CASE Acquire(t) BY <1>1, AcquireStep
<1>2. CASE Leave(t) /\ UNCHANGED op /\ Holds(t)
  BY <1>2, ReleaseStep DEF Leave
<1>3. CASE Notified(t)
  BY <1>3, ReleaseStep DEF Notified, callVars, Holds
<1>4. CASE Compare(t) /\ mVal # arg[t]
  BY <1>4, SetStep DEF Compare, callVars
<1>5. CASE Notify(t) /\ UNCHANGED <<pc, lockVars>>
  BY <1>5, SetStep DEF Notify, callVars
<1>6. CASE Reacquire(t)
  BY <1>6, SetStep DEF Reacquire, callVars
<1>7. CASE Read(t) BY <1>7, <1>2 DEF Read, In, Holds, callVars
<1>8. CASE Compare(t) /\ mVal = arg[t]
  BY <1>8, <1>2 DEF Compare, In, Holds, callVars
<1>9. CASE Notify(t) BY <1>9, <1>5, <1>2 DEF Notify, Holds, callVars, lockVars
<1>10. CASE Assign(t) BY <1>10, <1>2 DEF Assign, Holds, callVars
<1>11. CASE AddListener(t) BY <1>11, <1>2 DEF AddListener, In, Holds, callVars
<1>12. CASE DelListener(t) BY <1>12, <1>2 DEF DelListener, In, Holds, callVars
<1>13. CASE GetListener(t) BY <1>13, <1>2 DEF GetListener, In, Holds, callVars
<1>14. CASE ClearListener(t) BY <1>14, <1>2 DEF ClearListener, In, Holds, callVars
<1> QED
  BY <1>1, <1>3, <1>4, <1>6, <1>7, <1>8, <1>9, <1>10, <1>11, <1>12, <1>13, <1>14
     DEF Work

\* So it is invariant.
LEMMA LockStep ==
  ASSUME LockInv, [Next]_vars
  PROVE  LockInv'
<1>1. CASE UNCHANGED vars
  BY <1>1 DEF vars, lockVars, callVars, LockInv, LockTypes, HeldInv, WriterInv,
              ApartInv, Holds
<1>2. CASE Next
  BY <1>2, CallStep, WorkStep DEF Next
<1> QED BY <1>1, <1>2

\* If callers keep GetListener apart, no thread ever modifies the value or the
\* listeners while another one is inside the lock, however calls interleave and
\* whichever listeners throw.
THEOREM LocksSuffice == Apart => (Spec => []NoRace)
<1> SUFFICES ASSUME Apart PROVE Spec => []NoRace
  OBVIOUS
<1>1. LockInv => NoRace
  BY ConstantsAssumption
     DEF LockInv, LockTypes, HeldInv, WriterInv, ApartInv, NoRace, Modifies, Holds, In
<1> QED BY <1>1, LockInit, LockStep, PTL DEF Spec

----------------------------------------------------------------------------
(* The listeners and their keys *)

\* A call has an argument of its operation, and only setters call SetValue.
ArgInv ==
  \A t \in Threads :
    pc[t] # "idle" => /\ arg[t] \in Args(op[t])
                      /\ op[t] = "SetValue" => t \in Setters

DataTypes ==
  /\ mVal \in Values
  /\ mCbs \in [Keys -> {"absent", "ok", "throws", "null"}]
  /\ todo \in [Threads -> SUBSET Keys]
  /\ calls \in [Threads -> 0..MaxCalls]
  /\ arg \in [Threads -> Values \cup Kinds \cup Keys \cup {None}]
  /\ told \in [Keys -> Values \cup {None}]
  /\ failed \in BOOLEAN

\* The calls of AddListener under way, which Adding counts.
AddSet == {u \in Threads : op[u] = "AddListener" /\ pc[u] # "idle"}

\* There is a key for every AddListener under way, and no key beyond sFuncId has
\* a listener that somebody added.
KeyInv ==
  /\ sFuncId \in Nat /\ sFuncId + Adding <= MaxKey
  /\ \A k \in Keys : k > sFuncId => mCbs[k] \in {"absent", "null"}

DataInv == LockInv /\ ArgInv /\ DataTypes /\ KeyInv

\* What each operation takes.
LEMMA ArgsAre ==
  /\ Args("SetValue") = Values /\ Args("AddListener") = Kinds
  /\ Args("DelListener") = Keys /\ Args("GetListener") = Keys
  /\ \A o \in ReadOps \cup WriteOps : Args(o) \subseteq Values \cup Kinds \cup Keys \cup {None}
BY DEF Args

LEMMA AddingFinite == IsFiniteSet(AddSet) /\ Adding = Cardinality(AddSet) /\ Adding \in Nat
<1>1. AddSet \in SUBSET Threads
  BY DEF AddSet
<1>2. IsFiniteSet(AddSet) /\ Cardinality(AddSet) \in Nat
  BY <1>1, ConstantsAssumption, FS_Subset, FS_CardinalityType
<1> QED BY <1>2 DEF Adding, AddSet

LEMMA DataInit == Init => DataInv
<1> SUFFICES ASSUME Init PROVE DataInv
  OBVIOUS
<1>1. ArgInv /\ DataTypes
  <2>1. calls \in [Threads -> 0..MaxCalls]
    BY ConstantsAssumption DEF Init
  <2>2. mVal \in Values /\ told \in [Keys -> Values \cup {None}] /\ failed \in BOOLEAN
    BY ConstantsAssumption DEF Init
  <2>3. /\ mCbs \in [Keys -> {"absent", "ok", "throws", "null"}]
        /\ todo \in [Threads -> SUBSET Keys]
        /\ arg \in [Threads -> Values \cup Kinds \cup Keys \cup {None}]
    BY DEF Init
  <2>4. ArgInv
    BY DEF Init, ArgInv
  <2> QED BY <2>1, <2>2, <2>3, <2>4 DEF DataTypes
<1>2. AddSet = {}
  BY DEF Init, AddSet
<1>3. Adding = 0
  BY <1>2, AddingFinite, FS_EmptySet
<1>4. KeyInv
  BY <1>3, ConstantsAssumption DEF Init, KeyInv
<1> QED BY <1>1, <1>4, LockInit DEF DataInv

\* A step of thread t that begins or ends no AddListener leaves Adding alone.
LEMMA AddingSame ==
  ASSUME LockInv, NEW t \in Threads, UNCHANGED op,
         NEW p, pc' = [pc EXCEPT ![t] = p],
         op[t] = "AddListener" => (pc[t] # "idle" <=> p # "idle")
  PROVE  Adding' = Adding
<1>1. AddSet' = AddSet
  BY DEF AddSet, LockInv, LockTypes
<1> QED BY <1>1 DEF Adding, AddSet

\* Beginning a call: the bound leaves a key for one more AddListener.
LEMMA DataCall ==
  ASSUME DataInv, NEW t \in Threads, NEW o \in ReadOps \cup WriteOps, NEW a \in Args(o),
         Call(t, o, a)
  PROVE  (ArgInv /\ DataTypes /\ KeyInv)'
<1>1. /\ pc[t] = "idle" /\ calls[t] < MaxCalls
      /\ o \in Calls \/ (o = "SetValue" /\ t \in Setters)
      /\ o = "AddListener" => sFuncId + Adding < MaxKey
      /\ pc' = [pc EXCEPT ![t] = "wait"] /\ op' = [op EXCEPT ![t] = o]
      /\ arg' = [arg EXCEPT ![t] = a] /\ calls' = [calls EXCEPT ![t] = @ + 1]
      /\ UNCHANGED <<mVal, mCbs, sFuncId, todo, told, failed>>
  BY DEF Call, ghostVars
<1>2. ArgInv'
  BY <1>1, ConstantsAssumption DEF DataInv, LockInv, LockTypes, ArgInv, DataTypes
<1>3. DataTypes'
  <2>1. calls[t] + 1 \in 0..MaxCalls
    BY <1>1, ConstantsAssumption DEF DataInv, DataTypes
  <2>2. a \in Values \cup Kinds \cup Keys \cup {None}
    BY ArgsAre
  <2> QED BY <1>1, <2>1, <2>2 DEF DataInv, DataTypes
<1>4. KeyInv'
  <2>1. AddSet' = IF o = "AddListener" THEN AddSet \cup {t} ELSE AddSet
    BY <1>1 DEF AddSet, DataInv, LockInv, LockTypes
  <2>2. t \notin AddSet
    BY <1>1 DEF AddSet
  <2>3. Cardinality(AddSet \cup {t}) = Cardinality(AddSet) + 1
    BY <2>2, AddingFinite, FS_AddElement
  <2>4. Adding' = IF o = "AddListener" THEN Adding + 1 ELSE Adding
    BY <2>1, <2>3, AddingFinite DEF Adding, AddSet
  <2>5. sFuncId + Adding' <= MaxKey
    BY <1>1, <2>4, AddingFinite, ConstantsAssumption DEF DataInv, KeyInv
  <2> QED BY <1>1, <2>5 DEF DataInv, KeyInv
<1> QED BY <1>2, <1>3, <1>4

\* The steps of a call that touch neither keys nor listeners.
LEMMA DataQuiet ==
  ASSUME DataInv, NEW t \in Threads, NEW p, pc' = [pc EXCEPT ![t] = p],
         UNCHANGED <<op, arg, calls, sFuncId>>,
         op[t] = "AddListener" => p # "idle", pc[t] # "idle",
         mVal' \in Values, todo' \in [Threads -> SUBSET Keys],
         told' \in [Keys -> Values \cup {None}], failed' \in BOOLEAN,
         mCbs' \in [Keys -> {"absent", "ok", "throws", "null"}],
         \A k \in Keys : mCbs'[k] \in {mCbs[k], "absent", "null"}
  PROVE  (ArgInv /\ DataTypes /\ KeyInv)'
<1>1. ArgInv'
  BY DEF DataInv, LockInv, LockTypes, ArgInv
<1>2. DataTypes'
  BY DEF DataInv, DataTypes
<1>3. Adding' = Adding
  BY AddingSame DEF DataInv
<1>4. KeyInv'
  BY <1>3 DEF DataInv, KeyInv
<1> QED BY <1>1, <1>2, <1>4

\* AddListener uses up the key that was left for it.
LEMMA DataAdd ==
  ASSUME DataInv, NEW t \in Threads, AddListener(t)
  PROVE  (ArgInv /\ DataTypes /\ KeyInv)'
<1>1. /\ pc[t] = "inside" /\ op[t] = "AddListener" /\ sFuncId' = sFuncId + 1
      /\ pc' = [pc EXCEPT ![t] = "idle"]
      /\ mCbs' = [mCbs EXCEPT ![sFuncId + 1] = arg[t]]
      /\ told' = [told EXCEPT ![sFuncId + 1] = IF Quiet THEN mVal ELSE None]
      /\ UNCHANGED <<mVal, op, arg, calls, todo, failed>>
  BY DEF AddListener, NextKey, In, Leave, callVars
<1>2. t \in AddSet
  BY <1>1 DEF AddSet
<1>3. AddSet' = AddSet \ {t}
  BY <1>1 DEF AddSet, DataInv, LockInv, LockTypes
<1>4. Adding' = Adding - 1 /\ Adding >= 1
  <2>1. Cardinality(AddSet \ {t}) = Cardinality(AddSet) - 1
        /\ Cardinality(AddSet \ {t}) \in Nat
    BY <1>2, AddingFinite, FS_RemoveElement, FS_CardinalityType
  <2> QED BY <1>3, <2>1, AddingFinite DEF Adding, AddSet
<1>5. arg[t] \in {"ok", "throws", "null"}
  BY <1>1, ArgsAre, ConstantsAssumption DEF DataInv, ArgInv
<1>6. ArgInv'
  BY <1>1 DEF DataInv, LockInv, LockTypes, ArgInv
<1>7. DataTypes'
  BY <1>1, <1>5 DEF DataInv, DataTypes
<1>8. sFuncId' \in Nat /\ sFuncId' + Adding' <= MaxKey
  BY <1>1, <1>4, AddingFinite, ConstantsAssumption DEF DataInv, KeyInv
<1>9. \A k \in Keys : k > sFuncId' => mCbs'[k] \in {"absent", "null"}
  BY <1>1 DEF DataInv, KeyInv, DataTypes, Keys
<1> QED BY <1>6, <1>7, <1>8, <1>9 DEF KeyInv

\* Every step of a call preserves the invariant.
LEMMA DataStep ==
  ASSUME DataInv, [Next]_vars
  PROVE  DataInv'
<1>0. LockInv'
  BY LockStep DEF DataInv
<1> SUFFICES (ArgInv /\ DataTypes /\ KeyInv)'
  BY <1>0 DEF DataInv
<1>1. CASE UNCHANGED vars
  BY <1>1 DEF vars, callVars, ghostVars, DataInv, ArgInv, DataTypes, KeyInv, Adding
<1>2. ASSUME NEW t \in Threads, Work(t) PROVE (ArgInv /\ DataTypes /\ KeyInv)'
  <2>0. /\ mVal \in Values /\ todo \in [Threads -> SUBSET Keys] /\ failed \in BOOLEAN
        /\ told \in [Keys -> Values \cup {None}]
        /\ mCbs \in [Keys -> {"absent", "ok", "throws", "null"}]
        /\ pc = [pc EXCEPT ![t] = pc[t]]
    BY DEF DataInv, DataTypes, LockInv, LockTypes
  <2>1. CASE Acquire(t)
    BY <2>0, <2>1, DataQuiet DEF Acquire, callVars, ghostVars
  <2>2. CASE Read(t)
    BY <2>0, <2>2, DataQuiet DEF Read, In, Leave, callVars, ghostVars
  <2>3. CASE Compare(t)
    <3>1. Loop \subseteq Keys
      BY DEF Loop, Registered
    <3> QED BY <2>0, <2>3, <3>1, DataQuiet DEF Compare, In, Leave, callVars, ghostVars
  <2>4. CASE Notify(t)
    <3>1. arg[t] \in Values /\ op[t] = "SetValue"
      BY <2>4, ArgsAre DEF Notify, DataInv, LockInv, WriterInv, ArgInv
    <3>2. told' \in [Keys -> Values \cup {None}] /\ todo' \in [Threads -> SUBSET Keys]
          /\ failed' \in BOOLEAN
      BY <2>0, <2>4, <3>1 DEF Notify, NewValue
    <3>3. \E p : pc' = [pc EXCEPT ![t] = p]
      BY <2>0, <2>4 DEF Notify, Leave
    <3> QED BY <2>0, <2>4, <3>1, <3>2, <3>3, DataQuiet DEF Notify, callVars
  <2>5. CASE Notified(t)
    BY <2>0, <2>5, DataQuiet DEF Notified, callVars, ghostVars
  <2>6. CASE Reacquire(t)
    BY <2>0, <2>6, DataQuiet DEF Reacquire, callVars, ghostVars
  <2>7. CASE Assign(t)
    <3>1. arg[t] \in Values /\ op[t] = "SetValue"
      BY <2>7, ArgsAre DEF Assign, DataInv, LockInv, WriterInv, ArgInv
    <3> QED BY <2>0, <2>7, <3>1, DataQuiet DEF Assign, Leave, callVars
  <2>8. CASE AddListener(t)
    BY <2>8, DataAdd
  <2>9. CASE DelListener(t)
    BY <2>0, <2>9, DataQuiet DEF DelListener, In, Leave, callVars, ghostVars
  <2>10. CASE GetListener(t)
    BY <2>0, <2>10, DataQuiet DEF GetListener, In, Leave, callVars, ghostVars
  <2>11. CASE ClearListener(t)
    BY <2>0, <2>11, DataQuiet DEF ClearListener, In, Leave, callVars, ghostVars
  <2> QED BY <1>2, <2>1, <2>2, <2>3, <2>4, <2>5, <2>6, <2>7, <2>8, <2>9, <2>10, <2>11
          DEF Work
<1> QED BY <1>1, <1>2, DataCall DEF Next

LEMMA DataInvariant == Spec => []DataInv
BY DataInit, DataStep, PTL DEF Spec

\* Every variable keeps its type, no key runs over, and the lock is held by
\* exactly the threads inside it, whether or not calls of GetListener overlap.
THEOREM TypeCorrect == Spec => []TypeOK
<1>1. DataInv => TypeOK
  <2> SUFFICES ASSUME DataInv PROVE TypeOK
    OBVIOUS
  <2>1. sFuncId \in 0..MaxKey
    BY AddingFinite, ConstantsAssumption DEF DataInv, KeyInv
  <2>2. /\ readers \subseteq Threads /\ writer \in Threads \cup {None}
        /\ pc \in [Threads -> Pc] /\ op \in [Threads -> ReadOps \cup WriteOps]
        /\ \A t \in Threads : Holds(t) <=> (t \in readers \/ t = writer)
    BY DEF DataInv, LockInv, LockTypes, HeldInv
  <2> QED BY <2>1, <2>2 DEF DataInv, DataTypes, TypeOK
<1> QED BY <1>1, DataInvariant, PTL

\* A listener that was added stays under its key until it is deleted or all are
\* cleared: no key is given twice, although GetListener may occupy a key first.
THEOREM KeysAreFresh == Spec => ListenersStay
<1> DEFINE A == \A k \in Keys : mCbs[k] \in {"ok", "throws"} =>
                                  mCbs'[k] \in {mCbs[k], "absent"}
<1>1. ASSUME DataInv, [Next]_vars PROVE [A]_vars
  <2> SUFFICES ASSUME Next PROVE A
    BY <1>1
  <2>1. ASSUME NEW t \in Threads, AddListener(t) PROVE A
    <3>1. mCbs' = [mCbs EXCEPT ![sFuncId + 1] = arg[t]] /\ sFuncId \in Nat
      BY <1>1, <2>1 DEF AddListener, NextKey, DataInv, KeyInv
    <3>2. \A k \in Keys : mCbs[k] \in {"ok", "throws"} => k # sFuncId + 1
      BY <1>1, <3>1 DEF DataInv, KeyInv, Keys
    <3> QED BY <1>1, <3>1, <3>2 DEF DataInv, DataTypes
  <2>2. ASSUME NEW t \in Threads, DelListener(t) \/ GetListener(t) \/ ClearListener(t)
        PROVE  A
    BY <1>1, <2>2 DEF DelListener, GetListener, ClearListener, DataInv, DataTypes
  <2>3. CASE UNCHANGED mCbs
    BY <2>3
  <2> QED BY <2>1, <2>2, <2>3
          DEF Next, Call, Work, Acquire, Read, Compare, Notify, Notified, Reacquire, Assign
<1> QED BY <1>1, DataInvariant, PTL DEF Spec, ListenersStay

----------------------------------------------------------------------------
(* What the listeners know, when one thread sets the value *)

OneSetter == \A s, u \in Setters : s = u

\* Listener k knows what it was told.
Knows(k) == mCbs[k] = "ok" /\ told[k] # None

\* Between the loop and the assignment the listeners are ahead of the value:
\* those that the loop has called know the argument already, the others still
\* the value.  Once one has thrown, nothing is known until the next assignment.
AheadInv ==
  /\ ~failed /\ (\A t \in Threads : pc[t] \notin {"notify", "rewait", "assign"})
       => \A k \in Keys : Knows(k) => told[k] = mVal
  /\ \A t \in Threads : pc[t] = "notify" =>
       \A k \in Keys : Knows(k) => IF k \in todo[t] THEN ~failed => told[k] = mVal
                                                     ELSE told[k] = arg[t]
  /\ \A t \in Threads : pc[t] \in {"rewait", "assign"} =>
       \A k \in Keys : Knows(k) => told[k] = arg[t]

FollowInv == DataInv /\ AheadInv

\* There is one SetValue at a time.
LEMMA SetterAlone ==
  ASSUME OneSetter, DataInv, NEW t \in Threads, NEW u \in Threads,
         pc[t] # "idle", op[t] = "SetValue", pc[u] # "idle", op[u] = "SetValue"
  PROVE  t = u
BY DEF OneSetter, DataInv, ArgInv

LEMMA FollowStep ==
  ASSUME OneSetter, FollowInv, [Next]_vars
  PROVE  FollowInv'
<1>0. DataInv /\ DataInv'
  BY DataStep DEF FollowInv
<1> SUFFICES AheadInv'
  BY <1>0 DEF FollowInv
<1> DEFINE Sets(t) == pc[t] \in {"notify", "rewait", "assign"}
<1>a. /\ \A t \in Threads : Sets(t) => op[t] = "SetValue" /\ pc[t] # "idle"
      /\ pc \in [Threads -> Pc]
      /\ mCbs \in [Keys -> {"absent", "ok", "throws", "null"}]
      /\ told \in [Keys -> Values \cup {None}]
      /\ todo \in [Threads -> SUBSET Keys]
  BY <1>0 DEF DataInv, LockInv, LockTypes, WriterInv, DataTypes
<1>b. \A t, u \in Threads : Sets(t) /\ pc[u] # "idle" /\ op[u] = "SetValue" => t = u
  BY <1>0, <1>a, SetterAlone
<1>1. ASSUME UNCHANGED <<mVal, told, failed, todo, arg>>,
             \A k \in Keys : mCbs'[k] = "ok" => mCbs[k] = "ok",
             \A t \in Threads : pc'[t] = pc[t] \/ (~Sets(t) /\ ~Sets(t)')
      PROVE  AheadInv'
  BY <1>1, <1>a DEF FollowInv, AheadInv, Knows, Pc
<1>2. CASE UNCHANGED vars
  BY <1>1, <1>2 DEF vars, callVars, ghostVars
<1>3. ASSUME NEW t \in Threads, NEW o \in ReadOps \cup WriteOps, NEW a \in Args(o),
             Call(t, o, a)
      PROVE  AheadInv'
  <2>1. /\ pc[t] = "idle" /\ pc' = [pc EXCEPT ![t] = "wait"]
        /\ arg' = [arg EXCEPT ![t] = a] /\ UNCHANGED <<mVal, mCbs, told, failed, todo>>
    BY <1>3 DEF Call, ghostVars
  <2> QED BY <2>1, <1>a DEF FollowInv, AheadInv, Knows, Pc
<1>4. ASSUME NEW t \in Threads,
             Acquire(t) \/ Read(t) \/ DelListener(t) \/ GetListener(t) \/ ClearListener(t)
      PROVE  AheadInv'
  <2>1. UNCHANGED <<mVal, told, failed, todo, arg>>
    BY <1>4 DEF Acquire, Read, DelListener, GetListener, ClearListener, callVars, ghostVars
  <2>2. \A k \in Keys : mCbs'[k] = "ok" => mCbs[k] = "ok"
    BY <1>4, <1>a DEF Acquire, Read, DelListener, GetListener, ClearListener
  <2>3. \A u \in Threads : pc'[u] = pc[u] \/ (~Sets(u) /\ ~Sets(u)')
    BY <1>4, <1>a DEF Acquire, Read, DelListener, GetListener, ClearListener, In, Leave
  <2> QED BY <1>1, <2>1, <2>2, <2>3
<1>5. ASSUME NEW t \in Threads, Compare(t) PROVE AheadInv'
  <2>1. CASE mVal = arg[t]
    BY <1>1, <1>5, <1>a, <2>1 DEF Compare, In, Leave, callVars, ghostVars
  <2>2. CASE mVal # arg[t]
    <3>1. /\ pc[t] = "inside" /\ op[t] = "SetValue" /\ pc' = [pc EXCEPT ![t] = "notify"]
          /\ todo' = [todo EXCEPT ![t] = Registered]
          /\ UNCHANGED <<mVal, mCbs, told, failed, arg>>
      BY <1>5, <2>2 DEF Compare, In, Loop, callVars, ghostVars
    <3>2. \A u \in Threads : ~Sets(u)
      BY <1>b, <3>1
    <3>3. \A k \in Keys : Knows(k) => k \in Registered
      BY DEF Knows, Registered
    <3> QED BY <1>a, <3>1, <3>2, <3>3 DEF FollowInv, AheadInv, Knows, Pc
  <2> QED BY <2>1, <2>2
<1>6. ASSUME NEW t \in Threads, Notify(t) PROVE AheadInv'
  <2> DEFINE k == CHOOSE i \in todo[t] : \A j \in todo[t] : i <= j
  <2>0. pc[t] = "notify" /\ op[t] = "SetValue"
        /\ \A u \in Threads : Sets(u) => u = t
    BY <1>6, <1>a, <1>b DEF Notify
  <2>1. CASE mCbs[k] = "ok"
    <3>1. /\ told' = [told EXCEPT ![k] = arg[t]]
          /\ todo' = [todo EXCEPT ![t] = @ \ {k}]
          /\ UNCHANGED <<pc, mVal, mCbs, failed, arg>>
      BY <1>6, <2>1 DEF Notify, NewValue, callVars
    <3> HIDE DEF k
    <3> QED BY <1>a, <2>0, <3>1 DEF FollowInv, AheadInv, Knows
  <2>2. CASE mCbs[k] # "ok"
    <3>1. failed' = TRUE /\ pc' = [pc EXCEPT ![t] = "idle"]
      BY <1>6, <2>2 DEF Notify, Leave
    <3> HIDE DEF k
    <3> QED BY <1>a, <2>0, <3>1 DEF AheadInv
  <2> QED BY <2>1, <2>2
<1>7. ASSUME NEW t \in Threads, Notified(t) \/ Reacquire(t) PROVE AheadInv'
  <2>1. /\ Sets(t) /\ pc[t] # "assign"
        /\ pc[t] = "notify" => todo[t] = {}
        /\ \E p \in {"rewait", "assign"} : pc' = [pc EXCEPT ![t] = p]
        /\ UNCHANGED <<mVal, mCbs, told, failed, todo, arg>>
    BY <1>7 DEF Notified, Reacquire, callVars, ghostVars
  <2>2. \A u \in Threads : Sets(u) => u = t
    BY <1>a, <1>b, <2>1
  <2> QED BY <1>a, <2>1, <2>2 DEF FollowInv, AheadInv, Knows
<1>8. ASSUME NEW t \in Threads, Assign(t) PROVE AheadInv'
  <2>1. /\ pc[t] = "assign" /\ mVal' = arg[t] /\ pc' = [pc EXCEPT ![t] = "idle"]
        /\ UNCHANGED <<mCbs, told, todo, arg>>
    BY <1>8 DEF Assign, Leave, callVars
  <2>2. \A u \in Threads : Sets(u) => u = t
    BY <1>a, <1>b, <2>1
  <2> QED BY <1>a, <2>1, <2>2 DEF FollowInv, AheadInv, Knows
<1>9. ASSUME NEW t \in Threads, AddListener(t) PROVE AheadInv'
  <2> DEFINE k == sFuncId + 1
  <2>1. /\ pc[t] = "inside" /\ pc' = [pc EXCEPT ![t] = "idle"]
        /\ mCbs' = [mCbs EXCEPT ![k] = arg[t]]
        /\ told' = [told EXCEPT ![k] = IF Quiet THEN mVal ELSE None]
        /\ UNCHANGED <<mVal, todo, arg, failed>>
    BY <1>9 DEF AddListener, NextKey, In, Leave, callVars
  <2> HIDE DEF k
  <2>2. (\E u \in Threads : Sets(u)) => ~Quiet
    BY <1>a DEF Quiet
  <2>3. \A u \in Threads : pc'[u] = pc[u] \/ (~Sets(u) /\ ~Sets(u)')
    BY <1>a, <2>1
  <2>4. \A j \in Keys : j # k => told'[j] = told[j] /\ mCbs'[j] = mCbs[j]
    BY <1>a, <2>1
  <2>5. k \in Keys => told'[k] = IF Quiet THEN mVal ELSE None
    BY <1>a, <2>1
  <2> QED BY <2>1, <2>2, <2>3, <2>4, <2>5 DEF FollowInv, AheadInv, Knows
<1> QED BY <1>2, <1>3, <1>4, <1>5, <1>6, <1>7, <1>8, <1>9 DEF Next, Work

\* When one thread sets the value, every listener that knows a value knows the
\* present one as soon as no SetValue is under way, unless one has thrown.
THEOREM ListenersInStep == OneSetter => (Spec => []ListenersFollow)
<1> SUFFICES ASSUME OneSetter PROVE Spec => []ListenersFollow
  OBVIOUS
<1>1. Init => FollowInv
  <2> SUFFICES ASSUME Init PROVE FollowInv
    OBVIOUS
  <2>1. AheadInv
    BY DEF Init, AheadInv, Knows
  <2> QED BY <2>1, DataInit DEF FollowInv
<1>2. FollowInv => ListenersFollow
  <2> SUFFICES ASSUME FollowInv, Quiet PROVE ListenersFollow
    BY DEF ListenersFollow
  <2>1. \A t \in Threads : pc[t] \notin {"notify", "rewait", "assign"}
    BY DEF FollowInv, DataInv, LockInv, WriterInv, Quiet
  <2> QED BY <2>1 DEF FollowInv, AheadInv, Knows, ListenersFollow
<1> QED BY <1>1, <1>2, FollowStep, PTL DEF Spec
=============================================================================
