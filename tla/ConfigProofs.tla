---------------------------- MODULE ConfigProofs ----------------------------
(***************************************************************************)
(* What the registry's callers can rely on, for any number of threads,     *)
(* calls, documents and registered variables: a name is one variable for   *)
(* ever, and a document that was loaded is what the variables then hold.   *)
(***************************************************************************)
EXTENDS Config, TLAPS

IsSeq(s)     == s \in Seq(Range(s))
OfThreads(f) == f = [t \in Threads |-> f[t]]

IsVar(v)     == v = [name |-> v.name, type |-> v.type, mVal |-> v.mVal]
IsSetting(s) == s = [var |-> s.var, new |-> s.new, calls |-> s.calls]

\* The registry: every variable is registered under its own name, and every name
\* leads to a variable that has it, so that no two variables have one name.
RegInv ==
  /\ IsSeq(objects) /\ Len(Statics) <= Len(objects)
  /\ \A x \in DOMAIN objects : /\ IsVar(objects[x])
                               /\ objects[x].name \in DOMAIN mDatas
                               /\ mDatas[objects[x].name] = x
  /\ \A n \in DOMAIN mDatas : mDatas[n] \in DOMAIN objects /\ objects[mDatas[n]].name = n

HandlesInv ==
  \A h \in handles : h.var # Nobody => /\ h.name \in DOMAIN mDatas
                                       /\ mDatas[h.name] = h.var
                                       /\ objects[h.var].type = h.type

\* How many calls of its program a thread has returned from.
Begun(t) == Len(program[t]) - Len(todo[t])

\* What a thread has yet to call is the end of its program.
TodoInv ==
  /\ program \in Programs /\ OfThreads(todo)
  /\ \A t \in Threads :
       /\ IsSeq(todo[t]) /\ Len(todo[t]) <= Len(program[t])
       /\ \A k \in DOMAIN todo[t] : todo[t][k] = program[t][Begun(t) + k]

\* The nodes that the current call of t loads, and the place of the next one.
Now(t)  == Listed(t, Begun(t) + 1)
Here(t) == Len(Now(t)) - Len(nodes[t]) + 1

\* The nodes that a load has yet to come to are the end of the document's.
NodesInv ==
  /\ OfThreads(nodes)
  /\ \A t \in Threads :
       /\ IsSeq(nodes[t])
       /\ nodes[t] # <<>> =>
            /\ At(t, "load") /\ Len(nodes[t]) <= Len(Now(t))
            /\ \A k \in DOMAIN nodes[t] : nodes[t][k] = Now(t)[Here(t) - 1 + k]

\* FromString, between the comparison and the assignment: it is about the
\* variable of the present node's name, and the new value is the node's.
SettingInv ==
  /\ OfThreads(setting)
  /\ \A t \in Threads :
       /\ IsSetting(setting[t])
       /\ setting[t].calls = <<>> \/ \E k \in DOMAIN Reacts : setting[t].calls = <<Reacts[k]>>
       /\ setting[t].var # Nobody =>
            /\ nodes[t] # <<>> /\ setting[t].var \in DOMAIN objects
            /\ Lowered(Head(nodes[t]).name) # <<>>
            /\ objects[setting[t].var].name = Lowered(Head(nodes[t]).name)
            /\ setting[t].new \subseteq Casts(objects[setting[t].var].type, Head(nodes[t]).node)

\* Thread t is through with node j of its call i.
Past(t, i, j) ==
  \/ i <= Begun(t)
  \/ i = Begun(t) + 1 /\ nodes[t] # <<>> /\ j < Here(t)

\* Node j of call i is the last one for v that t is through with.
LastPast(t, i, j, v) ==
  /\ Past(t, i, j) /\ Gives(t, i, j, v)
  /\ \A k \in DOMAIN program[t] : \A m \in DOMAIN Listed(t, k) :
       Past(t, k, m) /\ Gives(t, k, m, v) => k < i \/ (k = i /\ m <= j)

\* Variable x holds the value of the last node for it that some thread is through
\* with, or the default value when there need not be such a node.
Holds(x) ==
  LET v == objects[x] IN
  \/ \E t \in Threads : \E i \in DOMAIN program[t] : \E j \in DOMAIN Listed(t, i) :
       LastPast(t, i, j, v) /\ v.mVal \in Casts(v.type, Listed(t, i)[j].node)
  \/ /\ \/ x > Len(Statics)
        \/ \A t \in Threads : \A i \in DOMAIN program[t] : \A j \in DOMAIN Listed(t, i) :
             Past(t, i, j) => ~Gives(t, i, j, v)
     /\ IsDefault(v)

\* The inductive invariant
ConfigInv == /\ RegInv /\ HandlesInv /\ TodoInv /\ NodesInv /\ SettingInv
             /\ \A x \in DOMAIN objects : Holds(x)

----------------------------------------------------------------------------
(* Sequences *)

LEMMA SeqIs ==
  ASSUME NEW S, NEW s \in Seq(S)
  PROVE  IsSeq(s)
<1>1. Len(s) \in Nat /\ DOMAIN s = 1..Len(s) /\ s \in [1..Len(s) -> S]
  OBVIOUS
<1>2. s \in [1..Len(s) -> Range(s)]
  BY <1>1 DEF Range
<1> QED BY <1>1, <1>2 DEF IsSeq

LEMMA IsSeqDomain ==
  ASSUME NEW s, IsSeq(s)
  PROVE  /\ Len(s) \in Nat /\ DOMAIN s = 1..Len(s)
         /\ s # <<>> <=> Len(s) > 0
BY DEF IsSeq

LEMMA TailIs ==
  ASSUME NEW s, IsSeq(s), s # <<>>
  PROVE  /\ IsSeq(Tail(s)) /\ Len(Tail(s)) = Len(s) - 1
         /\ \A k \in DOMAIN Tail(s) : Tail(s)[k] = s[k + 1]
         /\ Head(s) = s[1]
<1>1. s \in Seq(Range(s))
  BY DEF IsSeq
<1>2. Tail(s) \in Seq(Range(s))
  BY <1>1
<1>3. IsSeq(Tail(s))
  BY <1>2, SeqIs
<1> QED BY <1>1, <1>2, <1>3

LEMMA AppendIs ==
  ASSUME NEW s, IsSeq(s), NEW e
  PROVE  /\ IsSeq(Append(s, e)) /\ Len(Append(s, e)) = Len(s) + 1
         /\ \A k \in DOMAIN s : Append(s, e)[k] = s[k]
         /\ Append(s, e)[Len(s) + 1] = e
<1> DEFINE S == Range(s) \cup {e}
<1>1. s \in Seq(S)
  BY DEF IsSeq
<1> HIDE DEF S
<1>2. e \in S
  BY DEF S
<1>3. Append(s, e) \in Seq(S)
  BY <1>1, <1>2
<1>4. IsSeq(Append(s, e))
  BY <1>3, SeqIs
<1> QED BY <1>1, <1>2, <1>3, <1>4

LEMMA ReplaceIs ==
  ASSUME NEW s, IsSeq(s), NEW x \in DOMAIN s, NEW e
  PROVE  /\ IsSeq([s EXCEPT ![x] = e]) /\ Len([s EXCEPT ![x] = e]) = Len(s)
         /\ DOMAIN [s EXCEPT ![x] = e] = DOMAIN s
         /\ [s EXCEPT ![x] = e][x] = e
         /\ \A y \in DOMAIN s : y # x => [s EXCEPT ![x] = e][y] = s[y]
<1> DEFINE S == Range(s) \cup {e}
           r == [s EXCEPT ![x] = e]
<1>1. s \in Seq(S)
  BY DEF IsSeq
<1> HIDE DEF S
<1>2. e \in S
  BY DEF S
<1>3. r \in Seq(S) /\ Len(r) = Len(s) /\ DOMAIN r = DOMAIN s
  BY <1>1, <1>2
<1>4. IsSeq(r)
  BY <1>3, SeqIs
<1> QED BY <1>1, <1>3, <1>4

----------------------------------------------------------------------------
(* The registry *)

\* What was registered stays as it is, and what is new has a default value.
Extended ==
  /\ DOMAIN objects \subseteq DOMAIN objects'
  /\ \A x \in DOMAIN objects : objects'[x] = objects[x]
  /\ \A x \in DOMAIN objects' \ DOMAIN objects :
       x > Len(Statics) /\ IsDefault(objects'[x])

LEMMA StaticsSeq ==
  Len(Statics) \in Nat /\ DOMAIN Statics = 1..Len(Statics)
BY ConstantsAssumption

\* Register: the one name that is added is new, and leads to the new variable.
LEMMA RegisterKeeps ==
  ASSUME RegInv, HandlesInv, NEW c, Register(c), IsDefault(Made(c))
  PROVE  RegInv' /\ HandlesInv' /\ Extended
<1>0. /\ Len(objects) \in Nat /\ DOMAIN objects = 1..Len(objects) /\ IsSeq(objects)
      /\ Len(Statics) \in Nat
  BY IsSeqDomain, StaticsSeq DEF RegInv
<1>1. CASE c.name \in DOMAIN mDatas
  <2>1. /\ mDatas' = mDatas /\ objects' = objects
        /\ handles' = handles \cup {[name |-> c.name, type |-> c.type, var |-> Cast(c.name, c.type)]}
    BY <1>1 DEF Register, Returns
  <2>2. Cast(c.name, c.type) # Nobody =>
          mDatas[c.name] = Cast(c.name, c.type) /\ objects[Cast(c.name, c.type)].type = c.type
    BY <1>1 DEF Cast, LookUpBase
  <2>3. RegInv' /\ Extended
    BY <2>1 DEF RegInv, Extended
  <2> HIDE DEF Cast
  <2>4. HandlesInv'
    BY <1>1, <2>1, <2>2 DEF HandlesInv
  <2> QED BY <2>3, <2>4
<1>2. CASE c.name \notin DOMAIN mDatas
  <2> DEFINE z == Len(objects) + 1
             v == Made(c)
  <2>1. /\ objects' = Append(objects, v) /\ IsSeq(objects')
        /\ Len(objects') = z /\ DOMAIN objects' = 1..z
        /\ objects'[z] = v /\ \A x \in DOMAIN objects : objects'[x] = objects[x]
    <3>1. objects' = Append(objects, v)
      BY <1>2 DEF Register
    <3>2. /\ IsSeq(objects') /\ Len(objects') = z
          /\ objects'[z] = v /\ \A x \in DOMAIN objects : objects'[x] = objects[x]
      BY <1>0, <3>1, AppendIs
    <3> QED BY <3>1, <3>2, IsSeqDomain
  <2>2. /\ DOMAIN mDatas' = DOMAIN mDatas \cup {c.name}
        /\ mDatas'[c.name] = z /\ \A n \in DOMAIN mDatas : mDatas'[n] = mDatas[n]
    BY <1>2, <2>1 DEF Register
  <2>3. handles' = handles \cup {[name |-> c.name, type |-> c.type, var |-> z]}
    BY <1>2, <2>1 DEF Register, Returns
  <2>4. IsVar(v) /\ v.name = c.name /\ v.type = c.type
    BY DEF Made, IsVar
  <2> HIDE DEF v
  <2>5. DOMAIN objects' = DOMAIN objects \cup {z} /\ z \notin DOMAIN objects
    BY <1>0, <2>1
  <2>6. Extended
    <3>1. z > Len(Statics)
      BY <1>0 DEF RegInv
    <3>2. IsDefault(v)
      BY DEF v
    <3> HIDE DEF z
    <3> QED BY <2>1, <2>5, <3>1, <3>2 DEF Extended
  <2>7. RegInv'
    <3>1. Len(Statics) <= Len(objects')
      BY <1>0, <2>1 DEF RegInv
    <3> HIDE DEF z
    <3>2. \A x \in DOMAIN objects' : /\ IsVar(objects'[x])
                                     /\ objects'[x].name \in DOMAIN mDatas'
                                     /\ mDatas'[objects'[x].name] = x
      BY <2>1, <2>2, <2>4, <2>5 DEF RegInv
    <3>3. \A n \in DOMAIN mDatas' : mDatas'[n] \in DOMAIN objects' /\ objects'[mDatas'[n]].name = n
      BY <1>2, <2>1, <2>2, <2>4, <2>5 DEF RegInv
    <3> QED BY <2>1, <3>1, <3>2, <3>3 DEF RegInv, IsVar
  <2>8. HandlesInv'
    <3> HIDE DEF z
    <3>1. ASSUME NEW h \in handles, h.var # Nobody
          PROVE  /\ h.name \in DOMAIN mDatas' /\ mDatas'[h.name] = h.var
                 /\ objects'[h.var].type = h.type
      BY <3>1, <2>1, <2>2 DEF HandlesInv, RegInv
    <3>2. \A h \in handles' : h.var # Nobody => /\ h.name \in DOMAIN mDatas'
                                                /\ mDatas'[h.name] = h.var
                                                /\ objects'[h.var].type = h.type
      <4>1. SUFFICES ASSUME NEW h \in handles', h.var # Nobody, h \notin handles
                     PROVE  /\ h.name \in DOMAIN mDatas' /\ mDatas'[h.name] = h.var
                            /\ objects'[h.var].type = h.type
        BY <3>1
      <4>2. h.name = c.name /\ h.type = c.type /\ h.var = z
        BY <2>3, <4>1
      <4> QED BY <2>1, <2>2, <2>4, <4>2
    <3> QED BY <3>2 DEF HandlesInv
  <2> QED BY <2>6, <2>7, <2>8
<1> QED BY <1>1, <1>2

----------------------------------------------------------------------------
(* How far the threads are *)

LEMMA ProgramIs ==
  ASSUME program \in Programs, NEW t \in Threads
  PROVE  /\ IsSeq(program[t])
         /\ \A i \in DOMAIN program[t] :
              /\ IsSeq(Listed(t, i))
              /\ program[t][i].call = "load" => Len(Listed(t, i)) > 0
<1> DEFINE S == UNION {Range(program[u]) : u \in Threads}
<1>1. program[t] \in Seq(S)
  BY ConstantsAssumption
<1> HIDE DEF S
<1>2. IsSeq(program[t])
  BY <1>1, SeqIs
<1>3. ASSUME NEW i \in DOMAIN program[t]
      PROVE  /\ IsSeq(Listed(t, i))
             /\ program[t][i].call = "load" => Len(Listed(t, i)) > 0
  <2>1. program[t][i] \in Range(program[t])
    BY DEF Range
  <2>2. CASE program[t][i].call = "load"
    <3> DEFINE L == AllNodes(program[t][i].root)
    <3>1. L \in Seq(Range(L)) \ {<<>>}
      BY <2>1, <2>2, ConstantsAssumption
    <3> HIDE DEF L
    <3>2. IsSeq(L) /\ Len(L) > 0
      BY <3>1 DEF IsSeq
    <3> QED BY <2>2, <3>2 DEF Listed, L
  <2>3. CASE program[t][i].call # "load"
    <3>1. <<>> \in Seq({})
      OBVIOUS
    <3>2. IsSeq(<<>>)
      BY <3>1, SeqIs
    <3> QED BY <2>3, <3>2 DEF Listed
  <2> QED BY <2>2, <2>3
<1> QED BY <1>2, <1>3

\* Where a thread is: at the call behind the ones it has returned from.
LEMMA AtIs ==
  ASSUME TodoInv, NEW t \in Threads
  PROVE  /\ Begun(t) \in Nat /\ Begun(t) <= Len(program[t])
         /\ Len(program[t]) \in Nat /\ DOMAIN program[t] = 1..Len(program[t])
         /\ todo[t] # <<>> => /\ Begun(t) + 1 \in DOMAIN program[t]
                              /\ Head(todo[t]) = program[t][Begun(t) + 1]
         /\ todo[t] = <<>> => Begun(t) = Len(program[t])
<1>1. /\ IsSeq(program[t]) /\ IsSeq(todo[t]) /\ Len(todo[t]) <= Len(program[t])
      /\ \A k \in DOMAIN todo[t] : todo[t][k] = program[t][Begun(t) + k]
  BY ProgramIs DEF TodoInv
<1>2. /\ Len(program[t]) \in Nat /\ DOMAIN program[t] = 1..Len(program[t])
      /\ Len(todo[t]) \in Nat /\ DOMAIN todo[t] = 1..Len(todo[t])
      /\ todo[t] # <<>> <=> Len(todo[t]) > 0
  BY <1>1, IsSeqDomain
<1>3. ASSUME todo[t] # <<>>
      PROVE  Head(todo[t]) = program[t][Begun(t) + 1]
  <2>1. Head(todo[t]) = todo[t][1]
    BY <1>1, <1>3, TailIs
  <2> QED BY <1>1, <1>2, <1>3, <2>1
<1>4. /\ Begun(t) \in Nat /\ Begun(t) <= Len(program[t])
      /\ Len(todo[t]) > 0 => Begun(t) + 1 \in 1..Len(program[t])
      /\ Len(todo[t]) = 0 => Begun(t) = Len(program[t])
  <2> DEFINE n == Len(program[t])
             k == Len(todo[t])
  <2>1. n \in Nat /\ k \in Nat /\ k <= n /\ Begun(t) = n - k
    BY <1>1, <1>2 DEF Begun
  <2> HIDE DEF n, k
  <2>2. /\ Begun(t) \in Nat /\ Begun(t) <= n
        /\ k > 0 => Begun(t) + 1 \in 1..n
        /\ k = 0 => Begun(t) = n
    BY <2>1
  <2> QED BY <2>2 DEF n, k
<1>5. todo[t] = <<>> => Len(todo[t]) = 0
  OBVIOUS
<1> QED BY <1>2, <1>3, <1>4, <1>5

\* The next node, for a thread that loads.
LEMMA HereIs ==
  ASSUME TodoInv, NodesInv, NEW t \in Threads, nodes[t] # <<>>
  PROVE  /\ Begun(t) + 1 \in DOMAIN program[t] /\ todo[t] # <<>>
         /\ IsSeq(Now(t)) /\ Len(Now(t)) \in Nat /\ DOMAIN Now(t) = 1..Len(Now(t))
         /\ Len(nodes[t]) \in Nat /\ DOMAIN nodes[t] = 1..Len(nodes[t]) /\ Len(nodes[t]) > 0
         /\ Here(t) \in DOMAIN Now(t)
         /\ Head(nodes[t]) = Now(t)[Here(t)]
<1>1. At(t, "load") /\ todo[t] # <<>>
  BY DEF NodesInv, At
<1>2. Begun(t) \in Nat /\ Begun(t) + 1 \in DOMAIN program[t]
  BY <1>1, AtIs
<1>3. IsSeq(Now(t))
  BY <1>2, ProgramIs DEF TodoInv, Now
<1>4. /\ IsSeq(nodes[t]) /\ Len(nodes[t]) <= Len(Now(t))
      /\ \A k \in DOMAIN nodes[t] : nodes[t][k] = Now(t)[Here(t) - 1 + k]
  BY DEF NodesInv
<1>5. /\ Len(Now(t)) \in Nat /\ DOMAIN Now(t) = 1..Len(Now(t))
      /\ Len(nodes[t]) \in Nat /\ DOMAIN nodes[t] = 1..Len(nodes[t]) /\ Len(nodes[t]) > 0
  BY <1>3, <1>4, IsSeqDomain
<1>6. Here(t) \in Nat /\ Here(t) \in DOMAIN Now(t)
  BY <1>4, <1>5 DEF Here
<1>7. Head(nodes[t]) = nodes[t][1]
  BY <1>4, TailIs
<1>8. Here(t) - 1 + 1 = Here(t) /\ 1 \in DOMAIN nodes[t]
  BY <1>5, <1>6
<1> QED BY <1>1, <1>2, <1>3, <1>4, <1>5, <1>6, <1>7, <1>8

\* The threads are through with the same nodes as before.
SamePast ==
  \A u \in Threads : \A k \in DOMAIN program[u] : \A m \in DOMAIN Listed(u, k) :
    Past(u, k, m)' <=> Past(u, k, m)

\* Thread t is also through with the node that was its next one.
MovedPast(t) ==
  \A u \in Threads : \A k \in DOMAIN program[u] : \A m \in DOMAIN Listed(u, k) :
    Past(u, k, m)' <=> \/ Past(u, k, m)
                       \/ u = t /\ k = Begun(t) + 1 /\ m = Here(t)

LEMMA ListedSame ==
  ASSUME program' = program, NEW u \in Threads, NEW k
  PROVE  Listed(u, k)' = Listed(u, k)
BY DEF Listed

\* A thread's own place is all that its steps change.
LEMMA OthersPast ==
  ASSUME program' = program, NEW u, todo'[u] = todo[u], nodes'[u] = nodes[u]
  PROVE  /\ Begun(u)' = Begun(u) /\ Now(u)' = Now(u) /\ Here(u)' = Here(u)
         /\ \A c : At(u, c)' <=> At(u, c)
         /\ \A k, m : Past(u, k, m)' <=> Past(u, k, m)
<1>1. Begun(u)' = Begun(u)
  BY DEF Begun
<1>2. Now(u)' = Now(u)
  BY <1>1 DEF Now, Listed
<1>3. Here(u)' = Here(u)
  BY <1>2 DEF Here
<1> QED BY <1>1, <1>2, <1>3 DEF At, Past

LEMMA PlaceSame ==
  ASSUME TodoInv, NodesInv, program' = program, todo' = todo, nodes' = nodes
  PROVE  TodoInv' /\ NodesInv' /\ SamePast
<1>1. \A u \in Threads :
        /\ Begun(u)' = Begun(u) /\ Now(u)' = Now(u) /\ Here(u)' = Here(u)
        /\ At(u, "load")' <=> At(u, "load")
        /\ \A k, m : Past(u, k, m)' <=> Past(u, k, m)
  BY OthersPast
<1>2. TodoInv'
  BY <1>1 DEF TodoInv
<1>3. ASSUME NEW u \in Threads, nodes'[u] # <<>>
      PROVE  /\ At(u, "load")' /\ Len(nodes'[u]) <= Len(Now(u)')
             /\ \A k \in DOMAIN nodes'[u] : nodes'[u][k] = Now(u)'[Here(u)' - 1 + k]
  <2>1. /\ At(u, "load") /\ Len(nodes[u]) <= Len(Now(u))
        /\ \A k \in DOMAIN nodes[u] : nodes[u][k] = Now(u)[Here(u) - 1 + k]
    BY <1>3 DEF NodesInv
  <2> QED BY <1>1, <2>1
<1>4. OfThreads(nodes') /\ \A u \in Threads : IsSeq(nodes'[u])
  BY DEF NodesInv
<1>5. NodesInv'
  BY <1>3, <1>4 DEF NodesInv, OfThreads, IsSeq
<1>6. SamePast
  BY <1>1 DEF SamePast
<1> QED BY <1>2, <1>5, <1>6

LEMMA ReturnedTodo ==
  ASSUME TodoInv, NEW t \in Threads, todo[t] # <<>>, Returned(t), program' = program
  PROVE  TodoInv' /\ Begun(t)' = Begun(t) + 1 /\ \A u \in Threads \ {t} : todo'[u] = todo[u]
<1>1. /\ todo' = [todo EXCEPT ![t] = Tail(todo[t])] /\ OfThreads(todo)
      /\ IsSeq(todo[t]) /\ Len(todo[t]) <= Len(program[t]) /\ IsSeq(program[t])
      /\ \A k \in DOMAIN todo[t] : todo[t][k] = program[t][Begun(t) + k]
  BY ProgramIs DEF TodoInv, Returned
<1>2. /\ OfThreads(todo') /\ todo'[t] = Tail(todo[t]) /\ \A u \in Threads \ {t} : todo'[u] = todo[u]
  BY <1>1 DEF OfThreads
<1>3. /\ IsSeq(Tail(todo[t])) /\ Len(Tail(todo[t])) = Len(todo[t]) - 1
      /\ \A k \in DOMAIN Tail(todo[t]) : Tail(todo[t])[k] = todo[t][k + 1]
  BY <1>1, TailIs
<1>4. /\ Len(todo[t]) \in Nat /\ DOMAIN todo[t] = 1..Len(todo[t]) /\ Len(program[t]) \in Nat
      /\ DOMAIN Tail(todo[t]) = 1..Len(Tail(todo[t]))
  BY <1>1, <1>3, IsSeqDomain
<1>5. Begun(t)' = Begun(t) + 1 /\ Begun(t) \in Nat
  <2>1. Begun(t)' = Len(program[t]) - (Len(todo[t]) - 1)
    BY <1>2, <1>3 DEF Begun
  <2>2. Begun(t) \in Nat
    BY AtIs
  <2>3. Begun(t) = Len(program[t]) - Len(todo[t])
    BY DEF Begun
  <2> QED BY <1>4, <2>1, <2>2, <2>3
<1>6. ASSUME NEW k \in DOMAIN todo'[t]
      PROVE  todo'[t][k] = program'[t][Begun(t)' + k]
  <2>1. k \in Nat /\ k + 1 \in DOMAIN todo[t] /\ todo'[t][k] = todo[t][k + 1]
    BY <1>2, <1>3, <1>4
  <2>2. todo[t][k + 1] = program[t][Begun(t) + (k + 1)]
    BY <1>1, <2>1
  <2>3. Begun(t) + (k + 1) = Begun(t)' + k
    BY <1>5, <2>1
  <2> QED BY <2>1, <2>2, <2>3
<1>7. ASSUME NEW u \in Threads \ {t}
      PROVE  /\ IsSeq(todo'[u]) /\ Len(todo'[u]) <= Len(program'[u])
             /\ \A k \in DOMAIN todo'[u] : todo'[u][k] = program'[u][Begun(u)' + k]
  BY <1>2 DEF TodoInv, Begun
<1>8. /\ IsSeq(todo'[t]) /\ Len(todo'[t]) <= Len(program'[t])
  BY <1>1, <1>2, <1>3, <1>4
<1>9. \A u \in Threads : /\ IsSeq(todo'[u]) /\ Len(todo'[u]) <= Len(program'[u])
                         /\ \A k \in DOMAIN todo'[u] : todo'[u][k] = program'[u][Begun(u)' + k]
  BY <1>6, <1>7, <1>8
<1>10. TodoInv'
  BY <1>2, <1>9 DEF TodoInv, OfThreads, IsSeq
<1> QED BY <1>2, <1>5, <1>10

\* A call that loads nothing returns: no node is listed for it.
LEMMA ReturnedPast ==
  ASSUME TodoInv, NodesInv, NEW t \in Threads, NEW c, At(t, c), c # "load",
         Returned(t), program' = program, nodes' = nodes
  PROVE  TodoInv' /\ NodesInv' /\ SamePast
<1>1. todo[t] # <<>> /\ Head(todo[t]).call # "load" /\ nodes[t] = <<>>
  BY DEF At, NodesInv
<1>2. TodoInv' /\ Begun(t)' = Begun(t) + 1 /\ \A u \in Threads \ {t} : todo'[u] = todo[u]
  BY <1>1, ReturnedTodo
<1>3. \A u \in Threads \ {t} :
        /\ Begun(u)' = Begun(u) /\ Now(u)' = Now(u) /\ Here(u)' = Here(u)
        /\ \A d : At(u, d)' <=> At(u, d)
        /\ \A k, m : Past(u, k, m)' <=> Past(u, k, m)
  BY <1>2, OthersPast
<1>4. NodesInv'
  <2>1. OfThreads(nodes') /\ \A u \in Threads : IsSeq(nodes'[u])
    BY DEF NodesInv
  <2>2. ASSUME NEW u \in Threads, nodes'[u] # <<>>
        PROVE  /\ At(u, "load")' /\ Len(nodes'[u]) <= Len(Now(u)')
               /\ \A k \in DOMAIN nodes'[u] : nodes'[u][k] = Now(u)'[Here(u)' - 1 + k]
    <3>1. u # t /\ nodes'[u] = nodes[u]
      BY <1>1, <2>2
    <3>2. /\ At(u, "load") /\ Len(nodes[u]) <= Len(Now(u))
          /\ \A k \in DOMAIN nodes[u] : nodes[u][k] = Now(u)[Here(u) - 1 + k]
      BY <2>2, <3>1 DEF NodesInv
    <3> QED BY <1>3, <3>1, <3>2
  <2> QED BY <2>1, <2>2 DEF NodesInv, OfThreads, IsSeq
<1>5. ASSUME NEW k \in DOMAIN program[t], NEW m \in DOMAIN Listed(t, k)
      PROVE  Past(t, k, m)' <=> Past(t, k, m)
  <2>1. Begun(t) \in Nat /\ k \in Nat /\ Head(todo[t]) = program[t][Begun(t) + 1]
    BY <1>1, AtIs
  <2>2. ASSUME k = Begun(t) + 1 PROVE FALSE
    <3>1. Listed(t, k) = <<>>
      BY <1>1, <2>1, <2>2 DEF Listed
    <3> QED BY <3>1
  <2>3. /\ Past(t, k, m) <=> k <= Begun(t)
        /\ Past(t, k, m)' <=> k <= Begun(t)'
    BY <1>1 DEF Past
  <2> QED BY <1>2, <2>1, <2>2, <2>3
<1>6. SamePast
  BY <1>3, <1>5 DEF SamePast
<1> QED BY <1>2, <1>4, <1>6

\* LoadFromYaml lists the nodes: the thread is through with none of them.
LEMMA LoadPast ==
  ASSUME TodoInv, NodesInv, NEW t \in Threads, LoadFromYaml(t)
  PROVE  TodoInv' /\ NodesInv' /\ SamePast
<1>1. /\ At(t, "load") /\ todo[t] # <<>> /\ nodes[t] = <<>>
      /\ nodes' = [nodes EXCEPT ![t] = AllNodes(Head(todo[t]).root)]
      /\ program' = program /\ todo' = todo
  BY DEF LoadFromYaml, At
<1>2. /\ Begun(t) \in Nat /\ Begun(t) + 1 \in DOMAIN program[t]
      /\ Head(todo[t]) = program[t][Begun(t) + 1] /\ DOMAIN program[t] = 1..Len(program[t])
  BY <1>1, AtIs
<1>3. /\ Now(t) = AllNodes(Head(todo[t]).root)
      /\ IsSeq(Now(t)) /\ Len(Now(t)) > 0
  BY <1>1, <1>2, ProgramIs DEF Now, Listed, At, TodoInv
<1>4. /\ OfThreads(nodes') /\ nodes'[t] = Now(t) /\ \A u \in Threads \ {t} : nodes'[u] = nodes[u]
  BY <1>1, <1>3 DEF NodesInv, OfThreads
<1>5. \A u \in Threads \ {t} :
        /\ Begun(u)' = Begun(u) /\ Now(u)' = Now(u) /\ Here(u)' = Here(u)
        /\ \A d : At(u, d)' <=> At(u, d)
        /\ \A k, m : Past(u, k, m)' <=> Past(u, k, m)
  BY <1>1, <1>4, OthersPast
<1>6. Begun(t)' = Begun(t) /\ Now(t)' = Now(t) /\ (At(t, "load")' <=> At(t, "load"))
  BY <1>1 DEF Begun, Now, Listed, At
<1>7. Len(Now(t)) \in Nat /\ DOMAIN Now(t) = 1..Len(Now(t))
  BY <1>3, IsSeqDomain
<1>8. Here(t)' = 1
  <2>1. Here(t)' = Len(Now(t)) - Len(Now(t)) + 1
    BY <1>4, <1>6 DEF Here
  <2> QED BY <1>7, <2>1
<1>9. TodoInv'
  BY <1>1 DEF TodoInv, Begun
<1>10. ASSUME NEW u \in Threads
       PROVE  /\ IsSeq(nodes'[u])
              /\ nodes'[u] # <<>> =>
                   /\ At(u, "load")' /\ Len(nodes'[u]) <= Len(Now(u)')
                   /\ \A k \in DOMAIN nodes'[u] : nodes'[u][k] = Now(u)'[Here(u)' - 1 + k]
  <2>1. CASE u = t
    <3>1. \A k \in DOMAIN Now(t) : Now(t)[k] = Now(t)[1 - 1 + k]
      BY <1>7
    <3>2. Len(Now(t)) <= Len(Now(t))
      BY <1>7
    <3> QED BY <1>1, <1>3, <1>4, <1>6, <1>8, <2>1, <3>1, <3>2
  <2>2. CASE u # t
    <3>1. /\ IsSeq(nodes[u])
          /\ nodes[u] # <<>> =>
               /\ At(u, "load") /\ Len(nodes[u]) <= Len(Now(u))
               /\ \A k \in DOMAIN nodes[u] : nodes[u][k] = Now(u)[Here(u) - 1 + k]
      BY DEF NodesInv
    <3> QED BY <1>4, <1>5, <2>2, <3>1
  <2> QED BY <2>1, <2>2
<1>11. NodesInv'
  BY <1>4, <1>10 DEF NodesInv, OfThreads, IsSeq
<1>12. ASSUME NEW k \in DOMAIN program[t], NEW m \in DOMAIN Listed(t, k)
       PROVE  Past(t, k, m)' <=> Past(t, k, m)
  <2>1. k = Begun(t) + 1 => ~(m < 1)
    BY <1>7 DEF Now
  <2>2. Past(t, k, m) <=> k <= Begun(t)
    BY <1>1 DEF Past
  <2>3. Past(t, k, m)' <=> k <= Begun(t) \/ (k = Begun(t) + 1 /\ nodes'[t] # <<>> /\ m < 1)
    BY <1>6, <1>8 DEF Past
  <2> QED BY <2>1, <2>2, <2>3
<1>13. SamePast
  BY <1>5, <1>12 DEF SamePast
<1> QED BY <1>9, <1>11, <1>13

\* The loop goes on, or LoadFromYaml returns: one more node is done with.
LEMMA NextNodePast ==
  ASSUME TodoInv, NodesInv, NEW t \in Threads, nodes[t] # <<>>, NextNode(t), program' = program
  PROVE  TodoInv' /\ NodesInv' /\ MovedPast(t) /\ \A u \in Threads \ {t} : nodes'[u] = nodes[u]
<1>1. /\ nodes' = [nodes EXCEPT ![t] = Tail(nodes[t])] /\ OfThreads(nodes) /\ IsSeq(nodes[t])
      /\ At(t, "load")
      /\ \A k \in DOMAIN nodes[t] : nodes[t][k] = Now(t)[Here(t) - 1 + k]
      /\ Len(nodes[t]) <= Len(Now(t))
  BY DEF NextNode, NodesInv
<1>2. /\ OfThreads(nodes') /\ nodes'[t] = Tail(nodes[t])
      /\ \A u \in Threads \ {t} : nodes'[u] = nodes[u]
  BY <1>1 DEF OfThreads
<1>3. /\ IsSeq(nodes'[t]) /\ Len(nodes'[t]) = Len(nodes[t]) - 1
      /\ \A k \in DOMAIN nodes'[t] : nodes'[t][k] = nodes[t][k + 1]
  <2>1. /\ IsSeq(Tail(nodes[t])) /\ Len(Tail(nodes[t])) = Len(nodes[t]) - 1
        /\ \A k \in DOMAIN Tail(nodes[t]) : Tail(nodes[t])[k] = nodes[t][k + 1]
    BY <1>1, TailIs
  <2> QED BY <1>2, <2>1
<1>4. /\ todo[t] # <<>> /\ Len(Now(t)) \in Nat /\ DOMAIN Now(t) = 1..Len(Now(t))
      /\ Len(nodes[t]) \in Nat /\ DOMAIN nodes[t] = 1..Len(nodes[t]) /\ Len(nodes[t]) > 0
      /\ Here(t) \in DOMAIN Now(t) /\ Here(t) \in Nat
  BY HereIs
<1>5. Begun(t) \in Nat /\ DOMAIN program[t] = 1..Len(program[t]) /\ Len(program[t]) \in Nat
  BY AtIs
<1>6. Here(t) = Len(Now(t)) - Len(nodes[t]) + 1
  BY DEF Here
<1>7. /\ DOMAIN nodes'[t] = 1..Len(nodes'[t])
      /\ nodes'[t] # <<>> <=> Len(nodes'[t]) > 0
  BY <1>3, IsSeqDomain
<1>8. /\ Len(nodes[t]) = 1 => Len(nodes'[t]) = 0 /\ Here(t) = Len(Now(t))
      /\ Len(nodes[t]) # 1 => Len(nodes'[t]) > 0
  <2> DEFINE n == Len(nodes[t])
             l == Len(Now(t))
  <2>1. n \in Nat /\ n > 0 /\ l \in Nat /\ Len(nodes'[t]) = n - 1 /\ Here(t) = l - n + 1
    BY <1>3, <1>4, <1>6
  <2> HIDE DEF n, l
  <2>2. /\ n = 1 => Len(nodes'[t]) = 0 /\ Here(t) = l
        /\ n # 1 => Len(nodes'[t]) > 0
    BY <2>1
  <2> QED BY <2>2 DEF n, l
<1>9. CASE Len(nodes[t]) = 1
  <2>1. Returned(t) /\ nodes'[t] = <<>> /\ Here(t) = Len(Now(t))
    <3>1. ~(Len(nodes'[t]) > 0) /\ Here(t) = Len(Now(t))
      BY <1>8, <1>9
    <3> QED BY <1>7, <1>9, <3>1 DEF NextNode
  <2>2. TodoInv' /\ Begun(t)' = Begun(t) + 1 /\ \A u \in Threads \ {t} : todo'[u] = todo[u]
    BY <1>4, <2>1, ReturnedTodo
  <2>3. \A u \in Threads \ {t} :
          /\ Begun(u)' = Begun(u) /\ Now(u)' = Now(u) /\ Here(u)' = Here(u)
          /\ \A d : At(u, d)' <=> At(u, d)
          /\ \A k, m : Past(u, k, m)' <=> Past(u, k, m)
    BY <1>2, <2>2, OthersPast
  <2>4. ASSUME NEW u \in Threads
        PROVE  /\ IsSeq(nodes'[u])
               /\ nodes'[u] # <<>> =>
                    /\ At(u, "load")' /\ Len(nodes'[u]) <= Len(Now(u)')
                    /\ \A k \in DOMAIN nodes'[u] : nodes'[u][k] = Now(u)'[Here(u)' - 1 + k]
    <3>1. /\ IsSeq(nodes[u])
          /\ nodes[u] # <<>> =>
               /\ At(u, "load") /\ Len(nodes[u]) <= Len(Now(u))
               /\ \A k \in DOMAIN nodes[u] : nodes[u][k] = Now(u)[Here(u) - 1 + k]
      BY DEF NodesInv
    <3> QED BY <1>2, <1>3, <2>1, <2>3, <3>1
  <2>5. NodesInv'
    BY <1>2, <2>4 DEF NodesInv, OfThreads, IsSeq
  <2>6. ASSUME NEW k \in DOMAIN program[t], NEW m \in DOMAIN Listed(t, k)
        PROVE  Past(t, k, m)' <=> Past(t, k, m) \/ (k = Begun(t) + 1 /\ m = Here(t))
    <3>1. Past(t, k, m) <=> k <= Begun(t) \/ (k = Begun(t) + 1 /\ m < Here(t))
      BY DEF Past
    <3>2. Past(t, k, m)' <=> k <= Begun(t) + 1
      BY <2>1, <2>2 DEF Past
    <3>3. k = Begun(t) + 1 => m \in Nat /\ m <= Here(t)
      BY <1>4, <2>1 DEF Now
    <3>4. k <= Begun(t) + 1 <=> k <= Begun(t) \/ k = Begun(t) + 1
      BY <1>5
    <3>5. k = Begun(t) + 1 => m < Here(t) \/ m = Here(t)
      BY <1>4, <3>3
    <3> QED BY <3>1, <3>2, <3>4, <3>5
  <2>7. MovedPast(t)
    BY <2>3, <2>6 DEF MovedPast
  <2> QED BY <1>2, <2>2, <2>5, <2>7
<1>10. CASE Len(nodes[t]) # 1
  <2>1. todo' = todo /\ nodes'[t] # <<>>
    BY <1>7, <1>8, <1>10 DEF NextNode
  <2>2. TodoInv' /\ Begun(t)' = Begun(t) /\ Now(t)' = Now(t) /\ At(t, "load")'
    BY <1>1, <2>1 DEF TodoInv, Begun, Now, Listed, At
  <2>3. \A u \in Threads \ {t} :
          /\ Begun(u)' = Begun(u) /\ Now(u)' = Now(u) /\ Here(u)' = Here(u)
          /\ \A d : At(u, d)' <=> At(u, d)
          /\ \A k, m : Past(u, k, m)' <=> Past(u, k, m)
    BY <1>2, <2>1, OthersPast
  <2>4. Here(t)' = Here(t) + 1
    <3>1. Here(t)' = Len(Now(t)) - (Len(nodes[t]) - 1) + 1
      BY <1>3, <2>2 DEF Here
    <3> QED BY <1>4, <1>6, <3>1
  <2>5. /\ Len(nodes'[t]) <= Len(Now(t)')
        /\ \A k \in DOMAIN nodes'[t] : nodes'[t][k] = Now(t)'[Here(t)' - 1 + k]
    <3>1. Len(nodes'[t]) <= Len(Now(t)')
      BY <1>1, <1>3, <1>4, <2>2
    <3>2. ASSUME NEW k \in DOMAIN nodes'[t]
          PROVE  nodes'[t][k] = Now(t)'[Here(t)' - 1 + k]
      <4>1. k \in Nat /\ k + 1 \in DOMAIN nodes[t]
        BY <1>3, <1>4, <1>7
      <4>2. nodes'[t][k] = Now(t)[Here(t) - 1 + (k + 1)]
        BY <1>1, <1>3, <4>1
      <4>3. Here(t) - 1 + (k + 1) = Here(t)' - 1 + k
        BY <1>4, <2>4, <4>1
      <4> QED BY <2>2, <4>2, <4>3
    <3> QED BY <3>1, <3>2
  <2>6. ASSUME NEW u \in Threads
        PROVE  /\ IsSeq(nodes'[u])
               /\ nodes'[u] # <<>> =>
                    /\ At(u, "load")' /\ Len(nodes'[u]) <= Len(Now(u)')
                    /\ \A k \in DOMAIN nodes'[u] : nodes'[u][k] = Now(u)'[Here(u)' - 1 + k]
    <3>1. CASE u = t
      BY <1>3, <2>2, <2>5, <3>1
    <3>2. CASE u # t
      <4>1. /\ IsSeq(nodes[u])
            /\ nodes[u] # <<>> =>
                 /\ At(u, "load") /\ Len(nodes[u]) <= Len(Now(u))
                 /\ \A k \in DOMAIN nodes[u] : nodes[u][k] = Now(u)[Here(u) - 1 + k]
        BY DEF NodesInv
      <4> QED BY <1>2, <2>3, <3>2, <4>1
    <3> QED BY <3>1, <3>2
  <2>7. NodesInv'
    BY <1>2, <2>6 DEF NodesInv, OfThreads, IsSeq
  <2>8. ASSUME NEW k \in DOMAIN program[t], NEW m \in DOMAIN Listed(t, k)
        PROVE  Past(t, k, m)' <=> Past(t, k, m) \/ (k = Begun(t) + 1 /\ m = Here(t))
    <3>1. Past(t, k, m) <=> k <= Begun(t) \/ (k = Begun(t) + 1 /\ m < Here(t))
      BY DEF Past
    <3>2. Past(t, k, m)' <=> k <= Begun(t) \/ (k = Begun(t) + 1 /\ m < Here(t) + 1)
      BY <2>1, <2>2, <2>4 DEF Past
    <3>3. k = Begun(t) + 1 => m \in Nat
      BY <1>4 DEF Now
    <3>4. k = Begun(t) + 1 => (m < Here(t) + 1 <=> m < Here(t) \/ m = Here(t))
      BY <1>4, <3>3
    <3> QED BY <3>1, <3>2, <3>4
  <2>9. MovedPast(t)
    BY <2>3, <2>8 DEF MovedPast
  <2> QED BY <1>2, <2>2, <2>7, <2>9
<1> QED BY <1>9, <1>10

----------------------------------------------------------------------------
(* The values of the variables *)

\* Which nodes are for a variable depends on its name and type only.
LEMMA GivesSame ==
  ASSUME program' = program, NEW x,
         objects'[x].name = objects[x].name, objects'[x].type = objects[x].type,
         NEW u \in Threads, NEW k, NEW m
  PROVE  Gives(u, k, m, objects[x])' <=> Gives(u, k, m, objects[x])
BY DEF Gives, Listed

\* Steps that are through with no further node, and at most register variables.
LEMMA HoldsSame ==
  ASSUME program' = program, SamePast, Extended,
         \A x \in DOMAIN objects : Holds(x)
  PROVE  \A x \in DOMAIN objects' : Holds(x)'
<1>1. SUFFICES ASSUME NEW x \in DOMAIN objects' PROVE Holds(x)'
  OBVIOUS
<1>2. \A u \in Threads : \A k : Listed(u, k)' = Listed(u, k)
  BY ListedSame
<1>3. CASE x \in DOMAIN objects
  <2> DEFINE v == objects[x]
  <2>1. objects'[x] = v /\ Holds(x)
    BY <1>3 DEF Extended
  <2>2. \A u \in Threads : \A k, m : Gives(u, k, m, objects[x])' <=> Gives(u, k, m, v)
    BY <2>1, GivesSame
  <2>3. IsDefault(v) => IsDefault(objects[x])'
    BY <2>1 DEF IsDefault
  <2>4. CASE \E t \in Threads : \E i \in DOMAIN program[t] : \E j \in DOMAIN Listed(t, i) :
               LastPast(t, i, j, v) /\ v.mVal \in Casts(v.type, Listed(t, i)[j].node)
    <3>1. PICK t \in Threads : \E i \in DOMAIN program[t] : \E j \in DOMAIN Listed(t, i) :
            LastPast(t, i, j, v) /\ v.mVal \in Casts(v.type, Listed(t, i)[j].node)
      BY <2>4
    <3>2. PICK i \in DOMAIN program[t] : \E j \in DOMAIN Listed(t, i) :
            LastPast(t, i, j, v) /\ v.mVal \in Casts(v.type, Listed(t, i)[j].node)
      BY <3>1
    <3>3. PICK j \in DOMAIN Listed(t, i) :
            LastPast(t, i, j, v) /\ v.mVal \in Casts(v.type, Listed(t, i)[j].node)
      BY <3>2
    <3>4. LastPast(t, i, j, objects[x])'
      BY <1>2, <2>1, <2>2, <3>3 DEF LastPast, SamePast
    <3>5. objects'[x].mVal \in Casts(objects'[x].type, Listed(t, i)'[j].node)
      BY <1>2, <2>1, <3>3
    <3>6. i \in DOMAIN program'[t] /\ j \in DOMAIN Listed(t, i)'
      BY <1>2
    <3> QED BY <3>4, <3>5, <3>6 DEF Holds
  <2>5. CASE /\ \/ x > Len(Statics)
                \/ \A t \in Threads : \A i \in DOMAIN program[t] : \A j \in DOMAIN Listed(t, i) :
                     Past(t, i, j) => ~Gives(t, i, j, v)
             /\ IsDefault(v)
    <3>1. \/ x > Len(Statics)
          \/ \A t \in Threads : \A i \in DOMAIN program'[t] : \A j \in DOMAIN Listed(t, i)' :
               Past(t, i, j)' => ~Gives(t, i, j, objects[x])'
      BY <1>2, <2>2, <2>5 DEF SamePast
    <3> QED BY <2>3, <2>5, <3>1 DEF Holds
  <2> QED BY <2>1, <2>4, <2>5 DEF Holds
<1>4. CASE x \notin DOMAIN objects
  <2>1. x > Len(Statics) /\ IsDefault(objects[x])'
    BY <1>4 DEF Extended, IsDefault
  <2> QED BY <2>1 DEF Holds
<1> QED BY <1>3, <1>4

\* A thread is through with a node: the variable that it is for has its value, and
\* any other keeps its own.
LEMMA HoldsMoved ==
  ASSUME TodoInv, NodesInv, NEW t \in Threads, nodes[t] # <<>>, program' = program,
         MovedPast(t), NEW x, Holds(x),
         objects'[x].name = objects[x].name, objects'[x].type = objects[x].type,
         \/ objects'[x] = objects[x] /\ ~Gives(t, Begun(t) + 1, Here(t), objects[x])
         \/ /\ Gives(t, Begun(t) + 1, Here(t), objects[x])
            /\ objects'[x].mVal \in Casts(objects[x].type, Head(nodes[t]).node)
  PROVE  Holds(x)'
<1> DEFINE v == objects[x]
<1>0. PICK b, h : b = Begun(t) + 1 /\ h = Here(t)
  OBVIOUS
<1>1. \A u \in Threads : \A k : Listed(u, k)' = Listed(u, k)
  BY ListedSame
<1>2. \A u \in Threads : \A k, m : Gives(u, k, m, objects[x])' <=> Gives(u, k, m, v)
  BY GivesSame
<1>3. /\ b \in DOMAIN program[t] /\ h \in DOMAIN Listed(t, b)
      /\ Head(nodes[t]) = Listed(t, b)[h] /\ h \in Nat
  BY <1>0, HereIs DEF Now
<1>4. Begun(t) \in Nat /\ b = Begun(t) + 1 /\ DOMAIN program[t] = 1..Len(program[t])
  BY <1>0, AtIs
<1>5. \A u \in Threads : \A k \in DOMAIN program[u] : \A m \in DOMAIN Listed(u, k) :
        Past(u, k, m)' <=> \/ Past(u, k, m)
                           \/ u = t /\ k = b /\ m = h
  BY <1>0 DEF MovedPast
<1>6. \A k \in DOMAIN program[t] : \A m \in DOMAIN Listed(t, k) :
        Past(t, k, m) => k < b \/ (k = b /\ m < h)
  BY <1>0, <1>4 DEF Past
<1>7. CASE Gives(t, b, h, v)
  <2>1. objects'[x].mVal \in Casts(objects'[x].type, Listed(t, b)'[h].node)
    BY <1>0, <1>1, <1>3, <1>7
  <2>2. Past(t, b, h)' /\ Gives(t, b, h, objects[x])'
    BY <1>2, <1>3, <1>5, <1>7
  <2>3. ASSUME NEW k \in DOMAIN program[t], NEW m \in DOMAIN Listed(t, k), Past(t, k, m)'
        PROVE  k < b \/ (k = b /\ m <= h)
    <3>1. CASE Past(t, k, m)
      <4>1. k < b \/ (k = b /\ m < h)
        BY <1>6, <3>1
      <4>2. CASE k = b
        <5>1. IsSeq(Listed(t, k))
          BY ProgramIs DEF TodoInv
        <5>2. m \in Nat
          BY <5>1, IsSeqDomain
        <5> QED BY <1>3, <4>1, <4>2, <5>2
      <4> QED BY <4>1, <4>2
    <3>2. CASE k = b /\ m = h
      BY <1>3, <3>2
    <3> QED BY <1>5, <2>3, <3>1, <3>2
  <2>4. LastPast(t, b, h, objects[x])'
    BY <1>1, <2>2, <2>3 DEF LastPast
  <2>5. b \in DOMAIN program'[t] /\ h \in DOMAIN Listed(t, b)'
    BY <1>1, <1>3
  <2> QED BY <2>1, <2>4, <2>5 DEF Holds
<1>8. CASE ~Gives(t, b, h, v)
  <2>1. objects'[x] = v
    BY <1>0, <1>8
  <2>2. \A u \in Threads : \A k \in DOMAIN program[u] : \A m \in DOMAIN Listed(u, k) :
          Past(u, k, m)' /\ Gives(u, k, m, objects[x])' <=> Past(u, k, m) /\ Gives(u, k, m, v)
    BY <1>2, <1>5, <1>8
  <2>3. IsDefault(v) => IsDefault(objects[x])'
    BY <2>1 DEF IsDefault
  <2>4. CASE \E u \in Threads : \E i \in DOMAIN program[u] : \E j \in DOMAIN Listed(u, i) :
               LastPast(u, i, j, v) /\ v.mVal \in Casts(v.type, Listed(u, i)[j].node)
    <3>1. PICK u \in Threads : \E i \in DOMAIN program[u] : \E j \in DOMAIN Listed(u, i) :
            LastPast(u, i, j, v) /\ v.mVal \in Casts(v.type, Listed(u, i)[j].node)
      BY <2>4
    <3>2. PICK i \in DOMAIN program[u] : \E j \in DOMAIN Listed(u, i) :
            LastPast(u, i, j, v) /\ v.mVal \in Casts(v.type, Listed(u, i)[j].node)
      BY <3>1
    <3>3. PICK j \in DOMAIN Listed(u, i) :
            LastPast(u, i, j, v) /\ v.mVal \in Casts(v.type, Listed(u, i)[j].node)
      BY <3>2
    <3>4. Past(u, i, j)' /\ Gives(u, i, j, objects[x])'
      BY <2>2, <3>3 DEF LastPast
    <3>5. \A k \in DOMAIN program'[u] : \A m \in DOMAIN Listed(u, k)' :
            Past(u, k, m)' /\ Gives(u, k, m, objects[x])' => k < i \/ (k = i /\ m <= j)
      BY <1>1, <2>2, <3>3 DEF LastPast
    <3>6. LastPast(u, i, j, objects[x])'
      BY <3>4, <3>5 DEF LastPast
    <3>7. objects'[x].mVal \in Casts(objects'[x].type, Listed(u, i)'[j].node)
      BY <1>1, <2>1, <3>3
    <3>8. i \in DOMAIN program'[u] /\ j \in DOMAIN Listed(u, i)'
      BY <1>1
    <3> QED BY <3>6, <3>7, <3>8 DEF Holds
  <2>5. CASE /\ \/ x > Len(Statics)
                \/ \A u \in Threads : \A i \in DOMAIN program[u] : \A j \in DOMAIN Listed(u, i) :
                     Past(u, i, j) => ~Gives(u, i, j, v)
             /\ IsDefault(v)
    <3>1. \/ x > Len(Statics)
          \/ \A u \in Threads : \A i \in DOMAIN program'[u] : \A j \in DOMAIN Listed(u, i)' :
               Past(u, i, j)' => ~Gives(u, i, j, objects[x])'
      BY <1>1, <2>2, <2>5
    <3> QED BY <2>3, <2>5, <3>1 DEF Holds
  <2> QED BY <2>4, <2>5 DEF Holds
<1> QED BY <1>7, <1>8

----------------------------------------------------------------------------
(* FromString *)

LEMMA HereGives ==
  ASSUME TodoInv, NodesInv, NEW t \in Threads, nodes[t] # <<>>, NEW v
  PROVE  Gives(t, Begun(t) + 1, Here(t), v) <=>
           /\ v.name # <<>> /\ Lowered(Head(nodes[t]).name) = v.name
           /\ Casts(v.type, Head(nodes[t]).node) # {}
<1>1. Head(nodes[t]) = Listed(t, Begun(t) + 1)[Here(t)]
  BY HereIs DEF Now
<1> QED BY <1>1 DEF Gives

\* No variable goes away or has another name or type.
Kept ==
  \A x \in DOMAIN objects : /\ x \in DOMAIN objects'
                            /\ objects'[x].name = objects[x].name
                            /\ objects'[x].type = objects[x].type

LEMMA ExtendedKept == Extended => Kept
BY DEF Extended, Kept

\* Who is between the comparison and the assignment stays there, at its node.
LEMMA SettingKept ==
  ASSUME SettingInv, Kept, OfThreads(setting'),
         \A u \in Threads :
           \/ setting'[u] = Idle
           \/ /\ IsSetting(setting'[u])
              /\ setting'[u].var = setting[u].var /\ setting'[u].new = setting[u].new
              /\ setting'[u].calls \in {setting[u].calls, <<>>}
              /\ setting[u].var # Nobody => nodes'[u] = nodes[u]
  PROVE  SettingInv'
<1>1. ASSUME NEW u \in Threads
      PROVE  /\ IsSetting(setting'[u])
             /\ \/ setting'[u].calls = <<>>
                \/ \E k \in DOMAIN Reacts : setting'[u].calls = <<Reacts[k]>>
             /\ setting'[u].var # Nobody =>
                  /\ nodes'[u] # <<>> /\ setting'[u].var \in DOMAIN objects'
                  /\ Lowered(Head(nodes'[u]).name) # <<>>
                  /\ objects'[setting'[u].var].name = Lowered(Head(nodes'[u]).name)
                  /\ setting'[u].new \subseteq Casts(objects'[setting'[u].var].type, Head(nodes'[u]).node)
  <2>1. CASE setting'[u] = Idle
    BY <2>1 DEF Idle, IsSetting
  <2>2. CASE setting'[u] # Idle
    <3>1. /\ IsSetting(setting'[u])
          /\ setting'[u].var = setting[u].var /\ setting'[u].new = setting[u].new
          /\ setting'[u].calls \in {setting[u].calls, <<>>}
          /\ setting[u].var # Nobody => nodes'[u] = nodes[u]
      BY <2>2
    <3>2. /\ setting[u].calls = <<>> \/ \E k \in DOMAIN Reacts : setting[u].calls = <<Reacts[k]>>
          /\ setting[u].var # Nobody =>
               /\ nodes[u] # <<>> /\ setting[u].var \in DOMAIN objects
               /\ Lowered(Head(nodes[u]).name) # <<>>
               /\ objects[setting[u].var].name = Lowered(Head(nodes[u]).name)
               /\ setting[u].new \subseteq Casts(objects[setting[u].var].type, Head(nodes[u]).node)
      BY DEF SettingInv
    <3>3. \/ setting'[u].calls = <<>>
          \/ \E k \in DOMAIN Reacts : setting'[u].calls = <<Reacts[k]>>
      BY <3>1, <3>2
    <3>4. setting'[u].var # Nobody =>
            /\ nodes'[u] # <<>> /\ setting'[u].var \in DOMAIN objects'
            /\ Lowered(Head(nodes'[u]).name) # <<>>
            /\ objects'[setting'[u].var].name = Lowered(Head(nodes'[u]).name)
            /\ setting'[u].new \subseteq Casts(objects'[setting'[u].var].type, Head(nodes'[u]).node)
      BY <3>1, <3>2 DEF Kept
    <3> QED BY <3>1, <3>3, <3>4
  <2> QED BY <2>1, <2>2
<1> QED BY <1>1 DEF SettingInv, OfThreads, IsSetting, Lowered, Nobody

\* The comparison: the node is for no variable, or its value is already there, or
\* the thread goes on to the assignment.
LEMMA FromStringKeeps ==
  ASSUME ConfigInv, NEW t \in Threads, FromString(t)
  PROVE  ConfigInv'
<1>0. RegInv /\ HandlesInv /\ TodoInv /\ NodesInv /\ SettingInv /\ \A x \in DOMAIN objects : Holds(x)
  BY DEF ConfigInv
<1>1. /\ nodes[t] # <<>> /\ setting[t].var = Nobody
      /\ mDatas' = mDatas /\ objects' = objects /\ program' = program /\ handles' = handles
  BY DEF FromString
<1>2. RegInv' /\ HandlesInv' /\ Extended /\ Kept
  BY <1>0, <1>1 DEF RegInv, HandlesInv, Extended, Kept
<1>3. Len(objects) \in Nat /\ DOMAIN objects = 1..Len(objects)
  BY <1>0, IsSeqDomain DEF RegInv
<1> DEFINE n   == Head(nodes[t])
           key == Lowered(n.name)
           z   == IF key = <<>> THEN Nobody ELSE LookUpBase(key)
           new == Casts(objects[z].type, n.node) \ {objects[z].mVal}
<1>4. z # Nobody => key # <<>> /\ key \in DOMAIN mDatas /\ z = mDatas[key]
  BY DEF LookUpBase
<1>5. \A x \in DOMAIN objects :
        Gives(t, Begun(t) + 1, Here(t), objects[x]) => z = x /\ Casts(objects[x].type, n.node) # {}
  <2>1. SUFFICES ASSUME NEW x \in DOMAIN objects, Gives(t, Begun(t) + 1, Here(t), objects[x])
                 PROVE  z = x /\ Casts(objects[x].type, n.node) # {}
    OBVIOUS
  <2>2. /\ objects[x].name # <<>> /\ key = objects[x].name
        /\ Casts(objects[x].type, n.node) # {}
    BY <1>0, <1>1, <2>1, HereGives
  <2>3. key \in DOMAIN mDatas /\ mDatas[key] = x
    BY <1>0, <2>2 DEF RegInv
  <2> QED BY <2>2, <2>3 DEF LookUpBase
<1>6. z # Nobody => z \in DOMAIN objects /\ objects[z].name = key
  BY <1>0, <1>4 DEF RegInv
<1>7. \/ z = Nobody /\ NextNode(t) /\ setting' = setting
      \/ z # Nobody /\ new = {} /\ NextNode(t) /\ setting' = setting
      \/ /\ z # Nobody /\ new # {} /\ nodes' = nodes /\ todo' = todo
         /\ setting' = [setting EXCEPT ![t] =
              [var |-> z, new |-> new,
               calls |-> IF key \in DOMAIN Reacts THEN <<Reacts[key]>> ELSE <<>>]]
  BY DEF FromString
<1>8. CASE NextNode(t) /\ setting' = setting /\ (z = Nobody \/ new = {})
  <2>1. TodoInv' /\ NodesInv' /\ MovedPast(t) /\ \A u \in Threads \ {t} : nodes'[u] = nodes[u]
    BY <1>0, <1>1, <1>8, NextNodePast
  <2>2. SettingInv'
    <3>1. OfThreads(setting') /\ \A u \in Threads : IsSetting(setting'[u])
      BY <1>0, <1>8 DEF SettingInv
    <3> QED BY <1>0, <1>1, <1>2, <1>8, <2>1, <3>1, SettingKept
  <2>3. ASSUME NEW x \in DOMAIN objects' PROVE Holds(x)'
    <3>1. x \in DOMAIN objects /\ objects'[x] = objects[x] /\ Holds(x)
      BY <1>0, <1>1
    <3>2. ASSUME Gives(t, Begun(t) + 1, Here(t), objects[x])
          PROVE  objects'[x].mVal \in Casts(objects[x].type, Head(nodes[t]).node)
      <4>1. z = x /\ Casts(objects[x].type, n.node) # {}
        BY <1>5, <3>1, <3>2
      <4>2. z # Nobody
        BY <1>3, <3>1, <4>1 DEF Nobody
      <4>3. Casts(objects[x].type, n.node) \ {objects[x].mVal} = {}
        BY <1>8, <4>1, <4>2
      <4> HIDE DEF z, n
      <4>4. objects[x].mVal \in Casts(objects[x].type, n.node)
        BY <4>1, <4>3
      <4> QED BY <3>1, <4>4 DEF n
    <3> HIDE DEF z, n, key, new
    <3> QED BY <1>0, <1>1, <2>1, <3>1, <3>2, HoldsMoved
  <2> QED BY <1>2, <2>1, <2>2, <2>3 DEF ConfigInv
<1>9. CASE /\ z # Nobody /\ new # {} /\ nodes' = nodes /\ todo' = todo
           /\ setting' = [setting EXCEPT ![t] =
                [var |-> z, new |-> new,
                 calls |-> IF key \in DOMAIN Reacts THEN <<Reacts[key]>> ELSE <<>>]]
  <2>1. TodoInv' /\ NodesInv' /\ SamePast
    BY <1>0, <1>1, <1>9, PlaceSame
  <2>2. \A x \in DOMAIN objects' : Holds(x)'
    BY <1>0, <1>1, <1>2, <2>1, HoldsSame
  <2>3. z \in DOMAIN objects /\ objects[z].name = key /\ key # <<>>
    BY <1>4, <1>6, <1>9
  <2>4. new \subseteq Casts(objects[z].type, n.node)
    OBVIOUS
  <2>5. key = Lowered(Head(nodes[t]).name) /\ n = Head(nodes[t])
    OBVIOUS
  <2> HIDE DEF z, n, key, new
  <2> DEFINE s == [var |-> z, new |-> new,
                   calls |-> IF key \in DOMAIN Reacts THEN <<Reacts[key]>> ELSE <<>>]
  <2>6. /\ IsSetting(s) /\ s.var = z /\ s.new = new
        /\ s.calls = <<>> \/ \E k \in DOMAIN Reacts : s.calls = <<Reacts[k]>>
    BY DEF IsSetting
  <2>7. OfThreads(setting') /\ setting'[t] = s /\ \A u \in Threads \ {t} : setting'[u] = setting[u]
    BY <1>0, <1>9 DEF SettingInv, OfThreads
  <2> HIDE DEF s
  <2>8. ASSUME NEW u \in Threads
        PROVE  /\ IsSetting(setting'[u])
               /\ \/ setting'[u].calls = <<>>
                  \/ \E k \in DOMAIN Reacts : setting'[u].calls = <<Reacts[k]>>
               /\ setting'[u].var # Nobody =>
                    /\ nodes[u] # <<>> /\ setting'[u].var \in DOMAIN objects
                    /\ Lowered(Head(nodes[u]).name) # <<>>
                    /\ objects[setting'[u].var].name = Lowered(Head(nodes[u]).name)
                    /\ setting'[u].new \subseteq Casts(objects[setting'[u].var].type, Head(nodes[u]).node)
    <3>1. CASE u = t
      BY <1>1, <2>3, <2>4, <2>5, <2>6, <2>7, <3>1
    <3>2. CASE u # t
      <4>1. setting'[u] = setting[u]
        BY <2>7, <3>2
      <4> QED BY <1>0, <4>1 DEF SettingInv
    <3> QED BY <3>1, <3>2
  <2>9. SettingInv'
    BY <1>1, <1>9, <2>7, <2>8 DEF SettingInv, OfThreads, IsSetting, Lowered, Nobody
  <2> QED BY <1>2, <2>1, <2>2, <2>9 DEF ConfigInv
<1> HIDE DEF z, n, key, new
<1> QED BY <1>7, <1>8, <1>9

\* The assignment: the variable takes the node's value, and no other changes.
LEMMA AssignKeeps ==
  ASSUME ConfigInv, NEW t \in Threads, Assign(t)
  PROVE  ConfigInv'
<1>0. RegInv /\ HandlesInv /\ TodoInv /\ NodesInv /\ SettingInv /\ \A x \in DOMAIN objects : Holds(x)
  BY DEF ConfigInv
<1>1. PICK z : z = setting[t].var
  OBVIOUS
<1>2. /\ z # Nobody /\ setting' = [setting EXCEPT ![t] = Idle] /\ NextNode(t)
      /\ mDatas' = mDatas /\ program' = program /\ handles' = handles
  BY <1>1 DEF Assign
<1>3. PICK val \in setting[t].new : objects' = [objects EXCEPT ![z].mVal = val]
  BY <1>1 DEF Assign
<1>4. /\ nodes[t] # <<>> /\ z \in DOMAIN objects
      /\ Lowered(Head(nodes[t]).name) # <<>>
      /\ objects[z].name = Lowered(Head(nodes[t]).name)
      /\ val \in Casts(objects[z].type, Head(nodes[t]).node)
  BY <1>0, <1>1, <1>2, <1>3 DEF SettingInv
<1> DEFINE w == [objects[z] EXCEPT !.mVal = val]
<1>5. IsSeq(objects) /\ IsVar(objects[z])
  BY <1>0, <1>4 DEF RegInv
<1>6. IsVar(w) /\ w.name = objects[z].name /\ w.type = objects[z].type /\ w.mVal = val
  BY <1>5 DEF IsVar
<1>7. objects' = [objects EXCEPT ![z] = w]
  BY <1>3
<1> HIDE DEF w
<1>8. /\ IsSeq(objects') /\ Len(objects') = Len(objects) /\ DOMAIN objects' = DOMAIN objects
      /\ objects'[z] = w /\ \A y \in DOMAIN objects : y # z => objects'[y] = objects[y]
  <2> DEFINE r == [objects EXCEPT ![z] = w]
  <2>1. /\ IsSeq(r) /\ Len(r) = Len(objects) /\ DOMAIN r = DOMAIN objects
        /\ r[z] = w /\ \A y \in DOMAIN objects : y # z => r[y] = objects[y]
    BY <1>4, <1>5, ReplaceIs
  <2> HIDE DEF r
  <2>2. objects' = r
    BY <1>7 DEF r
  <2> QED BY <2>1, <2>2
<1>9. Kept
  BY <1>6, <1>8 DEF Kept
<1>10. RegInv'
  <2>1. \A x \in DOMAIN objects' : /\ IsVar(objects'[x])
                                   /\ objects'[x].name \in DOMAIN mDatas'
                                   /\ mDatas'[objects'[x].name] = x
    BY <1>0, <1>2, <1>4, <1>6, <1>8 DEF RegInv
  <2>2. \A n \in DOMAIN mDatas' : mDatas'[n] \in DOMAIN objects' /\ objects'[mDatas'[n]].name = n
    BY <1>0, <1>2, <1>8, <1>9 DEF RegInv, Kept
  <2> QED BY <1>0, <1>8, <2>1, <2>2 DEF RegInv, IsVar
<1>11. HandlesInv'
  BY <1>0, <1>2, <1>9 DEF HandlesInv, RegInv, Kept
<1>12. TodoInv' /\ NodesInv' /\ MovedPast(t) /\ \A u \in Threads \ {t} : nodes'[u] = nodes[u]
  BY <1>0, <1>2, <1>4, NextNodePast
<1>13. SettingInv'
  <2>1. /\ OfThreads(setting') /\ setting'[t] = Idle
        /\ \A u \in Threads \ {t} : setting'[u] = setting[u] /\ IsSetting(setting[u])
    BY <1>0, <1>2 DEF SettingInv, OfThreads
  <2> QED BY <1>0, <1>9, <1>12, <2>1, SettingKept
<1>14. ASSUME NEW x \in DOMAIN objects' PROVE Holds(x)'
  <2>1. /\ x \in DOMAIN objects /\ Holds(x)
        /\ objects'[x].name = objects[x].name /\ objects'[x].type = objects[x].type
    BY <1>0, <1>8, <1>9 DEF Kept
  <2>2. CASE x = z
    <3>1. Gives(t, Begun(t) + 1, Here(t), objects[x])
      BY <1>0, <1>4, <2>2, HereGives
    <3>2. objects'[x].mVal \in Casts(objects[x].type, Head(nodes[t]).node)
      BY <1>4, <1>6, <1>8, <2>2
    <3> QED BY <1>0, <1>2, <1>4, <1>12, <2>1, <3>1, <3>2, HoldsMoved
  <2>3. CASE x # z
    <3>1. objects[x].name # objects[z].name
      BY <1>0, <1>4, <2>1, <2>3 DEF RegInv
    <3>2. ~Gives(t, Begun(t) + 1, Here(t), objects[x]) /\ objects'[x] = objects[x]
      BY <1>0, <1>4, <1>8, <2>1, <2>3, <3>1, HereGives
    <3> QED BY <1>0, <1>2, <1>4, <1>12, <2>1, <3>2, HoldsMoved
  <2> QED BY <2>2, <2>3
<1> QED BY <1>10, <1>11, <1>12, <1>13, <1>14 DEF ConfigInv

\* Steps that only register, and leave the loads where they are.
LEMMA OthersKeep ==
  ASSUME ConfigInv, program' = program, Extended, RegInv', HandlesInv',
         TodoInv', NodesInv', SamePast,
         setting' = setting, \A u \in Threads : setting[u].var # Nobody => nodes'[u] = nodes[u]
  PROVE  ConfigInv'
<1>0. SettingInv /\ \A x \in DOMAIN objects : Holds(x)
  BY DEF ConfigInv
<1>1. \A x \in DOMAIN objects' : Holds(x)'
  BY <1>0, HoldsSame
<1>2. OfThreads(setting') /\ \A u \in Threads : IsSetting(setting'[u])
  BY <1>0 DEF SettingInv
<1>3. SettingInv'
  BY <1>0, <1>2, ExtendedKept, SettingKept
<1> QED BY <1>1, <1>3 DEF ConfigInv

LEMMA LookUpKeeps ==
  ASSUME ConfigInv, NEW t \in Threads, LookUp(t)
  PROVE  ConfigInv'
<1>0. RegInv /\ HandlesInv /\ TodoInv /\ NodesInv
  BY DEF ConfigInv
<1>1. PICK c : c = Head(todo[t])
  OBVIOUS
<1>2. /\ At(t, "lookup") /\ Returned(t)
      /\ program' = program /\ nodes' = nodes /\ setting' = setting
      /\ Register(c) \/ UNCHANGED <<mDatas, objects, handles>>
  BY <1>1 DEF LookUp, loadVars
<1>3. TodoInv' /\ NodesInv' /\ SamePast
  BY <1>0, <1>2, ReturnedPast
<1>4. IsDefault(Made(c))
  <2>1. c.call = "lookup" /\ todo[t] # <<>>
    BY <1>1, <1>2 DEF At
  <2>2. c \in Range(program[t])
    BY <1>0, <1>1, <2>1, AtIs DEF Range
  <2>3. c \in UNION {Range(program[u]) : u \in Threads}
    BY <2>2
  <2> QED BY <2>1, <2>3 DEF IsDefault
<1>5. RegInv' /\ HandlesInv' /\ Extended
  <2>1. CASE Register(c)
    BY <1>0, <1>4, <2>1, RegisterKeeps
  <2>2. CASE UNCHANGED <<mDatas, objects, handles>>
    BY <1>0, <2>2 DEF RegInv, HandlesInv, Extended
  <2> QED BY <1>2, <2>1, <2>2
<1> QED BY <1>2, <1>3, <1>5, OthersKeep

LEMMA FindKeeps ==
  ASSUME ConfigInv, NEW t \in Threads, Find(t)
  PROVE  ConfigInv'
<1>0. RegInv /\ HandlesInv /\ TodoInv /\ NodesInv
  BY DEF ConfigInv
<1>1. PICK c, z : c = Head(todo[t]) /\ z = Cast(c.name, c.type)
  OBVIOUS
<1>2. /\ At(t, "find") /\ Returned(t)
      /\ program' = program /\ nodes' = nodes /\ setting' = setting
      /\ mDatas' = mDatas /\ objects' = objects
      /\ handles' = handles \cup {[name |-> c.name, type |-> c.type, var |-> z]}
  BY <1>1 DEF Find, loadVars, Returns
<1>3. TodoInv' /\ NodesInv' /\ SamePast
  BY <1>0, <1>2, ReturnedPast
<1>4. z # Nobody => c.name \in DOMAIN mDatas /\ mDatas[c.name] = z /\ objects[z].type = c.type
  BY <1>1 DEF Cast, LookUpBase
<1>5. RegInv' /\ Extended
  BY <1>0, <1>2 DEF RegInv, Extended
<1>6. HandlesInv'
  BY <1>0, <1>2, <1>4 DEF HandlesInv
<1> QED BY <1>2, <1>3, <1>5, <1>6, OthersKeep

\* A listener registers its variable, with the loads where they are.
LEMMA ListenerKeeps ==
  ASSUME ConfigInv, NEW t \in Threads, Listener(t)
  PROVE  ConfigInv'
<1>0. /\ RegInv /\ HandlesInv /\ TodoInv /\ NodesInv /\ SettingInv
      /\ \A x \in DOMAIN objects : Holds(x)
  BY DEF ConfigInv
<1>1. /\ setting[t].calls # <<>> /\ Register(Head(setting[t].calls))
      /\ setting' = [setting EXCEPT ![t].calls = Tail(setting[t].calls)]
      /\ program' = program /\ todo' = todo /\ nodes' = nodes
  BY DEF Listener
<1>2. PICK k \in DOMAIN Reacts : setting[t].calls = <<Reacts[k]>>
  BY <1>0, <1>1 DEF SettingInv
<1>3. Head(setting[t].calls) = Reacts[k] /\ Tail(setting[t].calls) = <<>>
  BY <1>2
<1>4. IsDefault(Made(Reacts[k]))
  <2>1. Reacts[k] \in Range(Reacts)
    BY DEF Range
  <2>2. Reacts[k].call = "lookup"
    BY <2>1, ConstantsAssumption
  <2> QED BY <2>1, <2>2 DEF IsDefault
<1>5. RegInv' /\ HandlesInv' /\ Extended
  BY <1>0, <1>1, <1>3, <1>4, RegisterKeeps
<1>6. TodoInv' /\ NodesInv' /\ SamePast
  BY <1>0, <1>1, PlaceSame
<1>7. \A x \in DOMAIN objects' : Holds(x)'
  BY <1>0, <1>1, <1>5, <1>6, HoldsSame
<1>8. SettingInv'
  <2> DEFINE s == [setting[t] EXCEPT !.calls = <<>>]
  <2>1. IsSetting(setting[t]) /\ OfThreads(setting)
    BY <1>0 DEF SettingInv
  <2>2. IsSetting(s) /\ s.var = setting[t].var /\ s.new = setting[t].new /\ s.calls = <<>>
    BY <2>1 DEF IsSetting
  <2>3. setting' = [setting EXCEPT ![t] = s]
    BY <1>1, <1>3
  <2> HIDE DEF s
  <2>4. /\ OfThreads(setting') /\ setting'[t] = s
        /\ \A u \in Threads \ {t} : setting'[u] = setting[u] /\ IsSetting(setting[u])
    BY <1>0, <2>1, <2>3 DEF SettingInv, OfThreads
  <2> QED BY <1>0, <1>1, <1>5, <2>2, <2>4, ExtendedKept, SettingKept
<1> QED BY <1>5, <1>6, <1>7, <1>8 DEF ConfigInv

LEMMA LoadFromYamlKeeps ==
  ASSUME ConfigInv, NEW t \in Threads, LoadFromYaml(t)
  PROVE  ConfigInv'
<1>0. RegInv /\ HandlesInv /\ TodoInv /\ NodesInv /\ SettingInv
  BY DEF ConfigInv
<1>1. /\ nodes[t] = <<>> /\ nodes' = [nodes EXCEPT ![t] = AllNodes(Head(todo[t]).root)]
      /\ UNCHANGED <<mDatas, objects, program, setting, handles>>
  BY DEF LoadFromYaml
<1>2. TodoInv' /\ NodesInv' /\ SamePast
  BY <1>0, LoadPast
<1>3. \A u \in Threads : setting[u].var # Nobody => nodes'[u] = nodes[u]
  BY <1>0, <1>1 DEF SettingInv, NodesInv, OfThreads
<1>4. RegInv' /\ HandlesInv' /\ Extended
  BY <1>0, <1>1 DEF RegInv, HandlesInv, Extended
<1> QED BY <1>1, <1>2, <1>3, <1>4, OthersKeep

LEMMA VisitKeeps ==
  ASSUME ConfigInv, NEW t \in Threads, Visit(t) \/ VisitEnds(t)
  PROVE  ConfigInv'
<1>0. RegInv /\ HandlesInv /\ TodoInv /\ NodesInv
  BY DEF ConfigInv
<1>1. UNCHANGED <<mDatas, objects, program, nodes, setting, handles>>
  BY DEF Visit, VisitEnds, loadVars
<1>2. RegInv' /\ HandlesInv' /\ Extended
  BY <1>0, <1>1 DEF RegInv, HandlesInv, Extended
<1>3. TodoInv' /\ NodesInv' /\ SamePast
  <2>1. CASE VisitEnds(t)
    <3>1. At(t, "visit") /\ Returned(t)
      BY <2>1 DEF VisitEnds
    <3> QED BY <1>0, <1>1, <3>1, ReturnedPast
  <2>2. CASE Visit(t)
    <3>1. todo' = todo
      BY <2>2 DEF Visit
    <3> QED BY <1>0, <1>1, <3>1, PlaceSame
  <2> QED BY <2>1, <2>2
<1> QED BY <1>1, <1>2, <1>3, OthersKeep

----------------------------------------------------------------------------
(* The theorems *)

\* The static LookUps register their own variables, and nothing is loaded yet.
LEMMA InitHolds == Init => ConfigInv
<1> SUFFICES ASSUME Init PROVE ConfigInv
  OBVIOUS
<1>1. /\ program \in Programs /\ todo = program
      /\ objects = [i \in DOMAIN Statics |-> Made(Statics[i])]
      /\ mDatas = [n \in {c.name : c \in Range(Statics)} |->
                     CHOOSE i \in DOMAIN Statics : Statics[i].name = n]
      /\ nodes = [t \in Threads |-> <<>>] /\ setting = [t \in Threads |-> Idle]
      /\ handles = {}
  BY DEF Init
<1>2. /\ Len(Statics) \in Nat /\ DOMAIN Statics = 1..Len(Statics) /\ DOMAIN objects = DOMAIN Statics
      /\ \A x \in DOMAIN objects : objects[x] = Made(Statics[x])
  BY <1>1, StaticsSeq
<1>3. RegInv
  <2>1. IsSeq(objects) /\ Len(objects) = Len(Statics)
    <3> DEFINE S == {Made(Statics[i]) : i \in DOMAIN Statics}
    <3>1. objects \in [1..Len(Statics) -> S]
      BY <1>1, <1>2
    <3> HIDE DEF S
    <3>2. objects \in Seq(S) /\ Len(objects) = Len(Statics)
      BY <1>2, <3>1
    <3> QED BY <3>2, SeqIs
  <2>2. ASSUME NEW x \in DOMAIN objects
        PROVE  /\ IsVar(objects[x]) /\ objects[x].name = Statics[x].name
               /\ objects[x].name \in DOMAIN mDatas /\ mDatas[objects[x].name] = x
    <3>1. IsVar(objects[x]) /\ objects[x].name = Statics[x].name
      BY <1>2 DEF Made, IsVar
    <3>2. Statics[x] \in Range(Statics)
      BY <1>2 DEF Range
    <3>3. Statics[x].name \in DOMAIN mDatas
      BY <1>1, <3>2
    <3>4. mDatas[Statics[x].name] = CHOOSE i \in DOMAIN Statics : Statics[i].name = Statics[x].name
      BY <1>1, <3>3
    <3>5. \A i \in DOMAIN Statics : Statics[i].name = Statics[x].name => i = x
      BY <1>2, ConstantsAssumption
    <3>6. x \in DOMAIN Statics
      BY <1>2
    <3>7. (CHOOSE i \in DOMAIN Statics : Statics[i].name = Statics[x].name) = x
      BY <3>5, <3>6
    <3> QED BY <3>1, <3>3, <3>4, <3>7
  <2>3. ASSUME NEW n \in DOMAIN mDatas
        PROVE  mDatas[n] \in DOMAIN objects /\ objects[mDatas[n]].name = n
    <3>1. PICK x \in DOMAIN Statics : Statics[x].name = n
      BY <1>1 DEF Range
    <3> QED BY <1>2, <2>2, <3>1
  <2> QED BY <1>2, <2>1, <2>2, <2>3 DEF RegInv
<1>4. HandlesInv
  BY <1>1 DEF HandlesInv
<1>5. \A t \in Threads : IsSeq(program[t])
  BY <1>1, ProgramIs
<1>6. ASSUME NEW t \in Threads
      PROVE  /\ Begun(t) = 0 /\ Len(program[t]) \in Nat
             /\ DOMAIN program[t] = 1..Len(program[t])
  <2>1. Len(program[t]) \in Nat /\ DOMAIN program[t] = 1..Len(program[t])
    BY <1>5, IsSeqDomain
  <2>2. Begun(t) = Len(program[t]) - Len(program[t])
    BY <1>1 DEF Begun
  <2> QED BY <2>1, <2>2
<1>7. TodoInv
  <2>1. OfThreads(todo)
    BY <1>1, ConstantsAssumption DEF OfThreads
  <2>2. ASSUME NEW t \in Threads
        PROVE  /\ IsSeq(todo[t]) /\ Len(todo[t]) <= Len(program[t])
               /\ \A k \in DOMAIN todo[t] : todo[t][k] = program[t][Begun(t) + k]
    <3>1. \A k \in DOMAIN program[t] : Begun(t) + k = k
      BY <1>6
    <3> QED BY <1>1, <1>5, <1>6, <3>1
  <2> QED BY <1>1, <2>1, <2>2 DEF TodoInv
<1>8. NodesInv
  <2>1. <<>> \in Seq({})
    OBVIOUS
  <2>2. IsSeq(<<>>)
    BY <2>1, SeqIs
  <2> QED BY <1>1, <2>2 DEF NodesInv, OfThreads
<1>9. SettingInv
  <2>1. IsSetting(Idle) /\ Idle.calls = <<>> /\ Idle.var = Nobody
    BY DEF IsSetting, Idle
  <2> QED BY <1>1, <2>1 DEF SettingInv, OfThreads
<1>10. ASSUME NEW x \in DOMAIN objects PROVE Holds(x)
  <2>1. ASSUME NEW t \in Threads, NEW i \in DOMAIN program[t], NEW j PROVE ~Past(t, i, j)
    BY <1>1, <1>6 DEF Past
  <2>2. IsDefault(objects[x])
    <3>1. Statics[x] \in Range(Statics)
      BY <1>2 DEF Range
    <3>2. Statics[x].call = "lookup"
      BY <3>1, ConstantsAssumption
    <3> QED BY <1>2, <3>1, <3>2 DEF IsDefault
  <2> QED BY <2>1, <2>2 DEF Holds
<1> QED BY <1>3, <1>4, <1>7, <1>8, <1>9, <1>10 DEF ConfigInv

LEMMA StepKeeps == ConfigInv /\ [Next]_vars => ConfigInv'
<1> SUFFICES ASSUME ConfigInv, [Next]_vars PROVE ConfigInv'
  OBVIOUS
<1>1. CASE Next
  <2>1. PICK t \in Threads : Step(t)
    BY <1>1 DEF Next
  <2>2. CASE LookUp(t)
    BY <2>2, LookUpKeeps
  <2>3. CASE Find(t)
    BY <2>3, FindKeeps
  <2>4. CASE LoadFromYaml(t)
    BY <2>4, LoadFromYamlKeeps
  <2>5. CASE FromString(t)
    BY <2>5, FromStringKeeps
  <2>6. CASE Listener(t)
    BY <2>6, ListenerKeeps
  <2>7. CASE Assign(t)
    BY <2>7, AssignKeeps
  <2>8. CASE Visit(t) \/ VisitEnds(t)
    BY <2>8, VisitKeeps
  <2> QED BY <2>1, <2>2, <2>3, <2>4, <2>5, <2>6, <2>7, <2>8 DEF Step
<1>2. CASE UNCHANGED vars
  <2>1. UNCHANGED <<mDatas, objects, program, todo, nodes, setting, handles>>
    BY <1>2 DEF vars, loadVars
  <2>2. RegInv' /\ HandlesInv' /\ Extended
    BY <2>1 DEF ConfigInv, RegInv, HandlesInv, Extended
  <2>3. TodoInv' /\ NodesInv' /\ SamePast
    BY <2>1, PlaceSame DEF ConfigInv
  <2> QED BY <2>1, <2>2, <2>3, OthersKeep
<1> QED BY <1>1, <1>2

\* Whoever asks for a name and a type shares one variable, the registered one
\* (LookUp, under the registry's write lock or read lock), however many threads
\* and listeners register at the same time as others load.
THEOREM OneVariablePerName == Spec => []HandlesShared
<1>1. ConfigInv => HandlesShared
  <2> SUFFICES ASSUME ConfigInv, NEW h \in handles, h.var # Nobody
               PROVE  /\ mDatas[h.name] = h.var /\ objects[h.var].type = h.type
                      /\ objects[h.var].name = h.name
    BY DEF HandlesShared
  <2> QED BY DEF ConfigInv, HandlesInv, RegInv
<1> QED BY <1>1, InitHolds, StepKeeps, PTL DEF Spec

\* When all calls have returned, a variable holds the value of the last node for
\* it of some thread (LoadFromYaml and FromString, which are interleaved node by
\* node and between the comparison and the assignment); only a variable without
\* such a node, or one that was registered after main began, holds its default.
THEOREM LoadsTakeEffect == Spec => []LoadedAsListed
<1>1. ConfigInv => LoadedAsListed
  <2> SUFFICES ASSUME ConfigInv, Done, NEW x \in DOMAIN objects
               PROVE  LET v == objects[x] IN
                      \/ \E t \in Threads : \E i \in DOMAIN program[t] : \E j \in DOMAIN Listed(t, i) :
                           LastFor(t, i, j, v) /\ v.mVal \in Casts(v.type, Listed(t, i)[j].node)
                      \/ /\ \/ x > Len(Statics)
                            \/ \A t \in Threads : \A i \in DOMAIN program[t] :
                                 \A j \in DOMAIN Listed(t, i) : ~Gives(t, i, j, v)
                         /\ IsDefault(v)
    BY DEF LoadedAsListed
  <2>1. ASSUME NEW t \in Threads, NEW i \in DOMAIN program[t], NEW j PROVE Past(t, i, j)
    <3>1. Begun(t) = Len(program[t]) /\ DOMAIN program[t] = 1..Len(program[t])
      BY AtIs DEF ConfigInv, Done
    <3>2. Len(program[t]) \in Nat
      BY AtIs DEF ConfigInv
    <3> QED BY <3>1, <3>2 DEF Past
  <2>2. \A t \in Threads : \A i \in DOMAIN program[t] : \A j \in DOMAIN Listed(t, i) :
          LastPast(t, i, j, objects[x]) => LastFor(t, i, j, objects[x])
    BY <2>1 DEF LastPast, LastFor
  <2>3. Holds(x)
    BY DEF ConfigInv
  <2> QED BY <2>1, <2>2, <2>3 DEF Holds
<1> QED BY <1>1, InitHolds, StepKeeps, PTL DEF Spec
=============================================================================
