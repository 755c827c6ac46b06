---------------------------- MODULE LoggerProofs ----------------------------
(***************************************************************************)
(* The loggers' locks suffice, for any threads, loggers, appenders,        *)
(* configurations and calls: iterators stay valid, messages that pass the  *)
(* levels are written, appenders follow their logger's formatter, and the  *)
(* loggers are what the configuration says once it is set.                 *)
(***************************************************************************)
EXTENDS Logger, SequenceTheorems, WellFoundedInduction, TLAPS

\* The least element of a set of numbers.
LEMMA Least ==
  ASSUME NEW S, S \subseteq Nat, S # {}
  PROVE  \E m \in S : \A j \in S : ~(j < m)
<1>1. \E m \in S : \A j \in S : ~(<<j, m>> \in OpToRel(<, Nat))
  BY WFMin, NatLessThanWellFounded
<1> QED BY <1>1 DEF OpToRel

\* FlattenSeq appends the words of a sequence one after another.
LEMMA FlattenSteps ==
  ASSUME NEW W, NEW seqs \in Seq(W), seqs # <<>>
  PROVE  \E f : /\ FlattenSeq(seqs) = f[Len(seqs)]
                /\ \A i \in 1..Len(seqs) :
                     f[i] = IF i = 1 THEN seqs[i] ELSE f[i-1] \o seqs[i]
<1> DEFINE n == Len(seqs)
           Is(g, m) == g = [i \in 1..m |-> IF i = 1 THEN seqs[i] ELSE g[i-1] \o seqs[i]]
<1>0. n \in Nat /\ n # 0
  OBVIOUS
<1> DEFINE T == {m \in 1..n : ~\E g : Is(g, m)}
<1>1. T = {}
  <2> SUFFICES ASSUME T # {} PROVE FALSE
    OBVIOUS
  <2>1. T \subseteq Nat
    <3> HIDE DEF Is
    <3> QED BY <1>0
  <2>2. PICK m \in T : \A j \in T : ~(j < m)
    <3> HIDE DEF T
    <3> QED BY <2>1, Least
  <2>3. m \in 1..n /\ ~\E g : Is(g, m)
    OBVIOUS
  <2>4. CASE m = 1
    <3>1. Is([i \in 1..1 |-> seqs[i]], 1)
      OBVIOUS
    <3> HIDE DEF Is
    <3> QED BY <2>3, <2>4, <3>1
  <2>5. CASE m # 1
    <3>1. m - 1 \in 1..n /\ m - 1 < m /\ m \in Nat
      BY <1>0, <2>3, <2>5
    <3>2. PICK g : Is(g, m - 1)
      BY <2>2, <3>1
    <3> DEFINE h == [i \in 1..m |-> IF i = m THEN g[m-1] \o seqs[m] ELSE g[i]]
    <3>3. ASSUME NEW i \in 1..m
          PROVE  h[i] = IF i = 1 THEN seqs[i] ELSE h[i-1] \o seqs[i]
      <4>1. CASE i = m
        <5>1. m \in 1..m /\ m - 1 \in 1..m /\ m - 1 # m
          BY <3>1
        <5>2. h[m] = g[m-1] \o seqs[m] /\ h[m-1] = g[m-1]
          BY <5>1, Zenon
        <5> HIDE DEF h
        <5> QED BY <2>5, <4>1, <5>2
      <4>2. CASE i # m
        <5>1. i \in 1..(m-1) /\ h[i] = g[i] /\ (i # 1 => i - 1 \in 1..m /\ h[i-1] = g[i-1])
          BY <3>1, <4>2
        <5>2. g[i] = IF i = 1 THEN seqs[i] ELSE g[i-1] \o seqs[i]
          BY <3>2, <5>1
        <5> QED BY <5>1, <5>2
      <4> QED BY <4>1, <4>2
    <3>4. Is(h, m)
      <4>1. h = [i \in 1..m |-> h[i]]
        OBVIOUS
      <4> HIDE DEF h
      <4> QED BY <3>3, <4>1
    <3> HIDE DEF Is
    <3> QED BY <2>3, <3>4
  <2> QED BY <2>4, <2>5
<1>2. \E g : Is(g, n)
  <2>1. n \in 1..n
    BY <1>0
  <2> QED BY <1>1, <2>1
<1> DEFINE f == CHOOSE g : Is(g, n)
<1>3. Is(f, n)
  <2> HIDE DEF Is
  <2> QED BY <1>2
<1>4. FlattenSeq(seqs) = f[n]
  BY <1>0 DEF FlattenSeq
<1> HIDE DEF f
<1>5. ASSUME NEW i \in 1..n
      PROVE  f[i] = IF i = 1 THEN seqs[i] ELSE f[i-1] \o seqs[i]
  BY <1>3
<1> QED BY <1>4, <1>5

\* No words, one after another, are the empty word.
LEMMA FlattenEmpty == FlattenSeq(<<>>) = <<>>
BY DEF FlattenSeq

\* A set of words that is closed under concatenation has the concatenation of any
\* sequence of its words.
LEMMA FlattenClosed ==
  ASSUME NEW W, <<>> \in W, \A v, w \in W : v \o w \in W, NEW seqs \in Seq(W)
  PROVE  FlattenSeq(seqs) \in W
<1> DEFINE n == Len(seqs)
<1>0. n \in Nat /\ \A i \in 1..n : seqs[i] \in W
  OBVIOUS
<1>1. CASE seqs = <<>>
  BY <1>1, FlattenEmpty
<1>2. CASE seqs # <<>>
  <2>1. n # 0
    BY <1>2
  <2>2. PICK f : /\ FlattenSeq(seqs) = f[n]
                 /\ \A i \in 1..n : f[i] = IF i = 1 THEN seqs[i] ELSE f[i-1] \o seqs[i]
    BY <1>2, FlattenSteps
  <2> DEFINE U == {i \in 1..n : f[i] \notin W}
  <2>3. U = {}
    <3> SUFFICES ASSUME U # {} PROVE FALSE
      OBVIOUS
    <3>1. U \subseteq Nat
      OBVIOUS
    <3>2. PICK m \in U : \A j \in U : ~(j < m)
      <4> HIDE DEF U
      <4> QED BY <3>1, Least
    <3>3. m \in 1..n /\ f[m] \notin W
      OBVIOUS
    <3>4. m # 1
      BY <1>0, <2>2, <3>3
    <3>5. m - 1 \in 1..n /\ m - 1 < m
      BY <1>0, <3>3, <3>4
    <3>6. f[m - 1] \in W
      BY <3>2, <3>5
    <3>7. f[m] = f[m-1] \o seqs[m] /\ seqs[m] \in W
      BY <1>0, <2>2, <3>3, <3>4
    <3> QED BY <3>3, <3>6, <3>7
  <2> QED BY <1>0, <2>1, <2>2, <2>3
<1> QED BY <1>1, <1>2

\* Sequences of one and of two elements, over a larger set, by their elements, and
\* up to a position.
LEMMA OneSeq ==
  ASSUME NEW S, NEW o \in S
  PROVE  <<o>> \in Seq(S)
OBVIOUS

LEMMA TwoSeq ==
  ASSUME NEW S, NEW o \in S, NEW p \in S
  PROVE  /\ <<o>> \in Seq(S) /\ <<p>> \in Seq(S) /\ <<o, p>> \in Seq(S)
         /\ <<o>> \o <<p>> = <<o, p>>
<1>1. <<o>> \in Seq(S) /\ <<p>> \in Seq(S) /\ <<o, p>> \in Seq(S)
  OBVIOUS
<1>2. <<o>> \o <<p>> \in Seq(S) /\ Len(<<o>> \o <<p>>) = 2 /\ Len(<<o, p>>) = 2
  BY <1>1
<1>3. /\ (<<o>> \o <<p>>)[1] = o /\ (<<o>> \o <<p>>)[2] = p
      /\ <<o, p>>[1] = o /\ <<o, p>>[2] = p
  BY <1>1
<1> DEFINE v == <<o>> \o <<p>>
           w == <<o, p>>
<1>4. \A i \in 1..2 : v[i] = w[i]
  <2> HIDE DEF v, w
  <2> QED BY <1>3 DEF v, w
<1>5. v \in Seq(S) /\ w \in Seq(S) /\ Len(v) = 2 /\ Len(w) = 2
  BY <1>1, <1>2
<1>6. v = w
  <2> HIDE DEF v, w
  <2> QED BY <1>4, <1>5, SeqEqual
<1> QED BY <1>1, <1>6

LEMMA SeqSubset ==
  ASSUME NEW S, NEW T, S \subseteq T
  PROVE  Seq(S) \subseteq Seq(T)
OBVIOUS

LEMMA SeqByElements ==
  ASSUME NEW S, NEW n \in Nat, NEW f \in [1..n -> S]
  PROVE  f \in Seq(S) /\ Len(f) = n
<1>1. f \in Seq(S)
  OBVIOUS
<1>2. DOMAIN f = 1..n
  OBVIOUS
<1> QED BY <1>1, <1>2

LEMMA PrefixStep ==
  ASSUME NEW S, NEW s \in Seq(S), NEW i \in 1..Len(s)
  PROVE  SubSeq(s, 1, i) = Append(SubSeq(s, 1, i - 1), s[i])
<1> DEFINE v == SubSeq(s, 1, i)
           u == SubSeq(s, 1, i - 1)
           w == Append(u, s[i])
<1>1. /\ v \in Seq(S) /\ Len(v) = i /\ \A j \in 1..i : v[j] = s[j]
      /\ u \in Seq(S) /\ Len(u) = i - 1 /\ \A j \in 1..(i - 1) : u[j] = s[j]
      /\ s[i] \in S
  OBVIOUS
<1> HIDE DEF u, v
<1>2. w \in Seq(S) /\ Len(w) = i /\ w[i] = s[i] /\ \A j \in 1..(i - 1) : w[j] = u[j]
  BY <1>1
<1> HIDE DEF w
<1>3. \A j \in 1..i : v[j] = w[j]
  BY <1>1, <1>2
<1>4. v = w
  BY <1>1, <1>2, <1>3, SeqEqual
<1> QED BY <1>4 DEF u, v, w

\* FlattenSeq loses nothing.
LEMMA FlattenHas ==
  ASSUME NEW S, NEW seqs \in Seq(Seq(S)), NEW i \in DOMAIN seqs, NEW j \in DOMAIN seqs[i]
  PROVE  \E k \in DOMAIN FlattenSeq(seqs) : FlattenSeq(seqs)[k] = seqs[i][j]
<1> DEFINE n == Len(seqs)
           Has(w) == \E k \in DOMAIN w : w[k] = seqs[i][j]
<1>1. n \in Nat /\ i \in 1..n /\ seqs # <<>> /\ \A m \in 1..n : seqs[m] \in Seq(S)
  OBVIOUS
<1>2. PICK f : /\ FlattenSeq(seqs) = f[n]
               /\ \A m \in 1..n : f[m] = IF m = 1 THEN seqs[m] ELSE f[m-1] \o seqs[m]
  BY <1>1, FlattenSteps
<1>3. ASSUME NEW v \in Seq(S), NEW w \in Seq(S), Has(v) \/ Has(w) PROVE Has(v \o w)
  <2>1. ASSUME NEW k \in DOMAIN v PROVE k \in DOMAIN (v \o w) /\ (v \o w)[k] = v[k]
    OBVIOUS
  <2>2. ASSUME NEW k \in DOMAIN w
        PROVE  k + Len(v) \in DOMAIN (v \o w) /\ (v \o w)[k + Len(v)] = w[k]
    OBVIOUS
  <2> QED BY <1>3, <2>1, <2>2
<1>4. Has(seqs[i])
  OBVIOUS
<1> HIDE DEF Has
<1> DEFINE U == {m \in 1..n : ~(f[m] \in Seq(S) /\ (m >= i => Has(f[m])))}
<1>5. U = {}
  <2> SUFFICES ASSUME U # {} PROVE FALSE
    OBVIOUS
  <2>1. U \subseteq Nat
    OBVIOUS
  <2>2. PICK m \in U : \A k \in U : ~(k < m)
    <3> HIDE DEF U
    <3> QED BY <2>1, Least
  <2>3. m \in 1..n /\ ~(f[m] \in Seq(S) /\ (m >= i => Has(f[m])))
    OBVIOUS
  <2>4. CASE m = 1
    <3>1. f[m] = seqs[m] /\ (m >= i => m = i)
      BY <1>1, <1>2, <2>3, <2>4
    <3> QED BY <1>1, <1>4, <2>3, <3>1
  <2>5. CASE m # 1
    <3>1. m - 1 \in 1..n /\ m - 1 < m
      BY <1>1, <2>3, <2>5
    <3>2. f[m-1] \in Seq(S) /\ (m - 1 >= i => Has(f[m-1]))
      BY <2>2, <3>1
    <3>3. f[m] = f[m-1] \o seqs[m] /\ seqs[m] \in Seq(S)
      BY <1>1, <1>2, <2>3, <2>5
    <3>4. m >= i => m = i \/ m - 1 >= i
      BY <1>1, <2>3
    <3>5. m >= i => Has(f[m])
      BY <1>3, <1>4, <3>2, <3>3, <3>4
    <3> QED BY <2>3, <3>2, <3>3, <3>5
  <2> QED BY <2>4, <2>5
<1>6. Has(f[n])
  <2>1. n \in 1..n /\ n >= i
    BY <1>1
  <2> QED BY <1>5, <2>1
<1> QED BY <1>2, <1>6 DEF Has

----------------------------------------------------------------------------
(* The inductive invariants *)

Locks == Loggers \cup {Mgr}

Pc == {"call", "lock", "walk", "end", "add"}

\* The calls of the listener, and of the assignment that follows it.
Calls ==
  ApiCalls
  \cup [op : {"NewAppender"}, l : Loggers, a : Made, x : ApDefine]
  \cup [op : {"Assign"}, l : {Root}, a : {Null}, x : Configs]

Types ==
  /\ mLoggers \subseteq Loggers
  /\ mLevel \in [Loggers -> Level]
  /\ mFormatter \in [Loggers -> Formatters]
  /\ mAppenderList \in [Loggers -> Seq(Appenders)]
  /\ apLevel \in [Appenders -> Level]
  /\ apFormatter \in [Appenders -> Formatters \cup {Null}]
  /\ bHasFormatter \in [Appenders -> BOOLEAN]
  /\ own \in [Appenders -> Formatters \cup {Null}]
  /\ giver \in [Appenders -> Loggers \cup {Null}]
  /\ owner \in [Locks -> Threads \cup {Null}]
  /\ work \in [Threads -> Seq(Calls)]
  /\ pc \in [Threads -> Pc]
  /\ pos \in [Threads -> Nat \ {0}]
  /\ got \in [Threads -> Formatters \cup {Null}]
  /\ written \in [Threads -> SUBSET Appenders]
  /\ DOMAIN excused = Threads

\* Where thread t may be, and with which locks: inside Log it has its logger's
\* lock and later the root logger's, inside the other calls its logger's.
HeldBy(t) ==
  /\ pc[t] # "call" => work[t] # <<>>
  /\ pc[t] = "lock" => Cur(t).op = "Log"
  /\ pc[t] \in {"call", "lock"} => pos[t] = 1
  /\ pc[t] = "add" => Cur(t).op = "AddAppender" /\ owner[Cur(t).l] = t
  /\ \A k \in Locks : owner[k] = t =>
       /\ work[t] # <<>>
       /\ Cur(t).op = "Log" =>
            /\ k = Cur(t).l \/ k = Root
            /\ pc[t] \in {"call", "lock"} => k = Cur(t).l /\ k # Root
       /\ Cur(t).op = "SetFormatter" => k = Cur(t).l /\ pc[t] # "call"

\* A thread walks over the list of a logger whose lock it has, inside the list.
Walks(t) ==
  pc[t] = "walk" /\ Cur(t).op \in {"Log", "SetFormatter"} =>
    /\ owner[Walked(t)] = t
    /\ pos[t] \in DOMAIN mAppenderList[Walked(t)]

\* Behind the first appender, or without one, the message is written or excused.
Told(t) ==
  (/\ work[t] # <<>> /\ Cur(t).op = "Log"
   /\ (pc[t] = "walk" /\ pos[t] # 1) \/ pc[t] = "end")
  => written[t] # {} \/ excused[t]

CallInv == Types /\ \A t \in Threads : HeldBy(t) /\ Walks(t) /\ Told(t)

\* An appender's calls are made by one thread: the listener's, or a caller's that
\* has announced it.
Uses(o) == o.op \in {"AddAppender", "ApSetFormatter", "NewAppender"}

\* What a listener has yet to do: it adds only appenders that it makes itself.
Private(w) ==
  \A i \in DOMAIN w :
    /\ w[i].op = "AddAppender" => w[i].a \in Made
    /\ w[i].op # "ApSetFormatter"

WorkInv ==
  /\ \A t \in Setters : Private(work[t])
  /\ \A t, u \in Setters : work[t] # <<>> /\ work[u] # <<>> => t = u
  /\ \A t \in Threads \ Setters : work[t] # <<>> => Tail(work[t]) = <<>> /\ Cur(t) \in Api
  /\ \A t, u \in Threads \ Setters :
       work[t] # <<>> /\ work[u] # <<>> /\ Uses(Cur(t)) /\ Uses(Cur(u))
         /\ Cur(t).a = Cur(u).a => t = u

\* What AddAppender has found out when it goes on is still so: the appender has no
\* formatter of its own, or it has one.  An appender whose formatter is about to
\* be taken is in no list.
FreshInv ==
  \A t \in Threads : work[t] # <<>> =>
    /\ pc[t] = "add" => IF got[t] = Null THEN own[Cur(t).a] = Null
                        ELSE apFormatter[Cur(t).a] # Null
    /\ Cur(t).op = "ApSetFormatter" /\ Cur(t).x = Null => ~Listed(Cur(t).a)

\* A SetFormatter that has yet to reach position i of logger l's list.
Ahead(l, i) ==
  \E t \in Threads : /\ owner[l] = t /\ Cur(t).op = "SetFormatter"
                     /\ pc[t] = "walk" /\ pos[t] <= i

\* The appender at position i of logger l's list has a formatter, and if l gave it,
\* it is l's present one as soon as a SetFormatter on its way has reached it.
Follows(l, i) ==
  LET a == mAppenderList[l][i] IN
    /\ apFormatter[a] # Null
    /\ giver[a] = l => apFormatter[a] = mFormatter[l] \/ Ahead(l, i)

\* A formatter of its own stays with the appender and keeps loggers from giving it
\* another.
OwnKept ==
  \A a \in Appenders :
    /\ bHasFormatter[a] <=> own[a] # Null
    /\ own[a] # Null => apFormatter[a] = own[a] /\ giver[a] = Null

FollowInv ==
  /\ OwnKept
  /\ \A l \in Loggers : \A i \in DOMAIN mAppenderList[l] : Follows(l, i)

FormatterInv == CallInv /\ WorkInv /\ FreshInv /\ FollowInv

----------------------------------------------------------------------------
(* Calls *)

\* What a call has, by its operation.
LEMMA CallFacts ==
  ASSUME NEW o \in Calls
  PROVE  /\ o.op \in {"Log", "SetLevel"} => o.l \in Loggers /\ o.x \in Level
         /\ o.op \in {"AddAppender", "DelAppender"} => o.l \in Loggers /\ o.a \in Appenders
         /\ o.op \in {"ClearAppenders", "GetLogger"} => o.l \in Loggers
         /\ o.op = "SetFormatter" => o.l \in Loggers /\ o.x \in Formatters \cup {Bad}
         /\ o.op = "ApSetFormatter" => o.a \in Appenders /\ o.x \in Formatters \cup {Null}
         /\ o.op = "NewAppender" => o.a \in Appenders /\ o.a \in Made /\ o.x \in ApDefine
         /\ o.op = "Assign" => o.x \in Configs
BY DEF Calls, ApiCalls, Made

\* A sequence with the first occurrence of an element taken out is the sequence
\* with one position taken out, or the sequence itself.
LEMMA RemoveFirstType ==
  ASSUME NEW S, NEW s \in Seq(S), NEW e
  PROVE  /\ RemoveFirst(s, e) \in Seq(S)
         /\ \A i \in DOMAIN RemoveFirst(s, e) : \E j \in DOMAIN s : RemoveFirst(s, e)[i] = s[j]
<1>1. CASE ~\E i \in 1..Len(s) : s[i] = e
  BY <1>1 DEF RemoveFirst
<1>2. CASE \E i \in 1..Len(s) : s[i] = e
  <2> DEFINE I == {i \in 1..Len(s) : s[i] = e}
             m == Min(I)
  <2>1. I # {} /\ I \subseteq Nat
    BY <1>2
  <2>2. \E i \in I : \A j \in I : ~(j < i)
    <3> HIDE DEF I
    <3> QED BY <2>1, Least
  <2>3. \E i \in I : \A j \in I : i <= j
    BY <2>1, <2>2
  <2>4. m \in I
    <3> HIDE DEF I
    <3> QED BY <2>3 DEF Min
  <2>5. m \in 1..Len(s)
    BY <2>4
  <2>6. RemoveFirst(s, e) = SubSeq(s, 1, m - 1) \o SubSeq(s, m + 1, Len(s))
    <3>1. SelectInSeq(s, LAMBDA v : v = e) = m
      BY <2>1 DEF SelectInSeq
    <3> QED BY <1>2, <3>1 DEF RemoveFirst, RemoveAt
  <2> HIDE DEF m
  <2> DEFINE p == SubSeq(s, 1, m - 1)
             q == SubSeq(s, m + 1, Len(s))
  <2>7. /\ p \in Seq(S) /\ Len(p) = m - 1 /\ \A i \in 1..(m - 1) : p[i] = s[i]
        /\ q \in Seq(S) /\ Len(q) = Len(s) - m /\ \A i \in 1..(Len(s) - m) : q[i] = s[m + i]
    BY <2>5
  <2> HIDE DEF p, q
  <2>8. /\ p \o q \in Seq(S) /\ Len(p \o q) = Len(s) - 1
        /\ \A i \in 1..(Len(s) - 1) : (p \o q)[i] = IF i <= m - 1 THEN p[i] ELSE q[i - (m - 1)]
    <3>1. p \o q \in Seq(S) /\ Len(p \o q) = Len(p) + Len(q)
      BY <2>7
    <3>2. \A i \in 1..(Len(p) + Len(q)) :
            (p \o q)[i] = IF i <= Len(p) THEN p[i] ELSE q[i - Len(p)]
      BY <2>7, ConcatProperties
    <3>3. Len(p) + Len(q) = Len(s) - 1
      BY <2>5, <2>7
    <3> QED BY <2>7, <3>1, <3>2, <3>3
  <2>9. ASSUME NEW i \in DOMAIN (p \o q) PROVE \E j \in DOMAIN s : (p \o q)[i] = s[j]
    <3>1. i \in 1..(Len(s) - 1)
      BY <2>8
    <3>2. CASE i <= m - 1
      BY <2>5, <2>7, <2>8, <3>1, <3>2
    <3>3. CASE ~(i <= m - 1)
      <4>1. i - (m - 1) \in 1..(Len(s) - m) /\ m + (i - (m - 1)) = i + 1
        BY <2>5, <3>1, <3>3
      <4>2. (p \o q)[i] = s[i + 1]
        BY <2>7, <2>8, <3>1, <3>3, <4>1
      <4>3. i + 1 \in DOMAIN s
        BY <3>1
      <4> QED BY <4>2, <4>3
    <3> QED BY <3>2, <3>3
  <2> QED BY <2>6, <2>8, <2>9 DEF p, q
<1> QED BY <1>1, <1>2

\* Words of calls that a listener may make.
Words == {w \in Seq(Calls) : Private(w)}

LEMMA WordsClosed == <<>> \in Words /\ \A v, w \in Words : v \o w \in Words
<1>1. <<>> \in Words
  BY DEF Words, Private
<1>2. ASSUME NEW v \in Words, NEW w \in Words PROVE v \o w \in Words
  <2> DEFINE z == v \o w
  <2>1. v \in Seq(Calls) /\ w \in Seq(Calls) /\ Private(v) /\ Private(w)
    BY DEF Words
  <2>2. /\ z \in Seq(Calls) /\ Len(z) = Len(v) + Len(w)
        /\ \A i \in 1..Len(z) : z[i] = IF i <= Len(v) THEN v[i] ELSE w[i - Len(v)]
    BY <2>1
  <2> HIDE DEF z
  <2>3. ASSUME NEW i \in DOMAIN z
        PROVE  \/ i \in DOMAIN v /\ z[i] = v[i]
               \/ i - Len(v) \in DOMAIN w /\ z[i] = w[i - Len(v)]
    <3>1. /\ Len(v) \in Nat /\ Len(w) \in Nat /\ DOMAIN v = 1..Len(v) /\ DOMAIN w = 1..Len(w)
          /\ i \in 1..Len(z)
      BY <2>1, <2>2
    <3>2. CASE i <= Len(v)
      BY <2>2, <3>1, <3>2
    <3>3. CASE i > Len(v)
      BY <2>2, <3>1, <3>3
    <3> QED BY <3>1, <3>2, <3>3
  <2>4. Private(z)
    BY <2>1, <2>3 DEF Private
  <2> QED BY <2>2, <2>4 DEF Words, z
<1> QED BY <1>1, <1>2

\* A few calls that neither make nor add an appender are a word.
LEMMA WordPlain ==
  ASSUME NEW o \in Calls, NEW p \in Calls, NEW q \in Calls, ~Uses(o), ~Uses(p), ~Uses(q)
  PROVE  <<o>> \in Words /\ <<o, p>> \in Words /\ <<o, p, q>> \in Words
<1>1. ASSUME NEW w \in Seq(Calls), \A i \in DOMAIN w : ~Uses(w[i])
      PROVE  w \in Words
  BY <1>1 DEF Words, Private, Uses
<1>2. <<o>> \in Seq(Calls) /\ \A i \in DOMAIN <<o>> : ~Uses(<<o>>[i])
  OBVIOUS
<1>3. <<o, p>> \in Seq(Calls) /\ \A i \in DOMAIN <<o, p>> : ~Uses(<<o, p>>[i])
  OBVIOUS
<1>4. /\ <<o, p, q>> \in Seq(Calls)
      /\ \A i \in DOMAIN <<o, p, q>> : ~Uses(<<o, p, q>>[i])
  OBVIOUS
<1> QED BY <1>1, <1>2, <1>3, <1>4

LEMMA WordPair ==
  ASSUME NEW l \in Loggers, NEW d \in ApDefine, d.a \in Made
  PROVE  <<Op("NewAppender", l, d.a, d), Op("AddAppender", l, d.a, Null)>> \in Words
<1> DEFINE o == Op("NewAppender", l, d.a, d)
           p == Op("AddAppender", l, d.a, Null)
           w == <<o, p>>
<1>1. o \in Calls /\ p \in Calls
  BY DEF Op, Calls, ApiCalls, Made
<1>2. o.op = "NewAppender" /\ p.op = "AddAppender" /\ p.a \in Made
  BY DEF Op
<1> HIDE DEF o, p
<1>3. w \in Seq(Calls) /\ DOMAIN w = {1, 2} /\ w[1] = o /\ w[2] = p
  BY <1>1
<1> HIDE DEF w
<1>4. Private(w)
  BY <1>2, <1>3 DEF Private
<1> QED BY <1>3, <1>4 DEF Words, w, o, p

\* The listener's calls form words, for every old and every new value.
LEMMA RebuildWord ==
  ASSUME NEW l \in Loggers, NEW d \in Define,
         \A i \in DOMAIN d.appenders : d.appenders[i].a \in Made
  PROVE  Rebuild(l, d) \in Words
<1> DEFINE pairs == [i \in DOMAIN d.appenders |->
                       <<Op("NewAppender", l, d.appenders[i].a, d.appenders[i]),
                         Op("AddAppender", l, d.appenders[i].a, Null)>>]
           g == Op("GetLogger", l, Null, Null)
           s == Op("SetLevel", l, Null, d.level)
           f == Op("SetFormatter", l, Null, d.formatter)
           c == Op("ClearAppenders", l, Null, Null)
<1>1. d.appenders \in Seq(ApDefine) /\ d.level \in Level /\ d.formatter \in Formatters \cup {Bad, Null}
  BY DEF Define
<1>2. \A i \in DOMAIN d.appenders : pairs[i] \in Words
  BY <1>1, WordPair
<1>3. pairs \in Seq(Words)
  <2>1. DOMAIN pairs = 1..Len(d.appenders) /\ Len(d.appenders) \in Nat
    BY <1>1
  <2> HIDE DEF pairs
  <2>2. \A i \in 1..Len(d.appenders) : pairs[i] \in Words
    BY <1>1, <1>2
  <2>3. pairs = [i \in 1..Len(d.appenders) |-> pairs[i]]
    BY <2>1 DEF pairs
  <2> QED BY <2>1, <2>2, <2>3
<1>4. FlattenSeq(pairs) \in Words
  <2> HIDE DEF pairs
  <2> QED BY <1>3, WordsClosed, FlattenClosed
<1>5. g \in Calls /\ s \in Calls /\ c \in Calls /\ (d.formatter # Null => f \in Calls)
  BY <1>1 DEF Op, Calls, ApiCalls
<1>6. <<g, s>> \in Words /\ <<c>> \in Words /\ (d.formatter # Null => <<f>> \in Words)
  <2>1. ~Uses(g) /\ ~Uses(s) /\ ~Uses(c) /\ ~Uses(f)
    BY DEF Op, Uses
  <2> HIDE DEF g, s, c, f
  <2> QED BY <1>5, <2>1, WordPlain
<1>7. Rebuild(l, d) = <<g, s>> \o (IF d.formatter # Null THEN <<f>> ELSE <<>>)
                        \o <<c>> \o FlattenSeq(pairs)
  BY DEF Rebuild
<1> HIDE DEF g, s, f, c, pairs
<1>8. (IF d.formatter # Null THEN <<f>> ELSE <<>>) \in Words
  BY <1>6, WordsClosed
<1> QED BY <1>4, <1>6, <1>7, <1>8, WordsClosed

LEMMA RetireWord ==
  ASSUME NEW l \in Loggers
  PROVE  Retire(l) \in Words
<1> DEFINE g == Op("GetLogger", l, Null, Null)
           s == Op("SetLevel", l, Null, 0)
           c == Op("ClearAppenders", l, Null, Null)
<1>1. g \in Calls /\ s \in Calls /\ c \in Calls
  BY DEF Op, Calls, ApiCalls, Level
<1>2. ~Uses(g) /\ ~Uses(s) /\ ~Uses(c)
  BY DEF Op, Uses
<1> HIDE DEF g, s, c
<1>3. <<g, s, c>> \in Words
  BY <1>1, <1>2, WordPlain
<1> QED BY <1>3 DEF Retire, g, s, c

\* A function on the order of loggers whose values are words.
LEMMA OrderWords ==
  ASSUME NEW f, f = [i \in DOMAIN Order |-> f[i]], \A i \in DOMAIN Order : f[i] \in Words
  PROVE  FlattenSeq(f) \in Words
<1>1. DOMAIN Order = 1..Len(Order) /\ Len(Order) \in Nat
  BY ConstantsAssumption
<1>2. f \in Seq(Words)
  BY <1>1
<1> QED BY <1>2, WordsClosed, FlattenClosed

LEMMA SetLogsWord ==
  ASSUME NEW old, NEW new \in Configs
  PROVE  OnChange(old, new) \o <<Op("Assign", Root, Null, new)>> \in Words
<1> DEFINE f == [i \in DOMAIN Order |->
                   IF Changed(old, new, Order[i]) THEN Rebuild(Order[i], new[Order[i]]) ELSE <<>>]
           g == [i \in DOMAIN Order |->
                   IF Order[i] \in DOMAIN old \ DOMAIN new THEN Retire(Order[i]) ELSE <<>>]
           o == Op("Log", Root, Null, 2)
           a == Op("Assign", Root, Null, new)
<1>1. ASSUME NEW i \in DOMAIN Order PROVE f[i] \in Words
  <2>1. CASE Changed(old, new, Order[i])
    <3>1. Order[i] \in DOMAIN new
      BY <2>1 DEF Changed
    <3>2. Order[i] \in Loggers /\ new[Order[i]] \in Define
      BY <3>1, ConstantsAssumption DEF IsConfig
    <3>3. \A j \in DOMAIN new[Order[i]].appenders : new[Order[i]].appenders[j].a \in Made
      <4>1. new[Order[i]].appenders \in Seq(ApDefine)
        BY <3>2 DEF Define
      <4>2. \A j \in DOMAIN new[Order[i]].appenders : new[Order[i]].appenders[j] \in ApDefine
        BY <4>1
      <4>3. \A j \in DOMAIN new[Order[i]].appenders : new[Order[i]].appenders[j].a \in Appenders
        BY <4>2 DEF ApDefine
      <4> QED BY <3>1, <4>3 DEF Made
    <3> QED BY <2>1, <3>2, <3>3, RebuildWord
  <2>2. CASE ~Changed(old, new, Order[i])
    BY <2>2, WordsClosed
  <2> QED BY <2>1, <2>2
<1>2. ASSUME NEW i \in DOMAIN Order PROVE g[i] \in Words
  <2>1. Order[i] \in Loggers
    BY ConstantsAssumption
  <2> QED BY <2>1, RetireWord, WordsClosed
<1>3. f = [i \in DOMAIN Order |-> f[i]] /\ g = [i \in DOMAIN Order |-> g[i]]
  OBVIOUS
<1>4. o \in Calls /\ a \in Calls
  BY ConstantsAssumption DEF Op, Calls, ApiCalls, Level
<1>5. <<o>> \in Words /\ <<a>> \in Words
  <2>1. ~Uses(o) /\ ~Uses(a)
    BY DEF Op, Uses
  <2> HIDE DEF o, a
  <2> QED BY <1>4, <2>1, WordPlain
<1>6. OnChange(old, new) = <<o>> \o FlattenSeq(f) \o FlattenSeq(g)
  BY DEF OnChange
<1> HIDE DEF f, g, o
<1>7. FlattenSeq(f) \in Words /\ FlattenSeq(g) \in Words
  BY <1>1, <1>2, <1>3, OrderWords
<1>8. OnChange(old, new) \in Words
  BY <1>5, <1>6, <1>7, WordsClosed
<1> QED BY <1>5, <1>8, WordsClosed

----------------------------------------------------------------------------
(* Types *)

LEMMA InitInv == Init => FormatterInv
<1> SUFFICES ASSUME Init PROVE FormatterInv
  OBVIOUS
<1>1. Types
  BY ConstantsAssumption DEF Init, Types, Level, Pc, Locks
<1>2. ASSUME NEW t \in Threads PROVE HeldBy(t) /\ Walks(t) /\ Told(t)
  <2>1. pc[t] = "call" /\ work[t] = <<>> /\ pos[t] = 1 /\ \A k \in Locks : owner[k] # t
    BY ConstantsAssumption DEF Init, Locks
  <2> QED BY <2>1 DEF HeldBy, Walks, Told
<1>3. WorkInv /\ FreshInv
  BY ConstantsAssumption DEF Init, WorkInv, FreshInv, Private
<1>4. FollowInv
  <2>1. /\ \A a \in Appenders : bHasFormatter[a] = FALSE /\ own[a] = Null
        /\ apFormatter[RootAppender] = Default /\ Default # Null
    BY ConstantsAssumption DEF Init
  <2>2. /\ \A l \in Loggers : l # Root => mAppenderList[l] = <<>>
        /\ mAppenderList[Root] = <<RootAppender>> /\ mFormatter[Root] = Default
    BY ConstantsAssumption DEF Init
  <2>3. \A l \in Loggers : \A i \in DOMAIN mAppenderList[l] :
          l = Root /\ mAppenderList[l][i] = RootAppender
    BY <2>2
  <2> QED BY <2>1, <2>2, <2>3, ConstantsAssumption DEF FollowInv, OwnKept, Follows
<1> QED BY <1>1, <1>2, <1>3, <1>4 DEF FormatterInv, CallInv

LEMMA CurCall ==
  ASSUME Types, NEW t \in Threads, work[t] # <<>>
  PROVE  Cur(t) \in Calls
<1>1. work[t] \in Seq(Calls)
  BY DEF Types
<1> QED BY <1>1 DEF Cur

\* The variables that belong to the calls.
CallTypes ==
  /\ owner \in [Locks -> Threads \cup {Null}]
  /\ work \in [Threads -> Seq(Calls)]
  /\ pc \in [Threads -> Pc]
  /\ pos \in [Threads -> Nat \ {0}]
  /\ got \in [Threads -> Formatters \cup {Null}]
  /\ written \in [Threads -> SUBSET Appenders]

\* The variables of loggers and appenders.
ObjectTypes ==
  /\ mLoggers \subseteq Loggers
  /\ mLevel \in [Loggers -> Level]
  /\ mFormatter \in [Loggers -> Formatters]
  /\ mAppenderList \in [Loggers -> Seq(Appenders)]
  /\ apLevel \in [Appenders -> Level]
  /\ apFormatter \in [Appenders -> Formatters \cup {Null}]
  /\ bHasFormatter \in [Appenders -> BOOLEAN]
  /\ own \in [Appenders -> Formatters \cup {Null}]
  /\ giver \in [Appenders -> Loggers \cup {Null}]

LEMMA ReturnTypes ==
  ASSUME Types, NEW t \in Threads, work[t] # <<>>, Return(t)
  PROVE  CallTypes'
<1>1. Tail(work[t]) \in Seq(Calls)
  BY DEF Types
<1>2. owner' \in [Locks -> Threads \cup {Null}]
  BY DEF Types, Return
<1> QED BY <1>1, <1>2 DEF Types, Return, CallTypes, Pc

LEMMA GoToTypes ==
  ASSUME Types, NEW t \in Threads, NEW p \in Pc, GoTo(t, p)
  PROVE  /\ work' \in [Threads -> Seq(Calls)] /\ pc' \in [Threads -> Pc]
         /\ pos' \in [Threads -> Nat \ {0}] /\ got' \in [Threads -> Formatters \cup {Null}]
         /\ written' \in [Threads -> SUBSET Appenders]
BY DEF Types, GoTo

LEMMA LockTypes ==
  ASSUME Types, NEW t \in Threads, NEW k, Lock(t, k)
  PROVE  owner' \in [Locks -> Threads \cup {Null}]
BY DEF Types, Lock

\* The steps of Log change no object and keep the calls' types.
LEMMA LogTypes ==
  ASSUME CallInv, NEW t \in Threads, LogTest(t) \/ LogLock(t) \/ LogWalk(t) \/ LogEnd(t)
  PROVE  CallTypes' /\ ObjectTypes'
<1> USE DEF CallInv
<1>1. ObjectTypes'
  BY DEF LogTest, LogLock, LogWalk, LogEnd, Types, ObjectTypes, loggerVars, appenderVars
<1> SUFFICES CallTypes'
  BY <1>1
<1>2. CASE LogTest(t)
  <2>1. CASE GoTo(t, "lock") /\ UNCHANGED owner
    BY <2>1, GoToTypes DEF Types, CallTypes, Pc
  <2>2. CASE Return(t)
    BY <1>2, <2>2, ReturnTypes DEF LogTest, At
  <2> QED BY <1>2, <2>1, <2>2 DEF LogTest
<1>3. CASE LogLock(t)
  <2>1. PICK p \in Pc : GoTo(t, p)
    BY <1>3 DEF LogLock, Pc
  <2>2. \E k : Lock(t, k)
    BY <1>3 DEF LogLock
  <2> QED BY <2>1, <2>2, GoToTypes, LockTypes DEF CallTypes
<1>4. CASE LogWalk(t)
  <2> DEFINE a == mAppenderList[Walked(t)][pos[t]]
  <2>1. At(t, "Log", "walk")
    BY <1>4 DEF LogWalk
  <2>2. owner[Walked(t)] = t /\ pos[t] \in DOMAIN mAppenderList[Walked(t)]
    BY <2>1 DEF At, Walks, Cur
  <2>3. Walked(t) \in Loggers
    BY <2>1, CurCall, CallFacts, ConstantsAssumption DEF Walked, At, Cur
  <2>4. a \in Appenders
    <3>1. mAppenderList[Walked(t)] \in Seq(Appenders)
      BY <2>3 DEF Types
    <3> QED BY <2>2, <3>1
  <2>5. pos[t] + 1 \in Nat \ {0}
    BY DEF Types
  <2>6. /\ written' = [written EXCEPT ![t] = IF Cur(t).x >= apLevel[a] THEN @ \cup {a} ELSE @]
        /\ pos' = [pos EXCEPT ![t] = @ + 1]
        /\ \E p \in Pc : pc' = [pc EXCEPT ![t] = p]
        /\ UNCHANGED <<owner, work, got>>
    <3>1. pc[t] \in Pc /\ "end" \in Pc
      BY DEF Types, Pc
    <3> QED BY <1>4, <3>1 DEF LogWalk
  <2> HIDE DEF a
  <2> QED BY <2>4, <2>5, <2>6 DEF Types, CallTypes
<1>5. CASE LogEnd(t)
  BY <1>5, ReturnTypes DEF LogEnd, At
<1> QED BY <1>2, <1>3, <1>4, <1>5

\* So do the operations of a logger ...
LEMMA LoggerTypes ==
  ASSUME CallInv, NEW t \in Threads,
         \/ SetLevel(t) \/ AddAppender(t) \/ AddAppenderEnd(t) \/ DelAppender(t)
         \/ ClearAppenders(t) \/ SetFormatter(t) \/ SetFormatterWalk(t) \/ SetFormatterEnd(t)
  PROVE  CallTypes' /\ ObjectTypes'
<1> USE DEF CallInv, loggerVars, appenderVars
<1>0. Types /\ work[t] # <<>> /\ Cur(t) \in Calls
  <2>1. work[t] # <<>>
    BY DEF SetLevel, AddAppender, AddAppenderEnd, DelAppender, ClearAppenders, SetFormatter,
           SetFormatterWalk, SetFormatterEnd, At
  <2> QED BY <2>1, CurCall
<1>1. CASE SetLevel(t)
  <2>1. Cur(t).x \in Level
    BY <1>0, <1>1, CallFacts DEF SetLevel, At, Cur
  <2>2. mLevel' = [mLevel EXCEPT ![Cur(t).l] = Cur(t).x] /\ Return(t)
        /\ UNCHANGED <<mLoggers, mFormatter, mAppenderList, appenderVars>>
    BY <1>1 DEF SetLevel
  <2> QED BY <1>0, <2>1, <2>2, ReturnTypes DEF Types, ObjectTypes
<1>2. CASE AddAppender(t)
  <2>1. Cur(t).a \in Appenders
    BY <1>0, <1>2, CallFacts DEF AddAppender, At, Cur
  <2>2. owner' \in [Locks -> Threads \cup {Null}]
    BY <1>0, <1>2, LockTypes DEF AddAppender
  <2>3. /\ got' = [got EXCEPT ![t] = apFormatter[Cur(t).a]]
        /\ pc' = [pc EXCEPT ![t] = "add"]
        /\ UNCHANGED <<loggerVars, appenderVars, work, pos, written>>
    BY <1>2 DEF AddAppender
  <2> QED BY <1>0, <2>1, <2>2, <2>3 DEF Types, CallTypes, ObjectTypes, Pc
<1>3. CASE AddAppenderEnd(t)
  <2>1. Cur(t).a \in Appenders /\ Cur(t).l \in Loggers
    BY <1>0, <1>3, CallFacts DEF AddAppenderEnd, At, Cur
  <2>2. mFormatter[Cur(t).l] \in Formatters \cup {Null}
    BY <1>0, <2>1 DEF Types
  <2>3. Append(mAppenderList[Cur(t).l], Cur(t).a) \in Seq(Appenders)
    BY <1>0, <2>1 DEF Types
  <2>4. /\ apFormatter' = [apFormatter EXCEPT ![Cur(t).a] =
                             IF got[t] = Null THEN mFormatter[Cur(t).l] ELSE @]
        /\ mAppenderList' = [mAppenderList EXCEPT ![Cur(t).l] =
                               Append(mAppenderList[Cur(t).l], Cur(t).a)]
        /\ giver' = [giver EXCEPT ![Cur(t).a] = IF got[t] = Null THEN Cur(t).l ELSE Null]
        /\ Return(t)
        /\ UNCHANGED <<mLoggers, mLevel, mFormatter, apLevel, bHasFormatter, own>>
    BY <1>3 DEF AddAppenderEnd
  <2>5. apFormatter' \in [Appenders -> Formatters \cup {Null}]
    BY <1>0, <2>1, <2>2, <2>4 DEF Types
  <2>6. mAppenderList' \in [Loggers -> Seq(Appenders)]
    BY <1>0, <2>3, <2>4 DEF Types
  <2>7. giver' \in [Appenders -> Loggers \cup {Null}]
    BY <1>0, <2>1, <2>4 DEF Types
  <2> QED BY <1>0, <2>4, <2>5, <2>6, <2>7, ReturnTypes DEF Types, ObjectTypes
<1>4. CASE DelAppender(t)
  <2>1. Cur(t).l \in Loggers
    BY <1>0, <1>4, CallFacts DEF DelAppender, At, Cur
  <2>2. RemoveFirst(mAppenderList[Cur(t).l], Cur(t).a) \in Seq(Appenders)
    BY <1>0, <2>1, RemoveFirstType DEF Types
  <2>3. /\ mAppenderList' = [mAppenderList EXCEPT ![Cur(t).l] =
                               RemoveFirst(mAppenderList[Cur(t).l], Cur(t).a)]
        /\ Return(t)
        /\ UNCHANGED <<mLoggers, mLevel, mFormatter, appenderVars>>
    BY <1>4 DEF DelAppender
  <2>4. mAppenderList' \in [Loggers -> Seq(Appenders)]
    BY <1>0, <2>2, <2>3 DEF Types
  <2> QED BY <1>0, <2>3, <2>4, ReturnTypes DEF Types, ObjectTypes
<1>5. CASE ClearAppenders(t)
  <2>1. mAppenderList' = [mAppenderList EXCEPT ![Cur(t).l] = <<>>] /\ Return(t)
        /\ UNCHANGED <<mLoggers, mLevel, mFormatter, appenderVars>>
    BY <1>5 DEF ClearAppenders
  <2>2. mAppenderList' \in [Loggers -> Seq(Appenders)]
    <3>1. <<>> \in Seq(Appenders)
      OBVIOUS
    <3> QED BY <1>0, <2>1, <3>1, Zenon DEF Types
  <2> QED BY <1>0, <2>1, <2>2, ReturnTypes DEF Types, ObjectTypes
<1>6. CASE SetFormatter(t)
  <2>1. Cur(t).x \in Formatters \cup {Bad}
    BY <1>0, <1>6, CallFacts DEF SetFormatter, At, Cur
  <2>2. UNCHANGED <<mLoggers, mLevel, mAppenderList, appenderVars>>
    BY <1>6 DEF SetFormatter
  <2>3. CASE Accepts(Cur(t).x)
    <3>1. Lock(t, Cur(t).l) /\ mFormatter' = [mFormatter EXCEPT ![Cur(t).l] = Cur(t).x]
          /\ \E p \in Pc : GoTo(t, p)
      BY <1>6, <2>3 DEF SetFormatter, Pc
    <3>2. Cur(t).x \in Formatters
      BY <2>1, <2>3 DEF Accepts
    <3>3. mFormatter' \in [Loggers -> Formatters]
      BY <1>0, <3>1, <3>2 DEF Types
    <3>4. CallTypes'
      BY <1>0, <3>1, LockTypes, GoToTypes DEF CallTypes
    <3> QED BY <1>0, <2>2, <3>3, <3>4 DEF Types, ObjectTypes
  <2>4. CASE ~Accepts(Cur(t).x)
    BY <1>0, <1>6, <2>2, <2>4, ReturnTypes DEF SetFormatter, Types, ObjectTypes
  <2> QED BY <2>3, <2>4
<1>7. CASE SetFormatterWalk(t)
  <2>1. Cur(t).l \in Loggers
    BY <1>0, <1>7, CallFacts DEF SetFormatterWalk, At, Cur
  <2>2. mFormatter[Cur(t).l] \in Formatters \cup {Null} /\ pos[t] + 1 \in Nat \ {0}
    BY <1>0, <2>1 DEF Types
  <2>3. /\ \E a : /\ apFormatter' = [apFormatter EXCEPT ![a] = IF Inherits(a) THEN mFormatter[Cur(t).l] ELSE @]
                /\ giver' = [giver EXCEPT ![a] = IF Inherits(a) THEN Cur(t).l ELSE @]
        /\ pos' = [pos EXCEPT ![t] = @ + 1]
        /\ \E p \in Pc : pc' = [pc EXCEPT ![t] = p]
        /\ UNCHANGED <<loggerVars, apLevel, bHasFormatter, own, owner, work, got, written>>
    <3>1. pc[t] \in Pc /\ "end" \in Pc
      BY <1>0 DEF Types, Pc
    <3> QED BY <1>7, <3>1 DEF SetFormatterWalk
  <2>4. apFormatter' \in [Appenders -> Formatters \cup {Null}]
    BY <1>0, <2>2, <2>3 DEF Types
  <2>5. giver' \in [Appenders -> Loggers \cup {Null}]
    <3>1. \E a : giver' = [giver EXCEPT ![a] = IF Inherits(a) THEN Cur(t).l ELSE @]
      BY <2>3
    <3>2. giver \in [Appenders -> Loggers \cup {Null}]
      BY <1>0 DEF Types
    <3> QED BY <2>1, <3>1, <3>2
  <2> QED BY <1>0, <2>2, <2>3, <2>4, <2>5 DEF Types, CallTypes, ObjectTypes
<1>8. CASE SetFormatterEnd(t)
  BY <1>0, <1>8, ReturnTypes DEF SetFormatterEnd, Types, ObjectTypes
<1> QED BY <1>1, <1>2, <1>3, <1>4, <1>5, <1>6, <1>7, <1>8

\* ... and those of appenders, manager and listener.
LEMMA ManagerTypes ==
  ASSUME CallInv, NEW t \in Threads,
         \/ ApSetFormatter(t) \/ NewAppender(t) \/ GetLogger(t)
         \/ MgrToYaml(t) \/ MgrToYamlWalk(t) \/ Assign(t)
  PROVE  CallTypes' /\ ObjectTypes'
<1> USE DEF CallInv, loggerVars, appenderVars
<1>0. Types /\ work[t] # <<>> /\ Cur(t) \in Calls
  <2>1. work[t] # <<>>
    BY DEF ApSetFormatter, NewAppender, GetLogger, MgrToYaml, MgrToYamlWalk, Assign, At
  <2> QED BY <2>1, CurCall
<1>1. CASE ApSetFormatter(t)
  <2>1. Cur(t).x \in Formatters \cup {Null}
    BY <1>0, <1>1, CallFacts DEF ApSetFormatter, At, Cur
  <2>2. Given(Cur(t).a, Cur(t).x) /\ Return(t) /\ UNCHANGED <<loggerVars, apLevel>>
    BY <1>1 DEF ApSetFormatter
  <2> QED BY <1>0, <2>1, <2>2, ReturnTypes DEF Given, Types, ObjectTypes
<1>2. CASE NewAppender(t)
  <2>1. Cur(t).x.level \in Level /\ Cur(t).x.formatter \in Formatters \cup {Bad, Null}
    <3>1. Cur(t).x \in ApDefine
      BY <1>0, <1>2, CallFacts DEF NewAppender, At, Cur
    <3> QED BY <3>1 DEF ApDefine
  <2>2. /\ apLevel' = [apLevel EXCEPT ![Cur(t).a] = Cur(t).x.level]
        /\ \E f \in Formatters \cup {Null} : Given(Cur(t).a, f)
        /\ Return(t) /\ UNCHANGED loggerVars
    BY <1>2, <2>1 DEF NewAppender
  <2>3. apLevel' \in [Appenders -> Level]
    BY <1>0, <2>1, <2>2 DEF Types
  <2> QED BY <1>0, <2>2, <2>3, ReturnTypes DEF Given, Types, ObjectTypes
<1>3. CASE GetLogger(t)
  <2>1. Cur(t).l \in Loggers
    BY <1>0, <1>3, CallFacts DEF GetLogger, At, Cur
  <2> QED BY <1>0, <1>3, <2>1, ReturnTypes DEF GetLogger, Types, ObjectTypes
<1>4. CASE MgrToYaml(t)
  BY <1>0, <1>4, LockTypes, GoToTypes DEF MgrToYaml, Types, CallTypes, ObjectTypes, Pc
<1>5. CASE MgrToYamlWalk(t)
  <2>1. CASE Return(t)
    BY <1>0, <1>5, <2>1, ReturnTypes DEF MgrToYamlWalk, Types, ObjectTypes
  <2>2. CASE pos' = [pos EXCEPT ![t] = @ + 1] /\ UNCHANGED <<work, pc, got, calls, written, owner>>
    BY <1>0, <1>5, <2>2 DEF MgrToYamlWalk, Types, CallTypes, ObjectTypes
  <2> QED BY <1>5, <2>1, <2>2 DEF MgrToYamlWalk
<1>6. CASE Assign(t)
  BY <1>0, <1>6, ReturnTypes DEF Assign, Types, ObjectTypes
<1> QED BY <1>1, <1>2, <1>3, <1>4, <1>5, <1>6

\* A new call is a call, of the program or of the listener.
LEMMA BeginTypes ==
  ASSUME CallInv, NEW t \in Threads,
         (\E o \in Api : Call(t, o)) \/ (\E c \in Configs : SetLogs(t, c))
  PROVE  CallTypes' /\ ObjectTypes'
<1> USE DEF CallInv, loggerVars, appenderVars
<1>1. ASSUME NEW o \in Api, Call(t, o) PROVE CallTypes' /\ ObjectTypes'
  <2>1. <<o>> \in Seq(Calls)
    BY ConstantsAssumption DEF Calls
  <2> QED BY <1>1, <2>1 DEF Call, Types, CallTypes, ObjectTypes
<1>2. ASSUME NEW c \in Configs, SetLogs(t, c) PROVE CallTypes' /\ ObjectTypes'
  <2> DEFINE w == OnChange(logs, c) \o <<Op("Assign", Root, Null, c)>>
  <2>1. w \in Seq(Calls)
    BY SetLogsWord DEF Words
  <2>2. work' = [work EXCEPT ![t] = w]
        /\ UNCHANGED <<loggerVars, appenderVars, owner, pc, pos, got, written>>
    BY <1>2 DEF SetLogs
  <2> HIDE DEF w
  <2> QED BY <2>1, <2>2 DEF Types, CallTypes, ObjectTypes
<1> QED BY <1>1, <1>2

LEMMA TypesStep ==
  ASSUME CallInv, Next
  PROVE  Types'
<1>1. PICK t \in Threads : \/ \E o \in Api : Call(t, o)
                           \/ \E c \in Configs : SetLogs(t, c)
                           \/ Step(t)
  BY DEF Next
<1>2. CallTypes' /\ ObjectTypes'
  BY <1>1, LogTypes, LoggerTypes, ManagerTypes, BeginTypes DEF Step
<1>3. DOMAIN excused' = Threads
  BY DEF Next, Observe
<1> QED BY <1>2, <1>3 DEF Types, CallTypes, ObjectTypes

----------------------------------------------------------------------------
(* Locks and iterators *)

\* A step of thread t leaves the other threads where they are, with their locks,
\* and changes no list whose lock another one has.
Untouched(t) ==
  \A u \in Threads \ {t} :
    /\ work'[u] = work[u] /\ pc'[u] = pc[u] /\ pos'[u] = pos[u] /\ got'[u] = got[u]
    /\ written'[u] = written[u]
    /\ \A k \in Locks : owner'[k] = u <=> owner[k] = u
    /\ \A l \in Loggers : owner[l] = u => mAppenderList'[l] = mAppenderList[l]

\* The part of it that is about the calls.
CallsApart(t) ==
  \A u \in Threads \ {t} :
    /\ work'[u] = work[u] /\ pc'[u] = pc[u] /\ pos'[u] = pos[u] /\ got'[u] = got[u]
    /\ written'[u] = written[u]
    /\ \A k \in Locks : owner'[k] = u <=> owner[k] = u

LEMMA ReturnApart ==
  ASSUME Types, NEW t \in Threads, Return(t)
  PROVE  CallsApart(t)
BY ConstantsAssumption DEF Types, Return, CallsApart

LEMMA LockApart ==
  ASSUME Types, NEW t \in Threads, NEW k, Lock(t, k)
  PROVE  \A u \in Threads \ {t} : \A j \in Locks : owner'[j] = u <=> owner[j] = u
BY ConstantsAssumption DEF Types, Lock, Free

LEMMA GoToApart ==
  ASSUME Types, NEW t \in Threads, NEW p, GoTo(t, p)
  PROVE  \A u \in Threads \ {t} :
           /\ work'[u] = work[u] /\ pc'[u] = pc[u] /\ pos'[u] = pos[u] /\ got'[u] = got[u]
           /\ written'[u] = written[u]
BY DEF Types, GoTo

LEMMA StepCallsApart ==
  ASSUME Types, NEW t \in Threads, 
         \/ \E o \in Api : Call(t, o)
         \/ \E c \in Configs : SetLogs(t, c)
         \/ Step(t)
  PROVE  CallsApart(t)
<1>1. CASE \E o \in Api : Call(t, o)
  BY <1>1 DEF Call, Types, CallsApart
<1>2. CASE \E c \in Configs : SetLogs(t, c)
  BY <1>2 DEF SetLogs, Types, CallsApart
<1>3. CASE Return(t)
  BY <1>3, ReturnApart
<1>4. CASE \E k, p : Lock(t, k) /\ GoTo(t, p)
  BY <1>4, LockApart, GoToApart DEF CallsApart
<1>5. CASE \E p : GoTo(t, p) /\ UNCHANGED owner
  BY <1>5, GoToApart DEF CallsApart
<1>6. CASE LogWalk(t)
  BY <1>6 DEF LogWalk, Types, CallsApart
<1>7. CASE AddAppender(t)
  BY <1>7, LockApart DEF AddAppender, Types, CallsApart
<1>8. CASE SetFormatterWalk(t)
  BY <1>8 DEF SetFormatterWalk, Types, CallsApart
<1>9. CASE pos' = [pos EXCEPT ![t] = @ + 1] /\ UNCHANGED <<work, pc, got, calls, written, owner>>
  BY <1>9 DEF Types, CallsApart
<1>10. CASE Step(t)
  <2>1. Return(t) \/ (\E k, p : Lock(t, k) /\ GoTo(t, p))
        \/ (\E p : GoTo(t, p) /\ UNCHANGED owner) \/ LogWalk(t) \/ AddAppender(t)
        \/ SetFormatterWalk(t)
        \/ (pos' = [pos EXCEPT ![t] = @ + 1] /\ UNCHANGED <<work, pc, got, calls, written, owner>>)
    BY <1>10, Zenon
       DEF Step, LogTest, LogLock, LogEnd, SetLevel, AddAppenderEnd, DelAppender, ClearAppenders,
           SetFormatter, SetFormatterEnd, ApSetFormatter, NewAppender, GetLogger, MgrToYaml,
           MgrToYamlWalk, Assign
  <2> QED BY <1>3, <1>4, <1>5, <1>6, <1>7, <1>8, <1>9, <2>1
<1> QED BY <1>1, <1>2, <1>10

\* Only AddAppender, DelAppender and ClearAppenders change a list, the first one
\* with the lock, the others while nobody has it.
LEMMA ListsApart ==
  ASSUME CallInv, NEW t \in Threads,
         \/ \E o \in Api : Call(t, o)
         \/ \E c \in Configs : SetLogs(t, c)
         \/ Step(t),
         NEW l \in Loggers, mAppenderList'[l] # mAppenderList[l]
  PROVE  owner[l] \in {t, Null}
<1> USE DEF CallInv, Types, loggerVars
<1>1. CASE AddAppenderEnd(t)
  <2>1. l = Cur(t).l /\ At(t, "AddAppender", "add")
    BY <1>1 DEF AddAppenderEnd
  <2>2. owner[Cur(t).l] = t
    BY <2>1 DEF At, HeldBy
  <2> QED BY <2>1, <2>2
<1>2. CASE DelAppender(t)
  BY <1>2 DEF DelAppender, Free
<1>3. CASE ClearAppenders(t)
  BY <1>3 DEF ClearAppenders, Free
<1>4. CASE UNCHANGED mAppenderList
  BY <1>4
<1> QED
  BY <1>1, <1>2, <1>3, <1>4
     DEF Call, SetLogs, Step, LogTest, LogLock, LogWalk, LogEnd, SetLevel, AddAppender,
         SetFormatter, SetFormatterWalk, SetFormatterEnd, ApSetFormatter, NewAppender,
         GetLogger, MgrToYaml, MgrToYamlWalk, Assign

LEMMA StepUntouched ==
  ASSUME CallInv, NEW t \in Threads, 
         \/ \E o \in Api : Call(t, o)
         \/ \E c \in Configs : SetLogs(t, c)
         \/ Step(t)
  PROVE  Untouched(t)
<1>1. CallsApart(t)
  BY StepCallsApart DEF CallInv
<1>2. \A l \in Loggers : mAppenderList'[l] # mAppenderList[l] => owner[l] \in {t, Null}
  BY ListsApart
<1> QED BY <1>1, <1>2, ConstantsAssumption DEF CallsApart, Untouched

\* What is true of the other threads stays so.
LEMMA OthersKept ==
  ASSUME CallInv, NEW t \in Threads, Untouched(t), Observe, NEW u \in Threads, u # t
  PROVE  (HeldBy(u) /\ Walks(u) /\ Told(u))'
<1>1. /\ work'[u] = work[u] /\ pc'[u] = pc[u] /\ pos'[u] = pos[u] /\ written'[u] = written[u]
      /\ \A k \in Locks : owner'[k] = u <=> owner[k] = u
      /\ \A l \in Loggers : owner[l] = u => mAppenderList'[l] = mAppenderList[l]
  BY DEF Untouched
<1>2. Cur(u)' = Cur(u)
  BY <1>1 DEF Cur
<1>3. work[u] # <<>> => Cur(u) \in Calls
  BY CurCall DEF CallInv
<1>4. HeldBy(u) /\ Walks(u) /\ Told(u) /\ Root \in Locks /\ Root \in Loggers
  BY ConstantsAssumption DEF CallInv, Locks
<1>5. HeldBy(u)'
  <2>1. pc[u] = "add" => Cur(u).l \in Locks
    BY <1>3, <1>4, CallFacts DEF HeldBy, Locks
  <2> QED BY <1>1, <1>2, <1>4, <2>1 DEF HeldBy
<1>6. Walks(u)'
  <2> SUFFICES ASSUME pc[u] = "walk", Cur(u).op \in {"Log", "SetFormatter"}
               PROVE  (owner[Walked(u)] = u /\ pos[u] \in DOMAIN mAppenderList[Walked(u)])'
    BY <1>1, <1>2 DEF Walks
  <2>1. Cur(u).l \in Loggers
    BY <1>3, <1>4, CallFacts DEF HeldBy
  <2>2. Walked(u)' = Walked(u) /\ Walked(u) \in Loggers /\ Walked(u) \in Locks
    BY <1>1, <1>2, <1>4, <2>1 DEF Walked, Locks
  <2>3. owner[Walked(u)] = u /\ pos[u] \in DOMAIN mAppenderList[Walked(u)]
    BY <1>4 DEF Walks
  <2> QED BY <1>1, <2>2, <2>3
<1>7. Told(u)'
  <2>1. work[u] # <<>> /\ Cur(u).op = "Log" /\ excused[u] => excused'[u]
    BY <1>1 DEF Observe
  <2> QED BY <1>1, <1>2, <1>4, <2>1 DEF Told
<1> QED BY <1>5, <1>6, <1>7

\* After a call a thread has no lock and is at the beginning of the next one.
LEMMA ReturnKept ==
  ASSUME Types, NEW t \in Threads, Return(t)
  PROVE  (HeldBy(t) /\ Walks(t) /\ Told(t))'
<1>1. pc'[t] = "call" /\ pos'[t] = 1 /\ \A k \in Locks : owner'[k] # t
  BY ConstantsAssumption DEF Types, Return
<1> QED BY <1>1 DEF HeldBy, Walks, Told

\* A thread that logs has the locks that its position says, and what it passes
\* by is written or excused.
LEMMA LogKept ==
  ASSUME CallInv, NEW t \in Threads, LogTest(t) \/ LogLock(t) \/ LogWalk(t) \/ LogEnd(t), Observe
  PROVE  (HeldBy(t) /\ Walks(t) /\ Told(t))'
<1> USE DEF CallInv
<1>0. /\ Types /\ HeldBy(t) /\ Walks(t) /\ Told(t)
      /\ work[t] # <<>> /\ Cur(t).op = "Log" /\ Cur(t).l \in Loggers /\ Cur(t).x \in Level
  <2>1. work[t] # <<>> /\ Cur(t).op = "Log"
    BY DEF LogTest, LogLock, LogWalk, LogEnd, At, Cur
  <2> QED BY <2>1, CurCall, CallFacts
<1>1. CASE Return(t)
  BY <1>1, ReturnKept
<1>2. CASE LogTest(t) /\ GoTo(t, "lock") /\ UNCHANGED owner
  <2>1. pc[t] = "call" /\ pc'[t] = "lock" /\ UNCHANGED <<work, pos, owner>>
    BY <1>2 DEF LogTest, At, GoTo, Types
  <2>2. Cur(t)' = Cur(t)
    BY <2>1 DEF Cur
  <2> QED BY <1>0, <2>1, <2>2 DEF HeldBy, Walks, Told
<1>3. CASE LogLock(t)
  <2> DEFINE l == Logging(t)
  <2>1. /\ pc[t] = "lock" /\ Free(l) /\ owner' = [owner EXCEPT ![l] = t]
        /\ UNCHANGED <<work, pos, mAppenderList, written>>
        /\ pc'[t] = IF mAppenderList[l] # <<>> THEN "walk"
                    ELSE IF MRoot(l) # Null THEN "call" ELSE "end"
    BY <1>3 DEF LogLock, At, Lock, GoTo, Types, loggerVars
  <2>2. Cur(t)' = Cur(t)
    BY <2>1 DEF Cur
  <2>3. pos[t] = 1 /\ \A k \in Locks : owner[k] = t => k = Cur(t).l /\ k # Root
    BY <1>0, <2>1 DEF HeldBy
  <2>4. \/ l = Root /\ \A k \in Locks : owner[k] = t => k = Cur(t).l
        \/ l = Cur(t).l /\ l # Root /\ \A k \in Locks : owner[k] # t
    <3>1. Cur(t).l \in Locks
      BY <1>0 DEF Locks
    <3> QED BY <2>3, <3>1 DEF Logging, MRoot
  <2>5. l \in Locks /\ l \in Loggers /\ Root \in Locks /\ owner[Root] # t
    BY <1>0, <2>3, <2>4, ConstantsAssumption DEF Locks
  <2>6. owner'[l] = t /\ \A k \in Locks : owner'[k] = t => k = l \/ owner[k] = t
    BY <1>0, <2>1, <2>5 DEF Types
  <2>7. HeldBy(t)'
    <3>1. ASSUME NEW k \in Locks, owner'[k] = t
          PROVE  /\ k = Cur(t).l \/ k = Root
                 /\ pc'[t] = "call" => k = Cur(t).l /\ k # Root
      <4>1. k = Cur(t).l \/ k = Root
        BY <2>4, <2>6, <3>1
      <4>2. pc'[t] = "call" => l # Root
        BY <2>1, ConstantsAssumption DEF MRoot
      <4>3. pc'[t] = "call" => k = Cur(t).l /\ k # Root
        BY <2>4, <2>6, <3>1, <4>2
      <4> QED BY <4>1, <4>3
    <3>2. pc'[t] \in {"walk", "call", "end"}
      BY <2>1
    <3> QED BY <1>0, <2>1, <2>2, <2>3, <3>1, <3>2 DEF HeldBy
  <2>8. Walks(t)'
    <3> SUFFICES ASSUME pc'[t] = "walk"
                 PROVE  (owner[Walked(t)] = t /\ pos[t] \in DOMAIN mAppenderList[Walked(t)])'
      BY DEF Walks
    <3>1. mAppenderList[l] # <<>> /\ mAppenderList[l] \in Seq(Appenders)
      BY <1>0, <2>1, <2>5 DEF Types
    <3>2. 1 \in DOMAIN mAppenderList[l]
      BY <3>1
    <3>3. Walked(t)' = l
      <4>1. CASE l = Root
        BY <2>6, <4>1 DEF Walked
      <4>2. CASE l # Root
        <5>1. l = Cur(t).l /\ owner'[Root] # t
          BY <2>4, <2>5, <2>6, <4>2
        <5> QED BY <2>2, <5>1 DEF Walked
      <4> QED BY <4>1, <4>2
    <3> QED BY <2>1, <2>3, <2>6, <3>2, <3>3
  <2>9. Told(t)'
    <3> SUFFICES ASSUME pc'[t] = "end" PROVE excused'[t]
      BY <2>1, <2>3 DEF Told
    <3>1. l = Root /\ mAppenderList[l] = <<>>
      BY <2>1, ConstantsAssumption DEF MRoot
    <3>2. Excused(t)
      BY <3>1 DEF Excused
    <3> QED BY <1>0, <2>1, <3>2 DEF Observe
  <2> QED BY <2>7, <2>8, <2>9
<1>4. CASE LogWalk(t)
  <2> DEFINE l == Walked(t)
             a == mAppenderList[l][pos[t]]
  <2>1. /\ At(t, "Log", "walk") /\ UNCHANGED <<work, owner, mAppenderList>>
        /\ written' = [written EXCEPT ![t] = IF Cur(t).x >= apLevel[a] THEN @ \cup {a} ELSE @]
        /\ pos' = [pos EXCEPT ![t] = @ + 1]
        /\ pc' = [pc EXCEPT ![t] = IF pos[t] = Len(mAppenderList[l]) THEN "end" ELSE @]
    BY <1>4 DEF LogWalk, loggerVars
  <2>2. Cur(t)' = Cur(t) /\ Walked(t)' = l /\ pc[t] = "walk"
    BY <2>1 DEF Cur, Walked, At
  <2>3. owner[l] = t /\ pos[t] \in DOMAIN mAppenderList[l]
    BY <1>0, <2>2 DEF Walks
  <2>4. l \in Loggers
    BY <1>0, ConstantsAssumption DEF Walked
  <2>5. mAppenderList[l] \in Seq(Appenders)
    BY <1>0, <2>4 DEF Types
  <2>6. a \in Appenders
    BY <2>3, <2>5
  <2>7. /\ pos'[t] = pos[t] + 1 /\ pos[t] \in Nat \ {0}
        /\ pc'[t] = IF pos[t] = Len(mAppenderList[l]) THEN "end" ELSE "walk"
        /\ written'[t] = IF Cur(t).x >= apLevel[a] THEN written[t] \cup {a} ELSE written[t]
    BY <1>0, <2>1, <2>2 DEF Types
  <2>8. HeldBy(t)'
    BY <1>0, <2>1, <2>2, <2>7 DEF HeldBy
  <2>9. Walks(t)'
    <3>1. pc'[t] = "walk" => pos[t] + 1 \in DOMAIN mAppenderList[l]
      BY <2>3, <2>5, <2>7
    <3> QED BY <2>1, <2>2, <2>3, <2>7, <3>1 DEF Walks
  <2>10. Told(t)'
    <3>1. CASE Cur(t).x >= apLevel[a]
      BY <2>7, <3>1 DEF Told
    <3>2. CASE ~(Cur(t).x >= apLevel[a])
      <4>1. apLevel \in [Appenders -> Level]
        BY <1>0 DEF Types
      <4>2. Cur(t).x < apLevel[a]
        <5> HIDE DEF a
        <5>1. apLevel[a] \in Level /\ Cur(t).x \in Level
          BY <1>0, <2>6, <4>1
        <5> QED BY <3>2, <5>1 DEF Level
      <4>3. Excused(t)
        BY <2>1, <4>2 DEF Excused
      <4>4. excused'[t]
        BY <1>0, <2>1, <4>3 DEF Observe
      <4> QED BY <4>4 DEF Told
    <3> QED BY <3>1, <3>2
  <2> QED BY <2>8, <2>9, <2>10
<1> QED BY <1>1, <1>2, <1>3, <1>4 DEF LogTest, LogEnd

\* So does one that makes another call.
LEMMA CallKept ==
  ASSUME CallInv, NEW t \in Threads, Observe,
         \/ SetLevel(t) \/ AddAppender(t) \/ AddAppenderEnd(t) \/ DelAppender(t)
         \/ ClearAppenders(t) \/ SetFormatter(t) \/ SetFormatterWalk(t) \/ SetFormatterEnd(t)
         \/ ApSetFormatter(t) \/ NewAppender(t) \/ GetLogger(t)
         \/ MgrToYaml(t) \/ MgrToYamlWalk(t) \/ Assign(t)
  PROVE  (HeldBy(t) /\ Walks(t) /\ Told(t))'
<1> USE DEF CallInv
<1>0. /\ Types /\ HeldBy(t) /\ Walks(t) /\ Told(t)
      /\ work[t] # <<>> /\ Cur(t) \in Calls
  <2>1. work[t] # <<>>
    BY DEF SetLevel, AddAppender, AddAppenderEnd, DelAppender, ClearAppenders, SetFormatter,
           SetFormatterWalk, SetFormatterEnd, ApSetFormatter, NewAppender, GetLogger, MgrToYaml,
           MgrToYamlWalk, Assign, At
  <2> QED BY <2>1, CurCall
<1>1. CASE Return(t)
  BY <1>1, ReturnKept
<1>2. CASE AddAppender(t)
  <2>1. /\ Cur(t).op = "AddAppender" /\ pc'[t] = "add" /\ UNCHANGED <<work, pos>>
        /\ owner' = [owner EXCEPT ![Cur(t).l] = t]
    BY <1>0, <1>2 DEF AddAppender, At, Cur, Lock, Types
  <2>2. Cur(t)' = Cur(t) /\ Cur(t).l \in Locks
    BY <1>0, <2>1, CallFacts DEF Cur, Locks
  <2>3. owner'[Cur(t).l] = t
    BY <1>0, <2>1, <2>2 DEF Types
  <2> QED BY <1>0, <2>1, <2>2, <2>3 DEF HeldBy, Walks, Told
<1>3. CASE SetFormatter(t) /\ Accepts(Cur(t).x)
  <2> DEFINE l == Cur(t).l
  <2>1. /\ Cur(t).op = "SetFormatter" /\ pc[t] = "call"
        /\ owner' = [owner EXCEPT ![l] = t] /\ UNCHANGED <<work, pos, mAppenderList>>
        /\ pc'[t] = IF mAppenderList[l] = <<>> THEN "end" ELSE "walk"
    BY <1>0, <1>3 DEF SetFormatter, At, Cur, Lock, GoTo, Types
  <2>2. Cur(t)' = Cur(t) /\ l \in Locks /\ l \in Loggers
    BY <1>0, <2>1, CallFacts DEF Cur, Locks
  <2>3. pos[t] = 1 /\ \A k \in Locks : owner[k] # t
    BY <1>0, <2>1 DEF HeldBy
  <2>4. owner'[l] = t /\ \A k \in Locks : owner'[k] = t => k = l
    BY <1>0, <2>1, <2>2, <2>3 DEF Types
  <2>5. HeldBy(t)'
    BY <1>0, <2>1, <2>2, <2>4 DEF HeldBy
  <2>6. Walked(t)' = l
    BY <2>2, <2>4, ConstantsAssumption DEF Walked, Locks
  <2>7. pc'[t] = "walk" => 1 \in DOMAIN mAppenderList[l]
    <3>1. mAppenderList[l] \in Seq(Appenders)
      BY <1>0, <2>2 DEF Types
    <3> QED BY <2>1, <3>1
  <2>8. Walks(t)'
    BY <2>1, <2>3, <2>4, <2>6, <2>7 DEF Walks
  <2>9. Told(t)'
    BY <2>1, <2>2 DEF Told
  <2> QED BY <2>5, <2>8, <2>9
<1>4. CASE SetFormatterWalk(t)
  <2> DEFINE l == Cur(t).l
  <2>1. /\ Cur(t).op = "SetFormatter" /\ pc[t] = "walk" /\ UNCHANGED <<work, owner, mAppenderList>>
        /\ pos'[t] = pos[t] + 1 /\ pos[t] \in Nat \ {0}
        /\ pc'[t] = IF pos[t] = Len(mAppenderList[l]) THEN "end" ELSE "walk"
    BY <1>0, <1>4 DEF SetFormatterWalk, At, Cur, Types, loggerVars
  <2>2. Cur(t)' = Cur(t) /\ Walked(t)' = Walked(t) /\ l \in Loggers /\ Root \in Locks
    BY <1>0, <2>1, CallFacts, ConstantsAssumption DEF Cur, Walked, Locks
  <2>3. Walked(t) = l
    BY <1>0, <2>1, <2>2 DEF HeldBy, Walked
  <2>4. owner[l] = t /\ pos[t] \in DOMAIN mAppenderList[l]
    BY <1>0, <2>1, <2>3 DEF Walks
  <2>5. pc'[t] = "walk" => pos[t] + 1 \in DOMAIN mAppenderList[l]
    <3>1. mAppenderList[l] \in Seq(Appenders)
      BY <1>0, <2>2 DEF Types
    <3> QED BY <2>1, <2>4, <3>1
  <2>6. HeldBy(t)'
    BY <1>0, <2>1, <2>2 DEF HeldBy
  <2>7. Walks(t)'
    BY <2>1, <2>2, <2>3, <2>4, <2>5 DEF Walks
  <2>8. Told(t)'
    BY <2>1, <2>2 DEF Told
  <2> QED BY <2>6, <2>7, <2>8
<1>5. CASE MgrToYaml(t)
  <2>1. Cur(t).op = "MgrToYaml" /\ pc'[t] = "walk" /\ UNCHANGED work
    BY <1>0, <1>5 DEF MgrToYaml, At, Cur, GoTo, Types
  <2>2. Cur(t)' = Cur(t)
    BY <2>1 DEF Cur
  <2> QED BY <1>0, <2>1, <2>2 DEF HeldBy, Walks, Told
<1>6. CASE MgrToYamlWalk(t) /\ UNCHANGED <<work, pc, got, calls, written, owner>>
  <2>1. Cur(t).op = "MgrToYaml" /\ pc[t] = "walk" /\ UNCHANGED <<work, pc, owner>>
    BY <1>0, <1>6 DEF MgrToYamlWalk, At, Cur
  <2>2. Cur(t)' = Cur(t)
    BY <2>1 DEF Cur
  <2> QED BY <1>0, <2>1, <2>2 DEF HeldBy, Walks, Told
<1> QED
  BY <1>1, <1>2, <1>3, <1>4, <1>5, <1>6, Zenon
     DEF SetLevel, AddAppenderEnd, DelAppender, ClearAppenders, SetFormatter, SetFormatterEnd,
         ApSetFormatter, NewAppender, GetLogger, MgrToYamlWalk, Assign

\* A call begins without locks.
LEMMA BeginKept ==
  ASSUME CallInv, NEW t \in Threads,
         (\E o \in Api : Call(t, o)) \/ (\E c \in Configs : SetLogs(t, c))
  PROVE  (HeldBy(t) /\ Walks(t) /\ Told(t))'
<1>1. work[t] = <<>> /\ UNCHANGED <<pc, pos, owner>>
  BY DEF Call, SetLogs
<1>2. HeldBy(t)
  BY DEF CallInv
<1>3. pc[t] = "call" /\ pos[t] = 1 /\ \A k \in Locks : owner[k] # t
  BY <1>1, <1>2 DEF HeldBy
<1> QED BY <1>1, <1>3 DEF HeldBy, Walks, Told

LEMMA CallInvStep ==
  ASSUME CallInv, [Next]_vars
  PROVE  CallInv'
<1>1. CASE UNCHANGED vars
  BY <1>1 DEF vars, loggerVars, appenderVars, callVars, CallInv, Types, HeldBy, Walks, Told,
              Cur, Walked
<1>2. CASE Next
  <2>1. PICK t \in Threads : \/ \E o \in Api : Call(t, o)
                             \/ \E c \in Configs : SetLogs(t, c)
                             \/ Step(t)
    BY <1>2 DEF Next
  <2>2. Observe
    BY <1>2 DEF Next
  <2>3. (HeldBy(t) /\ Walks(t) /\ Told(t))'
    BY <2>1, <2>2, LogKept, CallKept, BeginKept DEF Step
  <2>4. ASSUME NEW u \in Threads, u # t PROVE (HeldBy(u) /\ Walks(u) /\ Told(u))'
    BY <2>1, <2>2, <2>4, StepUntouched, OthersKept
  <2> QED BY <1>2, <2>3, <2>4, TypesStep DEF CallInv
<1> QED BY <1>1, <1>2

LEMMA CallInvariant == Spec => []CallInv
<1>1. Init => CallInv
  BY InitInv DEF FormatterInv
<1> QED BY <1>1, CallInvStep, PTL DEF Spec

\* The iterators of Log and SetFormatter stay valid, whatever the other threads
\* and the configuration do to the lists.
THEOREM IteratorsStayValid == Spec => []IteratorsValid
<1>1. CallInv => IteratorsValid
  BY DEF CallInv, Walks, IteratorsValid
<1> QED BY <1>1, CallInvariant, PTL

\* A message that passes the levels is written, by its logger or by the root
\* logger.
THEOREM MessagesAreDelivered == Spec => []Delivered
<1>1. CallInv => Delivered
  BY DEF CallInv, Told, Delivered, At, Cur
<1> QED BY <1>1, CallInvariant, PTL

----------------------------------------------------------------------------
(* Who uses an appender *)

\* What a thread has to do becomes less by one call, or stays.
LEMMA WorkStep ==
  ASSUME NEW t \in Threads, Step(t)
  PROVE  /\ work[t] # <<>>
         /\ UNCHANGED work \/ Return(t)
<1>1. work[t] # <<>>
  BY DEF Step, LogTest, LogLock, LogWalk, LogEnd, SetLevel, AddAppender, AddAppenderEnd,
         DelAppender, ClearAppenders, SetFormatter, SetFormatterWalk, SetFormatterEnd,
         ApSetFormatter, NewAppender, GetLogger, MgrToYaml, MgrToYamlWalk, Assign, At
<1>2. UNCHANGED work \/ Return(t)
  BY Zenon
     DEF Step, LogTest, LogLock, LogWalk, LogEnd, SetLevel, AddAppender, AddAppenderEnd,
         DelAppender, ClearAppenders, SetFormatter, SetFormatterWalk, SetFormatterEnd,
         ApSetFormatter, NewAppender, GetLogger, MgrToYaml, MgrToYamlWalk, Assign, GoTo
<1> QED BY <1>1, <1>2

LEMMA PrivateTail ==
  ASSUME NEW w \in Seq(Calls), w # <<>>, Private(w)
  PROVE  Private(Tail(w))
<1> DEFINE v == Tail(w)
<1>1. \A i \in DOMAIN v : i + 1 \in DOMAIN w /\ v[i] = w[i+1]
  OBVIOUS
<1> HIDE DEF v
<1> QED BY <1>1 DEF Private, v

\* Two threads never use the same appender.
LEMMA UsesApart ==
  ASSUME CallInv, WorkInv, NEW t \in Threads, NEW u \in Threads, t # u,
         work[t] # <<>>, work[u] # <<>>, Uses(Cur(t)), Uses(Cur(u))
  PROVE  Cur(t).a # Cur(u).a
<1>1. ASSUME NEW s \in Setters, work[s] # <<>>, Uses(Cur(s)) PROVE Cur(s).a \in Made
  <2>1. Private(work[s]) /\ s \in Threads
    BY ConstantsAssumption DEF WorkInv
  <2>2. 1 \in DOMAIN work[s]
    BY <1>1, <2>1 DEF CallInv, Types
  <2>3. Cur(s).op = "AddAppender" \/ Cur(s).op = "NewAppender"
    BY <1>1, <2>1, <2>2 DEF Private, Cur, Uses
  <2>4. Cur(s) \in Calls
    BY <1>1, <2>1, CurCall DEF CallInv
  <2> QED BY <2>1, <2>2, <2>3, <2>4, CallFacts DEF Private, Cur
<1>2. ASSUME NEW s \in Threads \ Setters, work[s] # <<>>, Uses(Cur(s)) PROVE Cur(s).a \notin Made
  <2>1. Cur(s) \in Api
    BY <1>2 DEF WorkInv
  <2>2. Cur(s).op # "NewAppender"
    BY <2>1, ConstantsAssumption DEF ApiCalls
  <2> QED BY <1>2, <2>1, <2>2, ConstantsAssumption DEF Uses
<1>3. CASE t \in Setters /\ u \in Setters
  BY <1>3 DEF WorkInv
<1>4. CASE t \notin Setters /\ u \notin Setters
  BY <1>4 DEF WorkInv
<1> QED BY <1>1, <1>2, <1>3, <1>4

\* The invariant after a change of one thread's work.
LEMMA WorkChange ==
  ASSUME WorkInv, NEW t \in Threads,
         \A u \in Threads : u # t => work'[u] = work[u],
         t \in Setters => Private(work'[t]),
         t \in Setters /\ work'[t] # <<>> => \A u \in Setters : u # t => work[u] = <<>>,
         t \notin Setters /\ work'[t] # <<>> => Tail(work'[t]) = <<>> /\ work'[t][1] \in Api,
         t \notin Setters /\ work'[t] # <<>> /\ Uses(work'[t][1]) =>
           \A u \in Threads \ Setters :
             u # t /\ work[u] # <<>> /\ Uses(work[u][1]) => work[u][1].a # work'[t][1].a
  PROVE  WorkInv'
<1>0. Setters \subseteq Threads
  BY ConstantsAssumption
<1>1. (\A s \in Setters : Private(work[s]))'
  <2> SUFFICES ASSUME NEW s \in Setters PROVE Private(work'[s])
    BY DEF Private
  <2> QED BY <1>0 DEF WorkInv
<1>2. (\A s, u \in Setters : work[s] # <<>> /\ work[u] # <<>> => s = u)'
  BY <1>0 DEF WorkInv
<1>3. (\A u \in Threads \ Setters : work[u] # <<>> => Tail(work[u]) = <<>> /\ Cur(u) \in Api)'
  BY DEF WorkInv, Cur
<1>4. (\A s, u \in Threads \ Setters :
         work[s] # <<>> /\ work[u] # <<>> /\ Uses(Cur(s)) /\ Uses(Cur(u))
           /\ Cur(s).a = Cur(u).a => s = u)'
  <2> SUFFICES ASSUME NEW s \in Threads \ Setters, NEW u \in Threads \ Setters,
                      work'[s] # <<>>, work'[u] # <<>>, Uses(work'[s][1]), Uses(work'[u][1]),
                      work'[s][1].a = work'[u][1].a
               PROVE  s = u
    BY DEF Uses, Cur
  <2>1. CASE s # t /\ u # t
    BY <2>1 DEF WorkInv, Cur
  <2>2. CASE s = t /\ u # t
    BY <2>2
  <2>3. CASE s # t /\ u = t
    BY <2>3
  <2> QED BY <2>1, <2>2, <2>3
<1> QED BY <1>1, <1>2, <1>3, <1>4 DEF WorkInv

LEMMA WorkInvStep ==
  ASSUME Apart, CallInv, WorkInv, NEW t \in Threads,
         \/ \E o \in Api : Call(t, o)
         \/ \E c \in Configs : SetLogs(t, c)
         \/ Step(t)
  PROVE  WorkInv'
<1> USE DEF CallInv
<1>0. \A u \in Threads : u # t => work'[u] = work[u]
  BY StepUntouched DEF Untouched
<1>1. Types /\ work[t] \in Seq(Calls)
  BY DEF Types
<1>2. ASSUME NEW o \in Api, Call(t, o) PROVE WorkInv'
  <2>1. t \notin Setters /\ work'[t] = <<o>> /\ MayCall(o)
    BY <1>1, <1>2 DEF Call, Types
  <2>2. work'[t][1] = o /\ Tail(work'[t]) = <<>>
    BY <2>1
  <2>3. ASSUME NEW u \in Threads \ Setters, u # t, work[u] # <<>>, Uses(o)
        PROVE  work[u][1].a # o.a
    <3>1. o.op # "NewAppender"
      BY ConstantsAssumption DEF ApiCalls
    <3>2. ~InUse(o.a)
      BY <2>1, <2>3, <3>1 DEF MayCall, Uses
    <3>3. 1 \in DOMAIN work[u]
      <4>1. work[u] \in Seq(Calls)
        BY <1>1 DEF Types
      <4> QED BY <2>3, <4>1
    <3> QED BY <3>2, <3>3 DEF InUse
  <2> QED BY <1>0, <2>1, <2>2, <2>3, WorkChange
<1>3. ASSUME NEW c \in Configs, SetLogs(t, c) PROVE WorkInv'
  <2>1. t \in Setters /\ work'[t] \in Words /\ \A u \in Setters : work[u] = <<>>
    BY <1>1, <1>3, SetLogsWord DEF SetLogs, Types
  <2>2. Private(work'[t])
    BY <2>1 DEF Words
  <2> QED BY <1>0, <2>1, <2>2, WorkChange
<1>4. CASE UNCHANGED work
  BY <1>4 DEF WorkInv, Cur
<1>5. CASE Step(t) /\ Return(t)
  <2>1. work[t] # <<>> /\ work'[t] = Tail(work[t])
    BY <1>1, <1>5, WorkStep DEF Return, Types
  <2>2. CASE t \in Setters
    <3>1. Private(work'[t])
      BY <1>1, <2>1, <2>2, PrivateTail DEF WorkInv
    <3>2. \A u \in Setters : u # t => work[u] = <<>>
      BY <2>1, <2>2 DEF WorkInv
    <3> QED BY <1>0, <2>2, <3>1, <3>2, WorkChange
  <2>3. CASE t \notin Setters
    <3>1. work'[t] = <<>>
      BY <2>1, <2>3 DEF WorkInv
    <3> QED BY <1>0, <2>3, <3>1, WorkChange
  <2> QED BY <2>2, <2>3
<1> QED BY <1>2, <1>3, <1>4, <1>5, WorkStep

----------------------------------------------------------------------------
(* Formatters *)

\* An appender gets into a list only by AddAppender.
LEMMA StaysUnlisted ==
  ASSUME CallInv, NEW t \in Threads,
         \/ \E o \in Api : Call(t, o)
         \/ \E c \in Configs : SetLogs(t, c)
         \/ Step(t),
         NEW a \in Appenders, ~Listed(a), AddAppenderEnd(t) => Cur(t).a # a
  PROVE  ~Listed(a)'
<1> USE DEF CallInv, loggerVars
<1>0. /\ Types
      /\ \A l \in Loggers : \A i \in DOMAIN mAppenderList[l] : mAppenderList[l][i] # a
  BY DEF Listed, Range
<1> SUFFICES ASSUME NEW l \in Loggers, NEW i \in DOMAIN mAppenderList'[l]
             PROVE  mAppenderList'[l][i] # a
  BY DEF Listed, Range
<1>1. CASE AddAppenderEnd(t)
  <2> DEFINE k == Cur(t).l
             b == Cur(t).a
  <2>1. mAppenderList' = [mAppenderList EXCEPT ![k] = Append(@, b)] /\ work[t] # <<>> 
        /\ Cur(t).op = "AddAppender"
    BY <1>1 DEF AddAppenderEnd, At, Cur
  <2>2. b \in Appenders /\ b # a
    BY <1>0, <1>1, <2>1, CurCall, CallFacts
  <2> HIDE DEF k, b
  <2>3. CASE l = k
    <3>1. mAppenderList'[l] = Append(mAppenderList[l], b) /\ mAppenderList[l] \in Seq(Appenders)
      BY <1>0, <2>1, <2>3 DEF Types
    <3>2. \/ i \in DOMAIN mAppenderList[l] /\ mAppenderList'[l][i] = mAppenderList[l][i]
          \/ mAppenderList'[l][i] = b
      BY <2>2, <3>1
    <3> QED BY <1>0, <2>2, <3>2
  <2>4. CASE l # k
    BY <1>0, <2>1, <2>4 DEF Types
  <2> QED BY <2>3, <2>4
<1>2. CASE DelAppender(t)
  <2> DEFINE k == Cur(t).l
             b == Cur(t).a
  <2>1. mAppenderList' = [mAppenderList EXCEPT ![k] = RemoveFirst(@, b)]
    BY <1>2 DEF DelAppender
  <2> HIDE DEF k, b
  <2>2. CASE l = k
    <3>1. mAppenderList'[l] = RemoveFirst(mAppenderList[l], b) /\ mAppenderList[l] \in Seq(Appenders)
      BY <1>0, <2>1, <2>2 DEF Types
    <3>2. \E j \in DOMAIN mAppenderList[l] : mAppenderList'[l][i] = mAppenderList[l][j]
      BY <3>1, RemoveFirstType
    <3> QED BY <1>0, <3>2
  <2>3. CASE l # k
    BY <1>0, <2>1, <2>3 DEF Types
  <2> QED BY <2>2, <2>3
<1>3. CASE ClearAppenders(t)
  <2>1. mAppenderList'[l] = <<>> \/ mAppenderList'[l] = mAppenderList[l]
    BY <1>0, <1>3 DEF ClearAppenders, Types
  <2> QED BY <1>0, <2>1
<1>4. CASE UNCHANGED mAppenderList
  BY <1>0, <1>4
<1> QED
  BY <1>1, <1>2, <1>3, <1>4
     DEF Call, SetLogs, Step, LogTest, LogLock, LogWalk, LogEnd, SetLevel, AddAppender,
         SetFormatter, SetFormatterWalk, SetFormatterEnd, ApSetFormatter, NewAppender,
         GetLogger, MgrToYaml, MgrToYamlWalk, Assign

\* Only calls that use an appender give it a formatter of its own or take its
\* formatter away; others leave it alone or give it a logger's.
LEMMA StaysOwn ==
  ASSUME CallInv, NEW t \in Threads,
         \/ \E o \in Api : Call(t, o)
         \/ \E c \in Configs : SetLogs(t, c)
         \/ Step(t),
         NEW a \in Appenders,
         work[t] # <<>> /\ Uses(Cur(t)) => Cur(t).a # a
  PROVE  own'[a] = own[a] /\ (apFormatter[a] # Null => apFormatter'[a] # Null)
<1> USE DEF CallInv, appenderVars
<1>0. Types /\ HeldBy(t) /\ Walks(t)
  OBVIOUS
<1>1. CASE AddAppenderEnd(t)
  <2>1. Cur(t).a # a
    BY <1>1 DEF AddAppenderEnd, At, Uses, Cur
  <2> QED BY <1>0, <1>1, <2>1 DEF AddAppenderEnd, Types
<1>2. CASE SetFormatterWalk(t)
  <2> DEFINE l == Cur(t).l
             b == mAppenderList[l][pos[t]]
  <2>1. /\ apFormatter' = [apFormatter EXCEPT ![b] = IF Inherits(b) THEN mFormatter[l] ELSE @]
        /\ UNCHANGED own
        /\ work[t] # <<>> /\ Cur(t).op = "SetFormatter" /\ pc[t] = "walk"
    BY <1>2 DEF SetFormatterWalk, At, Cur
  <2>2. l \in Loggers
    BY <1>0, <2>1, CurCall, CallFacts
  <2>3. mFormatter[l] # Null
    BY <1>0, <2>2, ConstantsAssumption DEF Types
  <2> HIDE DEF l, b
  <2> QED BY <1>0, <2>1, <2>3 DEF Types
<1>3. CASE ApSetFormatter(t)
  <2>1. Cur(t).a # a
    BY <1>3 DEF ApSetFormatter, At, Uses, Cur
  <2> QED BY <1>0, <1>3, <2>1 DEF ApSetFormatter, Given, Types
<1>4. CASE NewAppender(t)
  <2>1. Cur(t).a # a
    BY <1>4 DEF NewAppender, At, Uses, Cur
  <2>2. \E f : Given(Cur(t).a, f)
    BY <1>4 DEF NewAppender
  <2> QED BY <1>0, <2>1, <2>2 DEF Given, Types
<1>5. CASE UNCHANGED <<apFormatter, own>>
  BY <1>5
<1> QED
  BY <1>1, <1>2, <1>3, <1>4, <1>5
     DEF Call, SetLogs, Step, LogTest, LogLock, LogWalk, LogEnd, SetLevel, AddAppender,
         DelAppender, ClearAppenders, SetFormatter, SetFormatterEnd,
         GetLogger, MgrToYaml, MgrToYamlWalk, Assign

\* What FreshInv says of one thread.
FreshFor(t) ==
  work[t] # <<>> =>
    /\ pc[t] = "add" => IF got[t] = Null THEN own[Cur(t).a] = Null
                        ELSE apFormatter[Cur(t).a] # Null
    /\ Cur(t).op = "ApSetFormatter" /\ Cur(t).x = Null => ~Listed(Cur(t).a)

\* What a thread has found out about the appender it uses stays so.
LEMMA FreshOthers ==
  ASSUME CallInv, WorkInv, FreshInv, NEW t \in Threads,
         \/ \E o \in Api : Call(t, o)
         \/ \E c \in Configs : SetLogs(t, c)
         \/ Step(t),
         NEW u \in Threads, u # t
  PROVE  FreshFor(u)'
<1>1. work'[u] = work[u] /\ pc'[u] = pc[u] /\ got'[u] = got[u] /\ Cur(u)' = Cur(u)
  BY StepUntouched DEF Untouched, Cur
<1>2. FreshFor(u) /\ HeldBy(u)
  BY DEF FreshInv, FreshFor, CallInv
<1> DEFINE a == Cur(u).a
<1>3. ASSUME work[u] # <<>>, Uses(Cur(u)) PROVE work[t] # <<>> /\ Uses(Cur(t)) => Cur(t).a # a
  BY <1>3, UsesApart
<1>4. ASSUME work[u] # <<>>, Uses(Cur(u)), a \in Appenders
      PROVE  /\ ~Listed(a) => ~Listed(a)'
             /\ own'[a] = own[a] /\ (apFormatter[a] # Null => apFormatter'[a] # Null)
  <2>1. AddAppenderEnd(t) => work[t] # <<>> /\ Uses(Cur(t))
    BY DEF AddAppenderEnd, At, Uses, Cur
  <2>2. AddAppenderEnd(t) => Cur(t).a # a
    BY <1>3, <1>4, <2>1
  <2>3. a' = a
    BY <1>1
  <2>4. PICK b : b = a
    OBVIOUS
  <2>5. b \in Appenders /\ (AddAppenderEnd(t) => Cur(t).a # b)
        /\ (work[t] # <<>> /\ Uses(Cur(t)) => Cur(t).a # b)
    BY <1>3, <1>4, <2>2, <2>4
  <2>6. ~Listed(b) => ~Listed(b)'
    BY <2>5, StaysUnlisted
  <2>7. own'[b] = own[b] /\ (apFormatter[b] # Null => apFormatter'[b] # Null)
    BY <2>5, StaysOwn
  <2> QED BY <2>3, <2>4, <2>6, <2>7 DEF Listed
<1>5. work[u] # <<>> => Cur(u) \in Calls
  BY CurCall DEF CallInv
<1>6. ASSUME work[u] # <<>>, Cur(u).op = "AddAppender" \/ Cur(u).op = "ApSetFormatter"
      PROVE  Uses(Cur(u)) /\ a \in Appenders
  BY <1>5, <1>6, CallFacts DEF Uses
<1>7. a' = a
  BY <1>1
<1>8. pc[u] = "add" => Cur(u).op = "AddAppender"
  BY <1>2 DEF HeldBy
<1> QED BY <1>1, <1>2, <1>4, <1>6, <1>7, <1>8 DEF FreshFor, Listed

\* A listener never calls an appender's SetFormatter outside of NewAppender.
LEMMA NextCall ==
  ASSUME CallInv, WorkInv, NEW t \in Threads, work[t] # <<>>, work'[t] = Tail(work[t]),
         work'[t] # <<>>
  PROVE  Cur(t)'.op # "ApSetFormatter"
<1>1. t \in Setters
  BY DEF WorkInv
<1>2. Private(work[t])
  BY <1>1 DEF WorkInv
<1>3. work[t] \in Seq(Calls)
  BY DEF CallInv, Types
<1>4. 2 \in DOMAIN work[t] /\ work'[t][1] = work[t][2]
  BY <1>3
<1> QED BY <1>2, <1>4 DEF Private, Cur

LEMMA FreshOwn ==
  ASSUME CallInv, WorkInv, FreshInv, OwnKept, NEW t \in Threads,
         \/ \E o \in Api : Call(t, o)
         \/ \E c \in Configs : SetLogs(t, c)
         \/ Step(t)
  PROVE  FreshFor(t)'
<1> USE DEF CallInv
<1>0. Types /\ HeldBy(t) /\ FreshFor(t)
  BY DEF FreshInv, FreshFor
<1>1. ASSUME NEW o \in Api, Call(t, o) PROVE FreshFor(t)'
  <2>1. /\ work[t] = <<>> /\ work'[t] = <<o>> /\ MayCall(o)
        /\ UNCHANGED <<pc, mAppenderList, apFormatter, own>>
    BY <1>0, <1>1 DEF Call, Types, loggerVars, appenderVars
  <2>2. Cur(t)' = o /\ pc'[t] = "call"
    BY <1>0, <2>1 DEF Cur, HeldBy
  <2>3. Listed(o.a)' <=> Listed(o.a)
    BY <2>1 DEF Listed
  <2> QED BY <2>1, <2>2, <2>3 DEF FreshFor, MayCall, Listed
<1>2. ASSUME NEW c \in Configs, SetLogs(t, c) PROVE FreshFor(t)'
  <2>1. work'[t] \in Words
    BY <1>0, <1>2, SetLogsWord DEF SetLogs, Types
  <2>2. work'[t] # <<>> => 1 \in DOMAIN work'[t]
    BY <2>1 DEF Words
  <2>3. work'[t] # <<>> => Cur(t)'.op # "ApSetFormatter"
    BY <2>1, <2>2 DEF Words, Private, Cur
  <2>4. pc'[t] = "call"
    BY <1>0, <1>2 DEF SetLogs, HeldBy, Types, Pc
  <2> QED BY <2>3, <2>4 DEF FreshFor
<1>3. CASE Step(t) /\ UNCHANGED work
  <2>1. work[t] # <<>> /\ Cur(t)' = Cur(t) /\ Cur(t) \in Calls
    BY <1>0, <1>3, WorkStep, CurCall DEF Cur
  <2>2. CASE AddAppender(t)
    <3>1. /\ Cur(t).op = "AddAppender" /\ got'[t] = apFormatter[Cur(t).a]
          /\ UNCHANGED <<mAppenderList, apFormatter, own>>
      BY <1>0, <2>2 DEF AddAppender, At, Cur, Types, loggerVars, appenderVars
    <3>2. Cur(t).a \in Appenders
      BY <2>1, <3>1, CallFacts
    <3>3. PICK a \in Appenders : a = Cur(t).a
      BY <3>2
    <3>4. apFormatter[a] = Null => own[a] = Null
      BY DEF OwnKept
    <3> QED BY <2>1, <3>1, <3>3, <3>4 DEF FreshFor
  <2>3. CASE Cur(t).op \notin {"AddAppender", "ApSetFormatter"}
    <3>1. pc'[t] # "add"
      BY <1>0, <1>3, <2>3
         DEF HeldBy, Step, LogTest, LogLock, LogWalk, LogEnd, SetLevel, AddAppender, AddAppenderEnd,
             DelAppender, ClearAppenders, SetFormatter, SetFormatterWalk, SetFormatterEnd,
             ApSetFormatter, NewAppender, GetLogger, MgrToYaml, MgrToYamlWalk, Assign, At, Cur,
             GoTo, Return, Types
    <3> QED BY <2>1, <2>3, <3>1 DEF FreshFor
  <2>4. CASE Return(t)
    <3>1. work[t] \in Seq(Calls) /\ work'[t] = Tail(work[t])
      BY <1>0, <2>4 DEF Return, Types
    <3>2. Len(work'[t]) # Len(work[t])
      BY <2>1, <3>1
    <3> QED BY <1>3, <3>2
  <2>5. \/ AddAppender(t) \/ Return(t) \/ Cur(t).op \notin {"AddAppender", "ApSetFormatter"}
    BY <1>3
       DEF Step, LogTest, LogLock, LogWalk, LogEnd, SetLevel, AddAppenderEnd,
           DelAppender, ClearAppenders, SetFormatter, SetFormatterWalk, SetFormatterEnd,
           ApSetFormatter, NewAppender, GetLogger, MgrToYaml, MgrToYamlWalk, Assign, At, Cur
  <2> QED BY <2>2, <2>3, <2>4, <2>5
<1>4. CASE Step(t) /\ Return(t)
  <2>1. work[t] # <<>> /\ work'[t] = Tail(work[t]) /\ pc'[t] = "call"
    BY <1>0, <1>4, WorkStep DEF Return, Types
  <2>2. work'[t] # <<>> => Cur(t)'.op # "ApSetFormatter"
    BY <2>1, NextCall
  <2> QED BY <2>1, <2>2 DEF FreshFor
<1> QED BY <1>1, <1>2, <1>3, <1>4, WorkStep

LEMMA FreshStep ==
  ASSUME CallInv, WorkInv, FreshInv, OwnKept, NEW t \in Threads,
         \/ \E o \in Api : Call(t, o)
         \/ \E c \in Configs : SetLogs(t, c)
         \/ Step(t)
  PROVE  FreshInv'
<1>1. \A u \in Threads : FreshFor(u)'
  BY FreshOwn, FreshOthers
<1> QED BY <1>1 DEF FreshInv, FreshFor

\* Only SetFormatter itself moves a SetFormatter on.
LEMMA AheadKept ==
  ASSUME CallInv, NEW t \in Threads, Untouched(t),
         ~(Cur(t).op = "SetFormatter" /\ pc[t] = "walk"),
         NEW l \in Loggers, NEW i, Ahead(l, i)
  PROVE  Ahead(l, i)'
<1>1. PICK u \in Threads : owner[l] = u /\ Cur(u).op = "SetFormatter" /\ pc[u] = "walk" /\ pos[u] <= i
  BY DEF Ahead
<1>2. u # t /\ l \in Locks
  BY <1>1 DEF Locks
<1>3. owner'[l] = u /\ work'[u] = work[u] /\ pc'[u] = pc[u] /\ pos'[u] = pos[u]
  BY <1>1, <1>2 DEF Untouched
<1> QED BY <1>1, <1>3 DEF Ahead, Cur

\* Nobody is on the way through a list whose lock nobody has.
LEMMA NoneAhead ==
  ASSUME CallInv, NEW l \in Loggers, NEW t \in Threads, owner[l] = Null \/ owner[l] = t,
         ~(Cur(t).op = "SetFormatter" /\ pc[t] = "walk"), NEW i
  PROVE  ~Ahead(l, i)
BY ConstantsAssumption DEF Ahead

\* Steps that change neither lists nor formatters.
LEMMA FollowSame ==
  ASSUME CallInv, FollowInv, NEW t \in Threads, Untouched(t),
         ~(Cur(t).op = "SetFormatter" /\ pc[t] = "walk"),
         UNCHANGED <<mFormatter, mAppenderList, apFormatter, bHasFormatter, own, giver>>
  PROVE  FollowInv'
<1>1. ASSUME NEW l \in Loggers, NEW i \in DOMAIN mAppenderList[l] PROVE Follows(l, i)'
  <2>1. Ahead(l, i) => Ahead(l, i)'
    BY AheadKept
  <2>2. Follows(l, i)
    BY DEF FollowInv
  <2> QED BY <2>1, <2>2 DEF Follows
<1>2. OwnKept'
  BY DEF FollowInv, OwnKept
<1> QED BY <1>1, <1>2 DEF FollowInv

\* Steps that change the formatter of one appender that is in no list, or give it
\* one of its own.
LEMMA FollowGiven ==
  ASSUME CallInv, FollowInv, NEW t \in Threads, Untouched(t),
         ~(Cur(t).op = "SetFormatter" /\ pc[t] = "walk"),
         NEW a \in Appenders, NEW f, Given(a, f), f # Null \/ ~Listed(a),
         UNCHANGED <<mFormatter, mAppenderList>>
  PROVE  FollowInv'
<1>0. Types
  BY DEF CallInv
<1>1. /\ apFormatter'[a] = f /\ own'[a] = f /\ bHasFormatter'[a] = (f # Null) /\ giver'[a] = Null
      /\ \A b \in Appenders : b # a =>
           /\ apFormatter'[b] = apFormatter[b] /\ own'[b] = own[b]
           /\ bHasFormatter'[b] = bHasFormatter[b] /\ giver'[b] = giver[b]
  BY <1>0 DEF Given, Types
<1>2. ASSUME NEW l \in Loggers, NEW i \in DOMAIN mAppenderList[l] PROVE Follows(l, i)'
  <2> DEFINE b == mAppenderList[l][i]
  <2>1. Ahead(l, i) => Ahead(l, i)'
    BY AheadKept
  <2>2. Follows(l, i)
    BY DEF FollowInv
  <2>3. b \in Appenders /\ l # Null
    <3>1. mAppenderList[l] \in Seq(Appenders)
      BY <1>0 DEF Types
    <3> QED BY <3>1, ConstantsAssumption
  <2>4. CASE b = a
    <3>1. f # Null
      BY <2>4 DEF Listed, Range
    <3> QED BY <1>1, <2>3, <2>4, <3>1 DEF Follows
  <2>5. CASE b # a
    BY <1>1, <2>1, <2>2, <2>3, <2>5 DEF Follows
  <2> QED BY <2>4, <2>5
<1>3. OwnKept'
  BY <1>1 DEF FollowInv, OwnKept
<1> QED BY <1>2, <1>3 DEF FollowInv

\* An appender is added with a formatter, its logger's if it had none; in the
\* lists that it is in already it then no longer counts as given by their loggers.
LEMMA FollowAdd ==
  ASSUME CallInv, FreshInv, FollowInv, NEW t \in Threads, Untouched(t), AddAppenderEnd(t)
  PROVE  FollowInv'
<1> DEFINE l == Cur(t).l
           a == Cur(t).a
<1>0. /\ Types /\ work[t] # <<>> /\ Cur(t).op = "AddAppender" /\ pc[t] = "add"
      /\ ~(Cur(t).op = "SetFormatter" /\ pc[t] = "walk")
  BY DEF CallInv, AddAppenderEnd, At, Cur
<1>1. l \in Loggers /\ a \in Appenders
  BY <1>0, CurCall, CallFacts
<1>2. IF got[t] = Null THEN own[a] = Null ELSE apFormatter[a] # Null
  BY <1>0 DEF FreshInv
<1>3. /\ apFormatter' = [apFormatter EXCEPT ![a] = IF got[t] = Null THEN mFormatter[l] ELSE @]
      /\ giver' = [giver EXCEPT ![a] = IF got[t] = Null THEN l ELSE Null]
      /\ mAppenderList' = [mAppenderList EXCEPT ![l] = Append(@, a)]
      /\ UNCHANGED <<mFormatter, bHasFormatter, own>>
  BY DEF AddAppenderEnd
<1>9. \A k \in Loggers : \A i : Ahead(k, i) => Ahead(k, i)'
  BY <1>0, AheadKept
<1> HIDE DEF l, a
<1>4. /\ apFormatter'[a] = IF got[t] = Null THEN mFormatter[l] ELSE apFormatter[a]
      /\ giver'[a] = IF got[t] = Null THEN l ELSE Null
      /\ \A b \in Appenders : b # a => apFormatter'[b] = apFormatter[b] /\ giver'[b] = giver[b]
      /\ mFormatter[l] # Null /\ \A k \in Loggers : k # Null
  BY <1>0, <1>1, <1>3, ConstantsAssumption DEF Types
<1>5. /\ mAppenderList'[l] = Append(mAppenderList[l], a) /\ mAppenderList[l] \in Seq(Appenders)
      /\ \A k \in Loggers : k # l => mAppenderList'[k] = mAppenderList[k]
  BY <1>0, <1>1, <1>3 DEF Types
<1>6. \A i \in DOMAIN mAppenderList'[l] :
        \/ mAppenderList'[l][i] = a
        \/ i \in DOMAIN mAppenderList[l] /\ mAppenderList'[l][i] = mAppenderList[l][i]
  BY <1>1, <1>5
<1>7. \A k \in Loggers : \A i \in DOMAIN mAppenderList'[k] :
        \/ mAppenderList'[k][i] = a
        \/ /\ i \in DOMAIN mAppenderList[k] /\ mAppenderList'[k][i] = mAppenderList[k][i]
           /\ mAppenderList[k][i] # a /\ mAppenderList[k][i] \in Appenders
  <2>1. \A k \in Loggers : \A i \in DOMAIN mAppenderList[k] : mAppenderList[k][i] \in Appenders
    <3>1. \A k \in Loggers : mAppenderList[k] \in Seq(Appenders)
      BY <1>0 DEF Types
    <3> QED BY <3>1
  <2> QED BY <1>5, <1>6, <2>1
<1>8. OwnKept'
  BY <1>2, <1>3, <1>4 DEF FollowInv, OwnKept
<1>10. ASSUME NEW k \in Loggers, NEW i \in DOMAIN mAppenderList'[k] PROVE Follows(k, i)'
  <2>1. CASE mAppenderList'[k][i] = a
    BY <1>2, <1>3, <1>4, <2>1 DEF Follows
  <2>2. CASE /\ i \in DOMAIN mAppenderList[k] /\ mAppenderList'[k][i] = mAppenderList[k][i]
             /\ mAppenderList[k][i] # a /\ mAppenderList[k][i] \in Appenders
    <3>1. Follows(k, i)
      BY <2>2 DEF FollowInv
    <3> QED BY <1>3, <1>4, <1>9, <2>2, <3>1 DEF Follows
  <2> QED BY <1>7, <2>1, <2>2
<1> QED BY <1>8, <1>10 DEF FollowInv

\* Appenders are taken out of a list that no SetFormatter is on its way through.
LEMMA FollowTake ==
  ASSUME CallInv, FollowInv, NEW t \in Threads, Untouched(t),
         ~(Cur(t).op = "SetFormatter" /\ pc[t] = "walk"),
         NEW l \in Loggers, Free(l),
         \A k \in Loggers : k # l => mAppenderList'[k] = mAppenderList[k],
         \A i \in DOMAIN mAppenderList'[l] :
           \E j \in DOMAIN mAppenderList[l] : mAppenderList'[l][i] = mAppenderList[l][j],
         UNCHANGED <<mFormatter, apFormatter, bHasFormatter, own, giver>>
  PROVE  FollowInv'
<1>2. OwnKept'
  BY DEF FollowInv, OwnKept
<1>3. ASSUME NEW k \in Loggers, NEW i \in DOMAIN mAppenderList'[k] PROVE Follows(k, i)'
  <2>1. CASE k = l
    <3>1. PICK j \in DOMAIN mAppenderList[l] : mAppenderList'[l][i] = mAppenderList[l][j]
      BY <1>3, <2>1
    <3>2. Follows(l, j)
      BY DEF FollowInv
    <3>3. ~Ahead(l, j)
      BY NoneAhead DEF Free
    <3> QED BY <2>1, <3>1, <3>2, <3>3 DEF Follows
  <2>2. CASE k # l
    <3>1. Follows(k, i)
      BY <1>3, <2>2 DEF FollowInv
    <3>2. Ahead(k, i) => Ahead(k, i)'
      BY AheadKept
    <3> QED BY <2>2, <3>1, <3>2 DEF Follows
  <2> QED BY <2>1, <2>2
<1> QED BY <1>2, <1>3 DEF FollowInv

\* SetFormatter sets out for all the appenders of its logger.
LEMMA FollowSet ==
  ASSUME CallInv, FollowInv, NEW t \in Threads, Untouched(t), SetFormatter(t), Accepts(Cur(t).x)
  PROVE  FollowInv'
<1> DEFINE l == Cur(t).l
<1>0. /\ Types /\ HeldBy(t) /\ work[t] # <<>> /\ Cur(t).op = "SetFormatter" /\ pc[t] = "call"
  BY DEF CallInv, SetFormatter, At, Cur
<1>1. l \in Loggers /\ l \in Locks
  BY <1>0, CurCall, CallFacts DEF Locks
<1>2. /\ Free(l) /\ owner' = [owner EXCEPT ![l] = t]
      /\ mFormatter' = [mFormatter EXCEPT ![l] = Cur(t).x]
      /\ pc'[t] = IF mAppenderList[l] = <<>> THEN "end" ELSE "walk"
      /\ UNCHANGED <<work, pos, mAppenderList, apFormatter, bHasFormatter, own, giver>>
  BY <1>0 DEF SetFormatter, Lock, GoTo, Types, appenderVars
<1>3. owner'[l] = t /\ pos'[t] = 1 /\ Cur(t)' = Cur(t)
  BY <1>0, <1>1, <1>2 DEF Types, HeldBy, Cur
<1>4. \A k \in Loggers : k # l => mFormatter'[k] = mFormatter[k]
  BY <1>0, <1>2 DEF Types
<1>5. \A k \in Loggers : \A i : Ahead(k, i) => Ahead(k, i)'
  BY <1>0, AheadKept
<1>6. ASSUME NEW k \in Loggers, NEW i \in DOMAIN mAppenderList[k] PROVE Follows(k, i)'
  <2>1. Follows(k, i)
    BY DEF FollowInv
  <2>2. CASE k = l
    <3>1. mAppenderList[l] \in Seq(Appenders)
      BY <1>0, <1>1 DEF Types
    <3>2. mAppenderList[l] # <<>> /\ 1 <= i
      BY <1>6, <2>2, <3>1
    <3>3. pc'[t] = "walk"
      BY <1>2, <3>2
    <3>4. Ahead(k, i)'
      BY <1>0, <1>3, <2>2, <3>2, <3>3 DEF Ahead
    <3> QED BY <1>2, <2>1, <3>4 DEF Follows
  <2>3. CASE k # l
    BY <1>2, <1>4, <1>5, <2>1, <2>3 DEF Follows
  <2> QED BY <2>2, <2>3
<1>7. OwnKept'
  BY <1>2 DEF FollowInv, OwnKept
<1> QED BY <1>2, <1>6, <1>7 DEF FollowInv

\* SetFormatter reaches the next appender.
LEMMA FollowWalk ==
  ASSUME CallInv, FollowInv, NEW t \in Threads, Untouched(t), SetFormatterWalk(t)
  PROVE  FollowInv'
<1> DEFINE l == Cur(t).l
           p == pos[t]
           a == mAppenderList[l][p]
<1>0. /\ Types /\ HeldBy(t) /\ Walks(t) /\ work[t] # <<>> /\ Cur(t).op = "SetFormatter" /\ pc[t] = "walk"
  BY DEF CallInv, SetFormatterWalk, At, Cur
<1>1. l \in Loggers /\ l \in Locks /\ Root \in Locks
  BY <1>0, CurCall, CallFacts, ConstantsAssumption DEF Locks
<1>2. /\ apFormatter' = [apFormatter EXCEPT ![a] = IF ~bHasFormatter[a] THEN mFormatter[l] ELSE @]
      /\ giver' = [giver EXCEPT ![a] = IF ~bHasFormatter[a] THEN l ELSE @]
      /\ pos'[t] = p + 1
      /\ pc'[t] = IF p = Len(mAppenderList[l]) THEN "end" ELSE "walk"
      /\ UNCHANGED <<work, owner, mFormatter, mAppenderList, bHasFormatter, own>>
  BY <1>0 DEF SetFormatterWalk, Inherits, Types, loggerVars
<1>3. Walked(t) = l
  BY <1>0, <1>1 DEF HeldBy, Walked
<1>4. owner[l] = t /\ p \in DOMAIN mAppenderList[l] /\ Cur(t)' = Cur(t)
  BY <1>0, <1>2, <1>3 DEF Walks, Cur
<1>5. mAppenderList[l] \in Seq(Appenders) /\ p \in Nat \ {0}
  BY <1>0, <1>1 DEF Types
<1>6. a \in Appenders
  BY <1>4, <1>5
<1>7. bHasFormatter[a] <=> own[a] # Null
  <2> HIDE DEF a
  <2> QED BY <1>6 DEF FollowInv, OwnKept
<1>8. \A k \in Loggers : owner[k] = t => k = l
  BY <1>0 DEF HeldBy, Locks
<1>9. /\ apFormatter'[a] = IF own[a] = Null THEN mFormatter[l] ELSE apFormatter[a]
      /\ giver'[a] = IF own[a] = Null THEN l ELSE giver[a]
      /\ \A b \in Appenders : b # a => apFormatter'[b] = apFormatter[b] /\ giver'[b] = giver[b]
      /\ mFormatter[l] # Null /\ \A k \in Loggers : k # Null
  <2> HIDE DEF a
  <2>1. mFormatter[l] # Null /\ \A k \in Loggers : k # Null
    BY <1>0, <1>1, ConstantsAssumption DEF Types
  <2> QED BY <1>0, <1>2, <1>6, <1>7, <2>1 DEF Types
<1>12. own[a] # Null => giver[a] = Null
  <2> HIDE DEF a
  <2> QED BY <1>6 DEF FollowInv, OwnKept
<1>10. ASSUME NEW k \in Loggers, NEW i \in DOMAIN mAppenderList[k] PROVE Follows(k, i)'
  <2> DEFINE b == mAppenderList[k][i]
  <2>1. Follows(k, i)
    BY DEF FollowInv
  <2>2. CASE b = a
    <3>1. apFormatter'[a] # Null /\ (giver'[a] = k => apFormatter'[a] = mFormatter[k])
      BY <1>9, <1>12, <2>1, <2>2 DEF Follows
    <3> QED BY <1>2, <2>2, <3>1 DEF Follows
  <2>3. CASE b # a
    <3>1. b \in Appenders
      <4>1. mAppenderList[k] \in Seq(Appenders)
        BY <1>0 DEF Types
      <4> QED BY <4>1
    <3>2. apFormatter'[b] = apFormatter[b] /\ giver'[b] = giver[b]
      BY <1>9, <2>3, <3>1
    <3>3. Ahead(k, i) => Ahead(k, i)'
      <4> SUFFICES ASSUME Ahead(k, i) PROVE Ahead(k, i)'
        OBVIOUS
      <4>1. PICK u \in Threads : owner[k] = u /\ Cur(u).op = "SetFormatter" /\ pc[u] = "walk" /\ pos[u] <= i
        BY DEF Ahead
      <4>2. CASE u = t
        <5>1. k = l /\ p <= i
          BY <1>8, <4>1, <4>2
        <5>2. i # p
          BY <2>3, <5>1
        <5>3. i \in 1..Len(mAppenderList[l])
          BY <1>5, <5>1
        <5>4. p + 1 <= i /\ p # Len(mAppenderList[l])
          BY <1>5, <5>1, <5>2, <5>3
        <5>5. pc'[t] = "walk" /\ pos'[t] <= i /\ owner'[k] = t /\ Cur(t)'.op = "SetFormatter"
          BY <1>0, <1>2, <1>4, <5>1, <5>4
        <5> QED BY <5>5 DEF Ahead
      <4>3. CASE u # t
        <5>1. owner'[k] = u /\ work'[u] = work[u] /\ pc'[u] = pc[u] /\ pos'[u] = pos[u]
          BY <1>2, <4>1, <4>3 DEF Untouched
        <5> QED BY <4>1, <5>1 DEF Ahead, Cur
      <4> QED BY <4>2, <4>3
    <3> QED BY <1>2, <2>1, <3>2, <3>3 DEF Follows
  <2> QED BY <2>2, <2>3
<1>11. OwnKept'
  <2> HIDE DEF a
  <2> QED BY <1>2, <1>9 DEF FollowInv, OwnKept
<1> QED BY <1>2, <1>10, <1>11 DEF FollowInv

LEMMA FollowStep ==
  ASSUME CallInv, FreshInv, FollowInv, NEW t \in Threads,
         \/ \E o \in Api : Call(t, o)
         \/ \E c \in Configs : SetLogs(t, c)
         \/ Step(t)
  PROVE  FollowInv'
<1> USE DEF loggerVars, appenderVars
<1>0. Untouched(t) /\ Types /\ HeldBy(t) /\ (work[t] # <<>> => Cur(t) \in Calls)
  BY StepUntouched, CurCall DEF CallInv
<1>1. CASE AddAppenderEnd(t)
  BY <1>0, <1>1, FollowAdd
<1>2. CASE DelAppender(t)
  <2>1. /\ work[t] # <<>> /\ Cur(t).op = "DelAppender" /\ pc[t] = "call" /\ Free(Cur(t).l)
        /\ mAppenderList' = [mAppenderList EXCEPT ![Cur(t).l] = RemoveFirst(@, Cur(t).a)]
        /\ UNCHANGED <<mFormatter, apFormatter, bHasFormatter, own, giver>>
    BY <1>2 DEF DelAppender, At, Cur
  <2>2. PICK l \in Loggers : l = Cur(t).l
    BY <1>0, <2>1, CallFacts
  <2>3. mAppenderList[l] \in Seq(Appenders) /\ mAppenderList'[l] = RemoveFirst(mAppenderList[l], Cur(t).a)
        /\ \A k \in Loggers : k # l => mAppenderList'[k] = mAppenderList[k]
    BY <1>0, <2>1, <2>2 DEF Types
  <2>4. \A i \in DOMAIN mAppenderList'[l] :
           \E j \in DOMAIN mAppenderList[l] : mAppenderList'[l][i] = mAppenderList[l][j]
    BY <2>3, RemoveFirstType
  <2> QED BY <1>0, <2>1, <2>2, <2>3, <2>4, FollowTake
<1>3. CASE ClearAppenders(t)
  <2>1. /\ work[t] # <<>> /\ Cur(t).op = "ClearAppenders" /\ pc[t] = "call" /\ Free(Cur(t).l)
        /\ mAppenderList' = [mAppenderList EXCEPT ![Cur(t).l] = <<>>]
        /\ UNCHANGED <<mFormatter, apFormatter, bHasFormatter, own, giver>>
    BY <1>3 DEF ClearAppenders, At, Cur
  <2>2. PICK l \in Loggers : l = Cur(t).l
    BY <1>0, <2>1, CallFacts
  <2>3. mAppenderList'[l] = <<>> /\ \A k \in Loggers : k # l => mAppenderList'[k] = mAppenderList[k]
    BY <1>0, <2>1, <2>2 DEF Types
  <2>4. \A i \in DOMAIN mAppenderList'[l] :
           \E j \in DOMAIN mAppenderList[l] : mAppenderList'[l][i] = mAppenderList[l][j]
    BY <2>3
  <2> QED BY <1>0, <2>1, <2>2, <2>3, <2>4, FollowTake
<1>4. CASE SetFormatter(t) /\ Accepts(Cur(t).x)
  BY <1>0, <1>4, FollowSet
<1>5. CASE SetFormatterWalk(t)
  BY <1>0, <1>5, FollowWalk
<1>6. CASE ApSetFormatter(t)
  <2>1. /\ work[t] # <<>> /\ Cur(t).op = "ApSetFormatter" /\ Given(Cur(t).a, Cur(t).x)
        /\ UNCHANGED <<mFormatter, mAppenderList>>
    BY <1>6 DEF ApSetFormatter, At, Cur
  <2>2. Cur(t).a \in Appenders /\ (Cur(t).x # Null \/ ~Listed(Cur(t).a))
    BY <1>0, <2>1, CallFacts DEF FreshInv
  <2> QED BY <1>0, <2>1, <2>2, FollowGiven
<1>7. CASE NewAppender(t)
  <2>1. /\ work[t] # <<>> /\ Cur(t).op = "NewAppender" /\ (\E f : Given(Cur(t).a, f))
        /\ ~Listed(Cur(t).a) /\ UNCHANGED <<mFormatter, mAppenderList>>
    BY <1>7 DEF NewAppender, At, Cur
  <2>2. Cur(t).a \in Appenders
    BY <1>0, <2>1, CallFacts
  <2> QED BY <1>0, <2>1, <2>2, FollowGiven
<1>8. CASE /\ ~(Cur(t).op = "SetFormatter" /\ pc[t] = "walk")
           /\ UNCHANGED <<mFormatter, mAppenderList, apFormatter, bHasFormatter, own, giver>>
  BY <1>0, <1>8, FollowSame
<1>9. CASE (\E o \in Api : Call(t, o)) \/ (\E c \in Configs : SetLogs(t, c))
  <2>1. work[t] = <<>> /\ UNCHANGED <<mFormatter, mAppenderList, apFormatter, bHasFormatter, own, giver>>
    BY <1>9 DEF Call, SetLogs
  <2>2. pc[t] # "walk"
    BY <1>0, <2>1 DEF HeldBy
  <2> QED BY <1>8, <2>1, <2>2
<1>10. CASE \/ LogTest(t) \/ LogLock(t) \/ LogWalk(t) \/ LogEnd(t) \/ SetLevel(t) \/ AddAppender(t)
            \/ SetFormatterEnd(t) \/ GetLogger(t) \/ MgrToYaml(t) \/ MgrToYamlWalk(t) \/ Assign(t)
            \/ SetFormatter(t) /\ ~Accepts(Cur(t).x)
  <2>1. UNCHANGED <<mFormatter, mAppenderList, apFormatter, bHasFormatter, own, giver>>
    BY <1>10 DEF LogTest, LogLock, LogWalk, LogEnd, SetLevel, AddAppender, SetFormatterEnd,
                 GetLogger, MgrToYaml, MgrToYamlWalk, Assign, SetFormatter
  <2>2. ~(Cur(t).op = "SetFormatter" /\ pc[t] = "walk")
    BY <1>10 DEF LogTest, LogLock, LogWalk, LogEnd, SetLevel, AddAppender, SetFormatterEnd,
                 GetLogger, MgrToYaml, MgrToYamlWalk, Assign, SetFormatter, At, Cur
  <2> QED BY <1>8, <2>1, <2>2
<1> QED
  BY <1>1, <1>2, <1>3, <1>4, <1>5, <1>6, <1>7, <1>9, <1>10 DEF Step

\* If the callers let an appender's own SetFormatter overlap no AddAppender of it
\* and take no listed appender's formatter away (MayCall), every listed appender has
\* a formatter that was not refused, its own if it was given one, and the present
\* one of the logger that gave it, through every change of the configuration and of
\* the lists.
THEOREM FormattersAreFollowed == Apart => (Spec => []FormattersFollow)
<1> SUFFICES ASSUME Apart PROVE Spec => []FormattersFollow
  OBVIOUS
<1>1. FormatterInv /\ [Next]_vars => FormatterInv'
  <2> SUFFICES ASSUME FormatterInv, [Next]_vars PROVE FormatterInv'
    OBVIOUS
  <2>1. CallInv'
    BY CallInvStep DEF FormatterInv
  <2>2. CASE UNCHANGED vars
    <3>1. WorkInv' /\ FreshInv'
      BY <2>2 DEF vars, loggerVars, appenderVars, callVars, FormatterInv, WorkInv, FreshInv, Cur, Listed
    <3>2. FollowInv'
      BY <2>2 DEF vars, loggerVars, appenderVars, callVars, FormatterInv, FollowInv, OwnKept,
                  Follows, Ahead, Cur
    <3> QED BY <2>1, <3>1, <3>2 DEF FormatterInv
  <2>3. CASE Next
    <3>1. PICK t \in Threads : \/ \E o \in Api : Call(t, o)
                               \/ \E c \in Configs : SetLogs(t, c)
                               \/ Step(t)
      BY <2>3 DEF Next
    <3> QED BY <2>1, <3>1, WorkInvStep, FreshStep, FollowStep DEF FormatterInv, FollowInv
  <2> QED BY <2>2, <2>3
<1>2. FormatterInv => FormattersFollow
  <2> SUFFICES ASSUME FormatterInv, NEW l \in Loggers, NEW i \in DOMAIN mAppenderList[l]
               PROVE  LET a == mAppenderList[l][i] IN
                        /\ apFormatter[a] \in Formatters
                        /\ own[a] # Null => apFormatter[a] = own[a]
                        /\ giver[a] = l /\ (\A t \in Threads : owner[l] = t => Cur(t).op # "SetFormatter") =>
                             apFormatter[a] = mFormatter[l]
    BY DEF FormattersFollow, Range
  <2> DEFINE a == mAppenderList[l][i]
  <2>1. Types /\ OwnKept /\ Follows(l, i)
    BY DEF FormatterInv, CallInv, FollowInv
  <2>2. a \in Appenders
    <3>1. mAppenderList[l] \in Seq(Appenders)
      BY <2>1 DEF Types
    <3> QED BY <3>1
  <2>3. (\A t \in Threads : owner[l] = t => Cur(t).op # "SetFormatter") => ~Ahead(l, i)
    BY DEF Ahead
  <2>4. apFormatter[a] # Null /\ (giver[a] = l => apFormatter[a] = mFormatter[l] \/ Ahead(l, i))
    BY <2>1 DEF Follows
  <2> HIDE DEF a
  <2>5. apFormatter[a] \in Formatters /\ (own[a] # Null => apFormatter[a] = own[a])
    BY <2>1, <2>2, <2>4 DEF Types, OwnKept
  <2> QED BY <2>3, <2>4, <2>5 DEF a
<1> QED BY <1>1, <1>2, InitInv, PTL DEF Spec

----------------------------------------------------------------------------
(* What the listener's calls do to a logger *)

\* What the configuration decides about logger l.
State(l) == [level |-> mLevel[l], formatter |-> mFormatter[l], list |-> mAppenderList[l]]

States == [level : Level, formatter : Formatters, list : Seq(Appenders)]

\* The state s of logger l after the call o.
After(o, l, s) ==
  [level     |-> IF o.l = l /\ o.op = "SetLevel" THEN o.x ELSE s.level,
   formatter |-> IF o.l = l /\ o.op = "SetFormatter" /\ Accepts(o.x) THEN o.x ELSE s.formatter,
   list      |-> IF o.l = l /\ o.op = "ClearAppenders" THEN <<>>
                 ELSE IF o.l = l /\ o.op = "AddAppender" THEN Append(s.list, o.a)
                 ELSE IF o.l = l /\ o.op = "DelAppender" THEN RemoveFirst(s.list, o.a)
                 ELSE s.list]

\* The calls w bring logger l from state s to state z.
Leads(w, l, s, z) ==
  \E g : /\ g[0] = s /\ g[Len(w)] = z
         /\ \A i \in 1..Len(w) : g[i] = After(w[i], l, g[i-1])

\* State s is what configuration c says of logger l.
Says(c, l, s) ==
  IF l \in DOMAIN c
  THEN /\ s.level = c[l].level
       /\ c[l].formatter \in Formatters => s.formatter = c[l].formatter
       /\ s.list = [i \in DOMAIN c[l].appenders |-> c[l].appenders[i].a]
  ELSE s.level = 0 /\ s.list = <<>>

\* The listener's calls end with the assignment of c.
Ends(w, c) == /\ w[Len(w)] = Op("Assign", Root, Null, c)
              /\ \A i \in 1..(Len(w) - 1) : w[i].op # "Assign"

\* The calls that a setter has yet to make bring every logger that nobody else
\* changes to what the new value says.
Brings(t, c) ==
  /\ Ends(work[t], c)
  /\ \A l \in configured \cup DOMAIN c : ~Touched(l) =>
       \E z : Says(c, l, z) /\ Leads(work[t], l, State(l), z)

\* Who calls what: one setter at a time, and the others what the program may call.
CallersInv ==
  /\ \A t, u \in Setters : work[t] # <<>> /\ work[u] # <<>> => t = u
  /\ \A t \in Threads \ Setters : work[t] # <<>> => Tail(work[t]) = <<>> /\ Cur(t) \in Api

\* A SetFormatter of the listener that has stored the formatter.
FormatterStored(t) ==
  work[t] # <<>> /\ Cur(t).op = "SetFormatter" /\ pc[t] # "call" /\ ~Touched(Cur(t).l) =>
    Accepts(Cur(t).x) /\ mFormatter[Cur(t).l] = Cur(t).x

ApplyInv ==
  /\ CallersInv
  /\ DOMAIN logs \subseteq configured /\ configured \subseteq Loggers
  /\ (\A t \in Setters : work[t] = <<>>) =>
       \A l \in configured : ~Touched(l) => Says(logs, l, State(l))
  /\ \A t \in Setters : work[t] # <<>> => \E c \in Configs : Brings(t, c)
  /\ \A t \in Setters : FormatterStored(t)

\* No call, one call, and calls after calls.
LEMMA LeadsNone ==
  ASSUME NEW l, NEW s
  PROVE  Leads(<<>>, l, s, s)
<1> DEFINE g == [i \in 0..0 |-> s]
<1>1. g[0] = s /\ g[Len(<<>>)] = s /\ 1..Len(<<>>) = {}
  OBVIOUS
<1> HIDE DEF g
<1>2. \A i \in 1..Len(<<>>) : g[i] = After(<<>>[i], l, g[i-1])
  BY <1>1
<1> QED BY <1>1, <1>2 DEF Leads

LEMMA LeadsOne ==
  ASSUME NEW l, NEW s, NEW o
  PROVE  Leads(<<o>>, l, s, After(o, l, s))
<1> DEFINE z == After(o, l, s)
           g == [i \in 0..1 |-> IF i = 0 THEN s ELSE z]
<1>1. g[0] = s /\ g[1] = z /\ Len(<<o>>) = 1 /\ <<o>>[1] = o
  OBVIOUS
<1>2. \A i \in 1..1 : g[i] = After(<<o>>[i], l, g[i-1])
  <2> SUFFICES g[1] = After(<<o>>[1], l, g[0])
    OBVIOUS
  <2> HIDE DEF g
  <2> QED BY <1>1
<1> HIDE DEF g, z
<1> QED BY <1>1, <1>2 DEF Leads, z

LEMMA LeadsConcat ==
  ASSUME NEW S, NEW v \in Seq(S), NEW w \in Seq(S), NEW l, NEW s, NEW y, NEW z,
         Leads(v, l, s, y), Leads(w, l, y, z)
  PROVE  Leads(v \o w, l, s, z)
<1> DEFINE m == Len(v)
           n == Len(w)
           vw == v \o w
<1>1. PICK g : /\ g[0] = s /\ g[m] = y
               /\ \A i \in 1..m : g[i] = After(v[i], l, g[i-1])
  BY DEF Leads
<1>2. PICK h : /\ h[0] = y /\ h[n] = z
               /\ \A i \in 1..n : h[i] = After(w[i], l, h[i-1])
  BY DEF Leads
<1>3. /\ m \in Nat /\ n \in Nat /\ Len(vw) = m + n
      /\ \A i \in 1..(m + n) : vw[i] = IF i <= m THEN v[i] ELSE w[i - m]
  OBVIOUS
<1> HIDE DEF vw, m, n
<1> DEFINE k == [i \in 0..(m + n) |-> IF i <= m THEN g[i] ELSE h[i - m]]
<1>4. /\ \A i \in 0..(m + n) : k[i] = IF i <= m THEN g[i] ELSE h[i - m]
      /\ 0 \in 0..(m + n) /\ m + n \in 0..(m + n)
  BY <1>3
<1> HIDE DEF k
<1>5. k[0] = s /\ k[m] = y
  BY <1>1, <1>3, <1>4
<1>6. k[m + n] = z
  <2>1. CASE n = 0
    BY <1>1, <1>2, <1>3, <1>4, <2>1
  <2>2. CASE n # 0
    <3>1. ~(m + n <= m) /\ (m + n) - m = n
      BY <1>3, <2>2
    <3> QED BY <1>2, <1>4, <3>1
  <2> QED BY <2>1, <2>2
<1>7. ASSUME NEW i \in 1..(m + n) PROVE k[i] = After(vw[i], l, k[i-1])
  <2>0. i \in 0..(m + n) /\ i - 1 \in 0..(m + n)
    BY <1>3
  <2>1. CASE i <= m
    <3>1. i \in 1..m /\ i - 1 <= m
      BY <1>3, <2>1
    <3>2. k[i] = g[i] /\ k[i-1] = g[i-1] /\ vw[i] = v[i]
      BY <1>3, <1>4, <2>0, <2>1, <3>1
    <3> QED BY <1>1, <3>1, <3>2
  <2>2. CASE ~(i <= m)
    <3>1. i - m \in 1..n /\ (i - m) - 1 = (i - 1) - m
      BY <1>3, <2>2
    <3>2. k[i] = h[i - m] /\ vw[i] = w[i - m]
      BY <1>3, <1>4, <2>0, <2>2
    <3>3. k[i-1] = h[(i - m) - 1]
      <4>1. CASE i - 1 = m
        BY <1>2, <1>3, <1>5, <3>1, <4>1
      <4>2. CASE i - 1 # m
        <5>1. ~(i - 1 <= m)
          BY <1>3, <2>2, <4>2
        <5> QED BY <1>4, <2>0, <3>1, <5>1
      <4> QED BY <4>1, <4>2
    <3> QED BY <1>2, <3>1, <3>2, <3>3
  <2> QED BY <2>1, <2>2
<1> QED BY <1>3, <1>5, <1>6, <1>7 DEF Leads, vw

\* What remains to be done after the first call, and when the first call has
\* already had its effect.
LEMMA LeadsTail ==
  ASSUME NEW S, NEW w \in Seq(S), w # <<>>, NEW l, NEW s, NEW z, Leads(w, l, s, z)
  PROVE  /\ Leads(Tail(w), l, After(w[1], l, s), z)
         /\ \A r : After(w[1], l, r) = After(w[1], l, s) => Leads(w, l, r, z)
<1> DEFINE n == Len(w)
           v == Tail(w)
<1>1. PICK g : /\ g[0] = s /\ g[n] = z
               /\ \A i \in 1..n : g[i] = After(w[i], l, g[i-1])
  BY DEF Leads
<1>2. n \in Nat /\ n # 0 /\ Len(v) = n - 1 /\ \A i \in 1..(n - 1) : v[i] = w[i+1]
  OBVIOUS
<1> HIDE DEF n, v
<1>3. g[1] = After(w[1], l, s)
  <2>1. 1 \in 1..n /\ 1 - 1 = 0
    BY <1>2
  <2> QED BY <1>1, <2>1
<1>4. Leads(v, l, g[1], z)
  <2> DEFINE h == [i \in 0..(n - 1) |-> g[i+1]]
  <2>1. /\ \A i \in 0..(n - 1) : h[i] = g[i+1]
        /\ 0 \in 0..(n - 1) /\ n - 1 \in 0..(n - 1) /\ (n - 1) + 1 = n /\ 0 + 1 = 1
    BY <1>2
  <2> HIDE DEF h
  <2>2. h[0] = g[1] /\ h[n - 1] = z
    BY <1>1, <2>1
  <2>3. ASSUME NEW i \in 1..(n - 1) PROVE h[i] = After(v[i], l, h[i-1])
    <3>1. i + 1 \in 1..n /\ i \in 0..(n - 1) /\ i - 1 \in 0..(n - 1) /\ (i - 1) + 1 = i
          /\ (i + 1) - 1 = i
      BY <1>2
    <3>2. h[i] = g[i+1] /\ h[i-1] = g[i] /\ v[i] = w[i+1]
      BY <1>2, <2>1, <3>1
    <3> QED BY <1>1, <3>1, <3>2
  <2> QED BY <1>2, <2>2, <2>3 DEF Leads
<1>5. ASSUME NEW r, After(w[1], l, r) = After(w[1], l, s) PROVE Leads(w, l, r, z)
  <2> DEFINE h == [i \in 0..n |-> IF i = 0 THEN r ELSE g[i]]
  <2>1. \A i \in 0..n : h[i] = IF i = 0 THEN r ELSE g[i]
    OBVIOUS
  <2> HIDE DEF h
  <2>2. h[0] = r /\ h[n] = z
    BY <1>1, <1>2, <2>1
  <2>3. ASSUME NEW i \in 1..n PROVE h[i] = After(w[i], l, h[i-1])
    <3>1. i \in 0..n /\ i - 1 \in 0..n /\ i # 0 /\ (i # 1 => i - 1 # 0) /\ 1 - 1 = 0
      BY <1>2
    <3>2. h[i] = g[i] /\ g[i] = After(w[i], l, g[i-1])
      BY <1>1, <2>1, <3>1
    <3>3. CASE i = 1
      <4>1. h[1] = After(w[1], l, s) /\ h[0] = r /\ 1 - 1 = 0
        BY <1>3, <2>2, <3>2, <3>3
      <4> QED BY <1>5, <3>3, <4>1
    <3>4. CASE i # 1
      BY <2>1, <3>1, <3>2, <3>4
    <3> QED BY <3>3, <3>4
  <2> QED BY <2>2, <2>3 DEF Leads, n
<1> QED BY <1>3, <1>4, <1>5 DEF v

\* A call of another logger, or one that changes no logger, has no effect on it.
Changers == {"SetLevel", "SetFormatter", "AddAppender", "DelAppender", "ClearAppenders"}

LEMMA AfterOther ==
  ASSUME NEW l, NEW s \in States, NEW o, o.l # l \/ o.op \notin Changers
  PROVE  After(o, l, s) = s
BY DEF After, States, Changers

----------------------------------------------------------------------------
(* The listener's calls as a whole *)

\* A logger's level is set somewhere in w.
Levels(w, l) == \E i \in DOMAIN w : w[i].l = l /\ w[i].op = "SetLevel"

\* Whatever state logger l is in, w leaves it as it is, or brings it to what c says.
Neutral(w, l)    == \A s \in States : Leads(w, l, s, s)
Reaches(w, l, c) == \A s \in States : \E z \in States : Says(c, l, z) /\ Leads(w, l, s, z)

\* The words that bring logger l to c, and those that have nothing to do with it.
Parts(l, c) == {w \in Seq(Calls) : IF Levels(w, l) THEN Reaches(w, l, c) ELSE Neutral(w, l)}

LEMMA LevelsConcat ==
  ASSUME NEW S, NEW v \in Seq(S), NEW w \in Seq(S), NEW l
  PROVE  Levels(v \o w, l) <=> Levels(v, l) \/ Levels(w, l)
<1>1. Levels(v \o w, l) => Levels(v, l) \/ Levels(w, l)
  <2> SUFFICES ASSUME NEW i \in DOMAIN (v \o w), (v \o w)[i].l = l, (v \o w)[i].op = "SetLevel"
               PROVE  Levels(v, l) \/ Levels(w, l)
    BY DEF Levels
  <2>1. /\ i \in 1..(Len(v) + Len(w)) /\ Len(v) \in Nat /\ Len(w) \in Nat
        /\ (v \o w)[i] = IF i <= Len(v) THEN v[i] ELSE w[i - Len(v)]
    OBVIOUS
  <2>2. CASE i <= Len(v)
    <3>1. i \in DOMAIN v
      BY <2>1, <2>2
    <3> QED BY <2>1, <2>2, <3>1 DEF Levels
  <2>3. CASE ~(i <= Len(v))
    <3>1. i - Len(v) \in DOMAIN w
      BY <2>1, <2>3
    <3> QED BY <2>1, <2>3, <3>1 DEF Levels
  <2> QED BY <2>2, <2>3
<1>2. Levels(v, l) \/ Levels(w, l) => Levels(v \o w, l)
  <2>1. ASSUME NEW i \in DOMAIN v PROVE i \in DOMAIN (v \o w) /\ (v \o w)[i] = v[i]
    OBVIOUS
  <2>2. ASSUME NEW i \in DOMAIN w
        PROVE  i + Len(v) \in DOMAIN (v \o w) /\ (v \o w)[i + Len(v)] = w[i]
    OBVIOUS
  <2> QED BY <2>1, <2>2 DEF Levels
<1> QED BY <1>1, <1>2

LEMMA PartsClosed ==
  ASSUME NEW l, NEW c
  PROVE  <<>> \in Parts(l, c) /\ \A v, w \in Parts(l, c) : v \o w \in Parts(l, c)
<1>1. <<>> \in Parts(l, c)
  <2>1. ~Levels(<<>>, l)
    BY DEF Levels
  <2>2. Neutral(<<>>, l)
    BY LeadsNone DEF Neutral
  <2> QED BY <2>1, <2>2 DEF Parts
<1>2. ASSUME NEW v \in Parts(l, c), NEW w \in Parts(l, c) PROVE v \o w \in Parts(l, c)
  <2>0. v \in Seq(Calls) /\ w \in Seq(Calls) /\ v \o w \in Seq(Calls)
    BY DEF Parts
  <2>1. Levels(v \o w, l) => Levels(v, l) \/ Levels(w, l)
    BY <2>0, LevelsConcat
  <2>2. Levels(v, l) \/ Levels(w, l) => Levels(v \o w, l)
    BY <2>0, LevelsConcat
  <2>3. CASE Levels(w, l)
    <3>1. Reaches(v \o w, l, c)
      <4> SUFFICES ASSUME NEW s \in States
                   PROVE  \E z \in States : Says(c, l, z) /\ Leads(v \o w, l, s, z)
        BY DEF Reaches
      <4>1. PICK y \in States : Leads(v, l, s, y)
        BY DEF Parts, Reaches, Neutral
      <4>2. PICK z \in States : Says(c, l, z) /\ Leads(w, l, y, z)
        BY <2>3 DEF Parts, Reaches
      <4> QED BY <2>0, <4>1, <4>2, LeadsConcat
    <3> QED BY <2>0, <2>2, <2>3, <3>1 DEF Parts
  <2>4. CASE Levels(v, l) /\ ~Levels(w, l)
    <3>1. Reaches(v \o w, l, c)
      <4> SUFFICES ASSUME NEW s \in States
                   PROVE  \E z \in States : Says(c, l, z) /\ Leads(v \o w, l, s, z)
        BY DEF Reaches
      <4>1. PICK z \in States : Says(c, l, z) /\ Leads(v, l, s, z)
        BY <2>4 DEF Parts, Reaches
      <4>2. Leads(w, l, z, z)
        BY <2>4 DEF Parts, Neutral
      <4> QED BY <2>0, <4>1, <4>2, LeadsConcat
    <3> QED BY <2>0, <2>2, <2>4, <3>1 DEF Parts
  <2>5. CASE ~Levels(v, l) /\ ~Levels(w, l)
    <3>1. Neutral(v \o w, l)
      BY <2>0, <2>5, LeadsConcat DEF Parts, Neutral
    <3> QED BY <2>0, <2>1, <2>5, <3>1 DEF Parts
  <2> QED BY <2>3, <2>4, <2>5
<1> QED BY <1>1, <1>2

\* Calls of other loggers, and calls that change no logger, have nothing to do with it.
LEMMA PartOther ==
  ASSUME NEW l, NEW c, NEW w \in Seq(Calls),
         \A i \in DOMAIN w : w[i].l # l \/ w[i].op \notin Changers
  PROVE  w \in Parts(l, c) /\ ~Levels(w, l)
<1>1. ~Levels(w, l)
  BY DEF Levels, Changers
<1>2. ASSUME NEW s \in States PROVE Leads(w, l, s, s)
  <2> DEFINE g == [i \in 0..Len(w) |-> s]
  <2>1. Len(w) \in Nat /\ \A i \in 0..Len(w) : g[i] = s
    OBVIOUS
  <2> HIDE DEF g
  <2>2. ASSUME NEW i \in 1..Len(w) PROVE g[i] = After(w[i], l, g[i-1])
    <3>1. i \in DOMAIN w /\ i \in 0..Len(w) /\ i - 1 \in 0..Len(w)
      BY <2>1
    <3>2. After(w[i], l, s) = s
      BY <3>1, AfterOther
    <3> QED BY <2>1, <3>1, <3>2
  <2> QED BY <2>1, <2>2 DEF Leads
<1> QED BY <1>1, <1>2 DEF Parts, Neutral

\* The calls for logger k, which all name it.
CallsOf(k) == {o \in Calls : o.l = k /\ o.op # "Assign"}

\* The calls that make the appenders of a define and add them.
Pairs(l, d) == [i \in DOMAIN d.appenders |->
                  <<Op("NewAppender", l, d.appenders[i].a, d.appenders[i]),
                    Op("AddAppender", l, d.appenders[i].a, Null)>>]

Names(d) == [i \in DOMAIN d.appenders |-> d.appenders[i].a]

LEMMA DefineFacts ==
  ASSUME NEW c \in Configs, NEW l \in DOMAIN c
  PROVE  /\ l \in Loggers /\ c[l] \in Define
         /\ c[l].level \in Level /\ c[l].formatter \in Formatters \cup {Bad, Null}
         /\ c[l].appenders \in Seq(ApDefine)
         /\ \A i \in DOMAIN c[l].appenders :
              c[l].appenders[i] \in ApDefine /\ c[l].appenders[i].a \in Made
<1>1. l \in Loggers /\ c[l] \in Define
  BY ConstantsAssumption DEF IsConfig
<1>2. /\ c[l].level \in Level /\ c[l].formatter \in Formatters \cup {Bad, Null}
      /\ c[l].appenders \in Seq(ApDefine)
  BY <1>1 DEF Define
<1>3. \A i \in DOMAIN c[l].appenders : c[l].appenders[i] \in ApDefine
  BY <1>2
<1>4. \A i \in DOMAIN c[l].appenders : c[l].appenders[i].a \in Appenders
  BY <1>3 DEF ApDefine
<1>5. \A i \in DOMAIN c[l].appenders : c[l].appenders[i].a \in Made
  BY <1>4 DEF Made
<1> QED BY <1>1, <1>2, <1>3, <1>5

LEMMA PairsType ==
  ASSUME NEW c \in Configs, NEW l \in DOMAIN c
  PROVE  /\ Pairs(l, c[l]) \in Seq(Seq(CallsOf(l)))
         /\ Len(Pairs(l, c[l])) = Len(c[l].appenders)
         /\ FlattenSeq(Pairs(l, c[l])) \in Seq(CallsOf(l))
<1> DEFINE as == c[l].appenders
           p == Pairs(l, c[l])
<1>1. /\ as \in Seq(ApDefine) /\ DOMAIN as = 1..Len(as) /\ Len(as) \in Nat
      /\ \A i \in DOMAIN as : as[i] \in ApDefine /\ as[i].a \in Made
      /\ l \in Loggers
  BY DefineFacts
<1>2. ASSUME NEW i \in DOMAIN as
      PROVE  <<Op("NewAppender", l, as[i].a, as[i]), Op("AddAppender", l, as[i].a, Null)>>
               \in Seq(CallsOf(l))
  <2>1. as[i] \in ApDefine /\ as[i].a \in Made /\ as[i].a \in Appenders
    BY <1>1 DEF Made
  <2> HIDE DEF as
  <2>2. Op("NewAppender", l, as[i].a, as[i]) \in CallsOf(l)
    BY <1>1, <2>1 DEF Op, Calls, CallsOf
  <2>3. Op("AddAppender", l, as[i].a, Null) \in CallsOf(l)
    BY <1>1, <2>1 DEF Op, Calls, ApiCalls, CallsOf
  <2> QED BY <2>2, <2>3, TwoSeq
<1>3. /\ p = [i \in 1..Len(as) |-> p[i]]
      /\ \A i \in 1..Len(as) : p[i] \in Seq(CallsOf(l))
  BY <1>1, <1>2 DEF Pairs
<1> HIDE DEF p, as
<1>4. p \in Seq(Seq(CallsOf(l))) /\ Len(p) = Len(as)
  <2>1. p \in [1..Len(as) -> Seq(CallsOf(l))]
    BY <1>3
  <2> QED BY <1>1, <2>1, SeqByElements
<1>5. FlattenSeq(p) \in Seq(CallsOf(l))
  <2>1. <<>> \in Seq(CallsOf(l)) /\ \A v, w \in Seq(CallsOf(l)) : v \o w \in Seq(CallsOf(l))
    OBVIOUS
  <2> QED BY <1>4, <2>1, FlattenClosed
<1> QED BY <1>4, <1>5 DEF p, as

LEMMA NamesType ==
  ASSUME NEW c \in Configs, NEW l \in DOMAIN c
  PROVE  /\ Names(c[l]) \in Seq(Appenders) /\ Len(Names(c[l])) = Len(c[l].appenders)
         /\ \A i \in 1..Len(c[l].appenders) : Names(c[l])[i] = c[l].appenders[i].a
<1> DEFINE as == c[l].appenders
           n == Len(as)
           ns == Names(c[l])
<1>1. /\ n \in Nat /\ DOMAIN as = 1..n
      /\ \A i \in 1..n : as[i] \in ApDefine /\ as[i].a \in Appenders
  BY DefineFacts DEF Made
<1>2. ns = [i \in 1..n |-> as[i].a]
  BY <1>1 DEF Names
<1> HIDE DEF ns, as, n
<1>3. (\A i \in 1..n : ns[i] = as[i].a) /\ ns \in [1..n -> Appenders]
  BY <1>1, <1>2
<1>4. ns \in Seq(Appenders) /\ Len(ns) = n
  BY <1>1, <1>3, SeqByElements
<1> QED BY <1>3, <1>4 DEF ns, as, n

\* The calls of one pair append its appender to the list.
LEMMA PairLeads ==
  ASSUME NEW l, NEW d \in ApDefine, NEW s \in States, NEW z \in States,
         z.level = s.level, z.formatter = s.formatter, z.list = Append(s.list, d.a)
  PROVE  Leads(<<Op("NewAppender", l, d.a, d), Op("AddAppender", l, d.a, Null)>>, l, s, z)
<1> DEFINE o == Op("NewAppender", l, d.a, d)
           p == Op("AddAppender", l, d.a, Null)
<1>1. /\ o.l = l /\ o.op = "NewAppender"
      /\ p.l = l /\ p.op = "AddAppender" /\ p.a = d.a
  BY DEF Op
<1> HIDE DEF o, p
<1>2. After(o, l, s) = s
  BY <1>1, AfterOther DEF Changers
<1>3. After(p, l, s) = z
  BY <1>1 DEF After, States
<1>4. <<o>> \o <<p>> = <<o, p>> /\ <<o>> \in Seq({o, p}) /\ <<p>> \in Seq({o, p})
  <2>1. o \in {o, p} /\ p \in {o, p}
    OBVIOUS
  <2> QED BY <2>1, TwoSeq
<1>5. Leads(<<o>>, l, s, s) /\ Leads(<<p>>, l, s, z)
  BY <1>2, <1>3, LeadsOne
<1>6. Leads(<<o>> \o <<p>>, l, s, z)
  BY <1>4, <1>5, LeadsConcat
<1> QED BY <1>4, <1>6 DEF o, p

\* The pairs of a define, one after another, fill an empty list.
LEMMA PairsLead ==
  ASSUME NEW c \in Configs, NEW l \in DOMAIN c, NEW s \in States, NEW z \in States,
         s.list = <<>>, z.level = s.level, z.formatter = s.formatter, z.list = Names(c[l])
  PROVE  Leads(FlattenSeq(Pairs(l, c[l])), l, s, z)
<1> DEFINE as == c[l].appenders
           ns == Names(c[l])
           p == Pairs(l, c[l])
           n == Len(as)
           Filled(i) == [level |-> s.level, formatter |-> s.formatter, list |-> SubSeq(ns, 1, i)]
<1>1. /\ as \in Seq(ApDefine) /\ n \in Nat /\ DOMAIN as = 1..n
      /\ \A i \in 1..n : as[i] \in ApDefine /\ as[i].a \in Appenders
      /\ p \in Seq(Seq(CallsOf(l))) /\ Len(p) = n
  BY DefineFacts, PairsType DEF Made
<1>2. /\ ns \in Seq(Appenders) /\ Len(ns) = n /\ \A i \in 1..n : ns[i] = as[i].a
  BY NamesType
<1>3. \A i \in 1..n : p[i] = <<Op("NewAppender", l, as[i].a, as[i]), Op("AddAppender", l, as[i].a, Null)>>
  BY <1>1 DEF Pairs
<1> HIDE DEF ns, as, n, p
<1>4. \A i \in 0..n : Filled(i) \in States /\ Filled(i).list = SubSeq(ns, 1, i)
  BY <1>1, <1>2 DEF States
<1>5. Filled(0) = s /\ Filled(n) = z
  <2>1. SubSeq(ns, 1, 0) = <<>> /\ SubSeq(ns, 1, n) = ns
    BY <1>1, <1>2
  <2> QED BY <2>1 DEF States, ns
<1>6. ASSUME NEW i \in 1..n PROVE Leads(p[i], l, Filled(i - 1), Filled(i))
  <2>1. i - 1 \in 0..n /\ i \in 0..n
    BY <1>1
  <2>2. SubSeq(ns, 1, i) = Append(SubSeq(ns, 1, i - 1), as[i].a)
    <3>1. ns \in Seq(Appenders) /\ i \in 1..Len(ns) /\ ns[i] = as[i].a
      BY <1>2
    <3>2. SubSeq(ns, 1, i) = Append(SubSeq(ns, 1, i - 1), ns[i])
      BY <3>1, PrefixStep
    <3> QED BY <3>1, <3>2
  <2>3. /\ Filled(i).level = Filled(i - 1).level /\ Filled(i).formatter = Filled(i - 1).formatter
        /\ Filled(i).list = Append(Filled(i - 1).list, as[i].a)
    BY <2>2
  <2>4. as[i] \in ApDefine /\ Filled(i) \in States /\ Filled(i - 1) \in States
    BY <1>1, <1>4, <2>1
  <2> HIDE DEF Filled
  <2> QED BY <1>3, <2>3, <2>4, PairLeads
<1> HIDE DEF Filled
<1>7. CASE n = 0
  <2>1. FlattenSeq(p) = <<>>
    BY <1>1, <1>7, FlattenEmpty
  <2> QED BY <1>5, <1>7, <2>1, LeadsNone DEF p
<1>8. CASE n # 0
  <2>1. p # <<>>
    BY <1>1, <1>8
  <2>2. PICK f : /\ FlattenSeq(p) = f[n]
                 /\ \A i \in 1..n : f[i] = IF i = 1 THEN p[i] ELSE f[i-1] \o p[i]
    <3>1. p \in Seq(Seq(CallsOf(l))) /\ Len(p) = n
      BY <1>1
    <3>2. \E f : /\ FlattenSeq(p) = f[Len(p)]
                 /\ \A i \in 1..Len(p) : f[i] = IF i = 1 THEN p[i] ELSE f[i-1] \o p[i]
      BY <2>1, <3>1, FlattenSteps
    <3> QED BY <3>1, <3>2
  <2> DEFINE U == {i \in 1..n : ~(f[i] \in Seq(CallsOf(l)) /\ Leads(f[i], l, s, Filled(i)))}
  <2>3. U = {}
    <3> SUFFICES ASSUME U # {} PROVE FALSE
      OBVIOUS
    <3>1. U \subseteq Nat
      OBVIOUS
    <3>2. PICK m \in U : \A k \in U : ~(k < m)
      <4> HIDE DEF U
      <4> QED BY <3>1, Least
    <3>3. m \in 1..n /\ ~(f[m] \in Seq(CallsOf(l)) /\ Leads(f[m], l, s, Filled(m)))
      OBVIOUS
    <3>4. p[m] \in Seq(CallsOf(l)) /\ Leads(p[m], l, Filled(m - 1), Filled(m))
      BY <1>1, <1>6, <3>3
    <3>5. CASE m = 1
      <4>1. f[m] = p[m] /\ m - 1 = 0
        BY <2>2, <3>3, <3>5
      <4> QED BY <1>5, <3>3, <3>4, <4>1
    <3>6. CASE m # 1
      <4>1. m - 1 \in 1..n /\ m - 1 < m
        BY <1>1, <3>3, <3>6
      <4>2. f[m-1] \in Seq(CallsOf(l)) /\ Leads(f[m-1], l, s, Filled(m - 1))
        BY <3>2, <4>1
      <4>3. f[m] = f[m-1] \o p[m]
        BY <2>2, <3>3, <3>6
      <4>4. Leads(f[m-1] \o p[m], l, s, Filled(m))
        BY <3>4, <4>2, LeadsConcat
      <4> QED BY <3>3, <3>4, <4>2, <4>3, <4>4
    <3> QED BY <3>5, <3>6
  <2>4. n \in 1..n
    BY <1>1, <1>8
  <2> QED BY <1>5, <2>2, <2>3, <2>4 DEF p
<1> QED BY <1>7, <1>8

----------------------------------------------------------------------------
(* What Rebuild, Retire and OnChange bring about *)

LEMMA RebuildReaches ==
  ASSUME NEW c \in Configs, NEW l \in DOMAIN c
  PROVE  /\ Rebuild(l, c[l]) \in Seq(CallsOf(l))
         /\ Levels(Rebuild(l, c[l]), l)
         /\ Reaches(Rebuild(l, c[l]), l, c)
<1> DEFINE d == c[l]
           C == CallsOf(l)
           g == Op("GetLogger", l, Null, Null)
           v == Op("SetLevel", l, Null, d.level)
           f == Op("SetFormatter", l, Null, d.formatter)
           k == Op("ClearAppenders", l, Null, Null)
           F == IF d.formatter # Null THEN <<f>> ELSE <<>>
           P == FlattenSeq(Pairs(l, d))
<1>1. /\ l \in Loggers /\ d.level \in Level /\ d.formatter \in Formatters \cup {Bad, Null}
      /\ Names(d) \in Seq(Appenders) /\ P \in Seq(C)
  BY DefineFacts, NamesType, PairsType
<1>2. g \in C /\ v \in C /\ k \in C /\ (d.formatter # Null => f \in C)
  <2> HIDE DEF d
  <2> QED BY <1>1 DEF Op, Calls, ApiCalls, CallsOf
<1>3. /\ g.op = "GetLogger" /\ g.l = l
      /\ v.op = "SetLevel" /\ v.l = l /\ v.x = d.level
      /\ f.op = "SetFormatter" /\ f.l = l /\ f.x = d.formatter
      /\ k.op = "ClearAppenders" /\ k.l = l
  BY DEF Op
<1>4. Rebuild(l, d) = ((<<g, v>> \o F) \o <<k>>) \o P
  BY DEF Rebuild, Pairs
<1> HIDE DEF d, g, v, f, k, P, C
<1>5. /\ <<g>> \in Seq(C) /\ <<v>> \in Seq(C) /\ <<g>> \o <<v>> = <<g, v>>
      /\ <<g, v>> \in Seq(C) /\ <<k>> \in Seq(C)
  BY <1>2, TwoSeq
<1>6. F \in Seq(C)
  <2>1. CASE d.formatter # Null
    BY <1>2, <2>1, OneSeq
  <2>2. CASE d.formatter = Null
    BY <2>2
  <2> QED BY <2>1, <2>2
<1> HIDE DEF F
<1>7. /\ <<g, v>> \o F \in Seq(C) /\ (<<g, v>> \o F) \o <<k>> \in Seq(C)
      /\ Rebuild(l, d) \in Seq(C)
  BY <1>1, <1>4, <1>5, <1>6
<1>8. Levels(Rebuild(l, d), l)
  <2>1. Levels(<<g, v>>, l)
    <3>1. 2 \in DOMAIN <<g, v>> /\ <<g, v>>[2] = v
      OBVIOUS
    <3> QED BY <1>3, <3>1 DEF Levels
  <2>2. Levels(<<g, v>> \o F, l)
    BY <1>5, <1>6, <2>1, LevelsConcat
  <2>3. Levels((<<g, v>> \o F) \o <<k>>, l)
    BY <1>5, <1>7, <2>2, LevelsConcat
  <2>4. Levels(((<<g, v>> \o F) \o <<k>>) \o P, l)
    BY <1>1, <1>7, <2>3, LevelsConcat
  <2> QED BY <1>4, <2>4
<1>9. ASSUME NEW r \in States
      PROVE  \E z \in States : Says(c, l, z) /\ Leads(Rebuild(l, d), l, r, z)
  <2> DEFINE h  == IF d.formatter \in Formatters THEN d.formatter ELSE r.formatter
             r1 == [level |-> d.level, formatter |-> r.formatter, list |-> r.list]
             r2 == [level |-> d.level, formatter |-> h, list |-> r.list]
             r3 == [level |-> d.level, formatter |-> h, list |-> <<>>]
             r4 == [level |-> d.level, formatter |-> h, list |-> Names(d)]
  <2>0. r.level \in Level /\ r.formatter \in Formatters /\ r.list \in Seq(Appenders)
    BY DEF States
  <2>1. r1 \in States /\ r2 \in States /\ r3 \in States /\ r4 \in States
    BY <1>1, <2>0 DEF States
  <2>2. Leads(<<g, v>>, l, r, r1)
    <3>1. After(g, l, r) = r
      BY <1>3, AfterOther DEF Changers
    <3>2. After(v, l, r) = r1
      BY <1>3 DEF After
    <3>3. Leads(<<g>>, l, r, r) /\ Leads(<<v>>, l, r, r1)
      BY <3>1, <3>2, LeadsOne
    <3>4. Leads(<<g>> \o <<v>>, l, r, r1)
      BY <1>5, <3>3, LeadsConcat
    <3> QED BY <1>5, <3>4
  <2>3. Leads(F, l, r1, r2)
    <3>1. CASE d.formatter = Null
      <4>1. F = <<>> /\ r1 = r2
        BY <3>1, ConstantsAssumption DEF F
      <4> QED BY <4>1, LeadsNone
    <3>2. CASE d.formatter # Null
      <4>1. After(f, l, r1) = r2
        BY <1>1, <1>3, <3>2, ConstantsAssumption DEF After, Accepts
      <4>2. F = <<f>>
        BY <3>2 DEF F
      <4> QED BY <4>1, <4>2, LeadsOne
    <3> QED BY <3>1, <3>2
  <2>4. Leads(<<k>>, l, r2, r3)
    <3>1. After(k, l, r2) = r3
      BY <1>3 DEF After
    <3> QED BY <3>1, LeadsOne
  <2>5. Leads(P, l, r3, r4)
    BY <2>1, PairsLead DEF P, d
  <2>6. Says(c, l, r4)
    BY DEF Says, d, Names
  <2> HIDE DEF r1, r2, r3, r4, h
  <2>7. Leads(<<g, v>> \o F, l, r, r2)
    BY <1>5, <1>6, <2>2, <2>3, LeadsConcat
  <2>8. Leads((<<g, v>> \o F) \o <<k>>, l, r, r3)
    BY <1>5, <1>7, <2>4, <2>7, LeadsConcat
  <2>9. Leads(Rebuild(l, d), l, r, r4)
    BY <1>1, <1>4, <1>7, <2>5, <2>8, LeadsConcat
  <2> QED BY <2>1, <2>6, <2>9
<1> QED BY <1>7, <1>8, <1>9 DEF Reaches, C, d

LEMMA RetireReaches ==
  ASSUME NEW c, NEW l \in Loggers, l \notin DOMAIN c
  PROVE  /\ Retire(l) \in Seq(CallsOf(l))
         /\ Levels(Retire(l), l)
         /\ Reaches(Retire(l), l, c)
<1> DEFINE C == CallsOf(l)
           g == Op("GetLogger", l, Null, Null)
           v == Op("SetLevel", l, Null, 0)
           k == Op("ClearAppenders", l, Null, Null)
           w == <<g, v, k>>
<1>1. g \in C /\ v \in C /\ k \in C
  BY DEF Op, Calls, ApiCalls, CallsOf, Level
<1>2. /\ g.op = "GetLogger" /\ g.l = l
      /\ v.op = "SetLevel" /\ v.l = l /\ v.x = 0
      /\ k.op = "ClearAppenders" /\ k.l = l
  BY DEF Op
<1>3. Retire(l) = w
  BY DEF Retire
<1> HIDE DEF g, v, k, C
<1>4. w \in Seq(C) /\ Len(w) = 3 /\ w[1] = g /\ w[2] = v /\ w[3] = k
  BY <1>1
<1> HIDE DEF w
<1>5. Levels(w, l)
  BY <1>2, <1>4 DEF Levels
<1>6. ASSUME NEW r \in States PROVE \E z \in States : Says(c, l, z) /\ Leads(w, l, r, z)
  <2> DEFINE r1 == [level |-> 0, formatter |-> r.formatter, list |-> r.list]
             r2 == [level |-> 0, formatter |-> r.formatter, list |-> <<>>]
             q == [i \in 0..3 |-> IF i <= 1 THEN r ELSE IF i = 2 THEN r1 ELSE r2]
  <2>1. r2 \in States
    BY DEF States, Level
  <2>2. Says(c, l, r2)
    BY DEF Says
  <2>3. After(g, l, r) = r
    BY <1>2, AfterOther DEF Changers
  <2>4. After(v, l, r) = r1 /\ After(k, l, r1) = r2
    BY <1>2 DEF After
  <2> HIDE DEF r1, r2
  <2>5. q[0] = r /\ q[1] = r /\ q[2] = r1 /\ q[3] = r2
    OBVIOUS
  <2> HIDE DEF q
  <2>6. ASSUME NEW i \in 1..3 PROVE q[i] = After(w[i], l, q[i-1])
    <3>1. (i = 1 /\ i - 1 = 0) \/ (i = 2 /\ i - 1 = 1) \/ (i = 3 /\ i - 1 = 2)
      OBVIOUS
    <3> QED BY <1>4, <2>3, <2>4, <2>5, <3>1
  <2>7. Leads(w, l, r, r2)
    BY <1>4, <2>5, <2>6 DEF Leads
  <2> QED BY <2>1, <2>2, <2>7
<1> QED BY <1>3, <1>4, <1>5, <1>6 DEF Reaches, C

\* The calls before the assignment.
Listening == {o \in Calls : o.op # "Assign"}

\* A word for each logger, in order: all of them together are a word, and the
\* level that one of them sets is set by all of them together.
LEMMA OrderFlatten ==
  ASSUME NEW W, W \subseteq Seq(Calls), <<>> \in W, \A v, w \in W : v \o w \in W,
         NEW f \in [DOMAIN Order -> W]
  PROVE  /\ FlattenSeq(f) \in W
         /\ \A i \in DOMAIN Order : \A l : Levels(f[i], l) => Levels(FlattenSeq(f), l)
<1>1. DOMAIN Order = 1..Len(Order) /\ Len(Order) \in Nat
  BY ConstantsAssumption
<1>2. f \in Seq(W)
  BY <1>1, SeqByElements
<1>3. FlattenSeq(f) \in W
  BY <1>2, FlattenClosed
<1>4. ASSUME NEW i \in DOMAIN Order, NEW l, Levels(f[i], l) PROVE Levels(FlattenSeq(f), l)
  <2>1. f \in Seq(Seq(Calls)) /\ i \in DOMAIN f
    BY <1>2, SeqSubset
  <2>2. PICK j \in DOMAIN f[i] : f[i][j].l = l /\ f[i][j].op = "SetLevel"
    BY <1>4 DEF Levels
  <2>3. \E k \in DOMAIN FlattenSeq(f) : FlattenSeq(f)[k] = f[i][j]
    BY <2>1, FlattenHas
  <2> QED BY <2>2, <2>3 DEF Levels
<1> QED BY <1>3, <1>4

\* What the listener does for the logger at position i, if it is new or changed
\* and if it is gone.
Changes(old, new) == [i \in DOMAIN Order |->
  IF Changed(old, new, Order[i]) THEN Rebuild(Order[i], new[Order[i]]) ELSE <<>>]

Retires(old, new) == [i \in DOMAIN Order |->
  IF Order[i] \in DOMAIN old \ DOMAIN new THEN Retire(Order[i]) ELSE <<>>]

LEMMA ListenerParts ==
  ASSUME NEW old, NEW new \in Configs, NEW i \in DOMAIN Order
  PROVE  /\ Changes(old, new)[i] \in Seq(Listening) /\ Retires(old, new)[i] \in Seq(Listening)
         /\ \A l : Changes(old, new)[i] \in Parts(l, new) /\ Retires(old, new)[i] \in Parts(l, new)
         /\ Changed(old, new, Order[i]) => Levels(Changes(old, new)[i], Order[i])
         /\ Order[i] \in DOMAIN old \ DOMAIN new => Levels(Retires(old, new)[i], Order[i])
<1> DEFINE k == Order[i]
           C == CallsOf(k)
<1>0. k \in Loggers
  BY ConstantsAssumption
<1>1. Seq(C) \subseteq Seq(Listening) /\ Seq(C) \subseteq Seq(Calls)
  <2>1. C \subseteq Listening /\ C \subseteq Calls
    BY DEF CallsOf, Listening
  <2> QED BY <2>1, SeqSubset
<1>2. ASSUME NEW w \in Seq(C), Levels(w, k) /\ Reaches(w, k, new), NEW l
      PROVE  w \in Parts(l, new)
  <2>1. CASE l = k
    BY <1>1, <1>2, <2>1 DEF Parts
  <2>2. CASE l # k
    <3>1. \A j \in DOMAIN w : w[j] \in C
      OBVIOUS
    <3>2. \A j \in DOMAIN w : w[j].l # l
      BY <2>2, <3>1 DEF CallsOf
    <3> QED BY <1>1, <3>2, PartOther
  <2> QED BY <2>1, <2>2
<1>3. <<>> \in Seq(Listening) /\ \A l : <<>> \in Parts(l, new)
  BY PartsClosed
<1>4. CASE Changed(old, new, k)
  <2>1. Changes(old, new)[i] = Rebuild(k, new[k]) /\ k \in DOMAIN new
    BY <1>4 DEF Changes, Changed
  <2>2. Retires(old, new)[i] = <<>>
    BY <2>1 DEF Retires
  <2>3. Rebuild(k, new[k]) \in Seq(C) /\ Levels(Rebuild(k, new[k]), k) /\ Reaches(Rebuild(k, new[k]), k, new)
    BY <2>1, RebuildReaches
  <2> HIDE DEF k, C
  <2> QED BY <1>1, <1>2, <1>3, <2>1, <2>2, <2>3 DEF k
<1>5. CASE ~Changed(old, new, k) /\ k \in DOMAIN old \ DOMAIN new
  <2>1. Changes(old, new)[i] = <<>> /\ Retires(old, new)[i] = Retire(k)
    BY <1>5 DEF Changes, Retires
  <2>2. Retire(k) \in Seq(C) /\ Levels(Retire(k), k) /\ Reaches(Retire(k), k, new)
    BY <1>0, <1>5, RetireReaches
  <2> HIDE DEF k, C
  <2> QED BY <1>1, <1>2, <1>3, <1>5, <2>1, <2>2 DEF k
<1>6. CASE ~Changed(old, new, k) /\ k \notin DOMAIN old \ DOMAIN new
  <2>1. Changes(old, new)[i] = <<>> /\ Retires(old, new)[i] = <<>>
    BY <1>6 DEF Changes, Retires
  <2> QED BY <1>3, <1>6, <2>1
<1> QED BY <1>4, <1>5, <1>6

SetWord(old, new) == OnChange(old, new) \o <<Op("Assign", Root, Null, new)>>

\* SetValue's calls end with the assignment, and bring every logger to what the
\* new value says: those that the listener skips are there already.
LEMMA SetLogsBrings ==
  ASSUME NEW old, NEW new \in Configs
  PROVE  /\ SetWord(old, new) \in Seq(Calls) /\ SetWord(old, new) # <<>>
         /\ Ends(SetWord(old, new), new)
         /\ \A l \in Loggers : \A s \in States :
              (l \in DOMAIN new /\ l \notin DOMAIN old) \/ Says(old, l, s) =>
                \E z : Says(new, l, z) /\ Leads(SetWord(old, new), l, s, z)
<1> DEFINE w == SetWord(old, new)
           f == Changes(old, new)
           g == Retires(old, new)
           o == Op("Log", Root, Null, 2)
           a == Op("Assign", Root, Null, new)
           v == <<o>> \o FlattenSeq(f)
           u == v \o FlattenSeq(g)
           L == Listening
<1>1. w = u \o <<a>>
  BY DEF SetWord, OnChange, Changes, Retires
<1>2. /\ o \in Listening /\ o.op = "Log" /\ a \in Calls /\ a.op = "Assign"
  BY ConstantsAssumption DEF Op, Calls, ApiCalls, Level, Listening
<1>3. Seq(L) \subseteq Seq(Calls)
  BY SeqSubset DEF Listening
<1> HIDE DEF w, f, g, o, a, u, v
<1>4. f \in [DOMAIN Order -> Seq(L)] /\ g \in [DOMAIN Order -> Seq(L)]
  <2>1. \A i \in DOMAIN Order : f[i] \in Seq(L) /\ g[i] \in Seq(L)
    BY ListenerParts DEF f, g
  <2>2. f = [i \in DOMAIN Order |-> f[i]] /\ g = [i \in DOMAIN Order |-> g[i]]
    BY DEF f, g, Changes, Retires
  <2> QED BY <2>1, <2>2
<1>5. FlattenSeq(f) \in Seq(L) /\ FlattenSeq(g) \in Seq(L)
  <2>1. <<>> \in Seq(L) /\ \A p, q \in Seq(L) : p \o q \in Seq(L)
    OBVIOUS
  <2> QED BY <1>3, <1>4, <2>1, OrderFlatten
<1>6. v \in Seq(L) /\ u \in Seq(L) /\ <<o>> \in Seq(L)
  <2> HIDE DEF L
  <2> QED BY <1>2, <1>5, OneSeq DEF u, v, L
<1>7. w \in Seq(Calls) /\ Len(w) = Len(u) + 1 /\ w[Len(u) + 1] = a /\ Len(u) \in Nat
      /\ \A i \in 1..Len(u) : w[i] = u[i]
  <2>1. u \in Seq(Calls)
    BY <1>3, <1>6
  <2> QED BY <1>1, <1>2, <2>1
<1>8. w # <<>> /\ Ends(w, new)
  <2>1. \A i \in 1..Len(u) : u[i].op # "Assign"
    BY <1>6 DEF Listening
  <2>2. Len(w) - 1 = Len(u)
    BY <1>7
  <2> QED BY <1>7, <2>1, <2>2 DEF Ends, a
<1>9. ASSUME NEW l \in Loggers, NEW s \in States,
             (l \in DOMAIN new /\ l \notin DOMAIN old) \/ Says(old, l, s)
      PROVE  \E z : Says(new, l, z) /\ Leads(w, l, s, z)
  <2> DEFINE W == Parts(l, new)
  <2>1. W \subseteq Seq(Calls)
    BY DEF Parts
  <2>2. f \in [DOMAIN Order -> W] /\ g \in [DOMAIN Order -> W]
    <3>1. \A i \in DOMAIN Order : f[i] \in W /\ g[i] \in W
      BY ListenerParts DEF f, g
    <3>2. f = [i \in DOMAIN Order |-> f[i]] /\ g = [i \in DOMAIN Order |-> g[i]]
      BY DEF f, g, Changes, Retires
    <3> HIDE DEF W
    <3> QED BY <3>1, <3>2
  <2>3. FlattenSeq(f) \in W /\ FlattenSeq(g) \in W
    <3> HIDE DEF W
    <3> QED BY <2>1, <2>2, OrderFlatten, PartsClosed DEF W
  <2>4. <<o>> \in W /\ <<a>> \in W
    <3>1. ASSUME NEW p \in Calls, p.op \notin Changers PROVE <<p>> \in W
      <4>1. <<p>> \in Seq(Calls) /\ \A i \in DOMAIN <<p>> : <<p>>[i] = p
        OBVIOUS
      <4> QED BY <3>1, <4>1, PartOther
    <3> HIDE DEF W
    <3> QED BY <1>2, <3>1 DEF Changers, Listening
  <2>5. v \in W /\ u \in W /\ w \in W
    <3> HIDE DEF W
    <3> QED BY <1>1, <2>3, <2>4, PartsClosed DEF u, v, W
  <2>6. CASE Levels(w, l)
    BY <2>5, <2>6 DEF Parts, Reaches
  <2>7. CASE ~Levels(w, l)
    <3>1. Leads(w, l, s, s)
      BY <2>5, <2>7 DEF Parts, Neutral
    <3>2. ~Levels(FlattenSeq(f), l) /\ ~Levels(FlattenSeq(g), l)
      <4>1. /\ <<o>> \in Seq(Calls) /\ FlattenSeq(f) \in Seq(Calls) /\ FlattenSeq(g) \in Seq(Calls)
            /\ v \in Seq(Calls) /\ u \in Seq(Calls) /\ <<a>> \in Seq(Calls)
        BY <2>1, <2>3, <2>4, <2>5
      <4>2. ~Levels(u, l)
        BY <1>1, <2>7, <4>1, LevelsConcat
      <4>3. ~Levels(v, l) /\ ~Levels(FlattenSeq(g), l)
        BY <4>1, <4>2, LevelsConcat DEF u
      <4> QED BY <4>1, <4>3, LevelsConcat DEF v
    <3>3. PICK i \in DOMAIN Order : Order[i] = l
      BY DEF Loggers, Range
    <3>4. ~Levels(f[i], l) /\ ~Levels(g[i], l)
      <4> HIDE DEF W
      <4> QED BY <2>1, <2>2, <3>2, OrderFlatten, PartsClosed DEF W
    <3>5. ~Changed(old, new, l) /\ l \notin DOMAIN old \ DOMAIN new
      BY <3>3, <3>4, ListenerParts DEF f, g
    <3>6. Says(new, l, s)
      BY <1>9, <3>5 DEF Says, Changed
    <3> QED BY <3>1, <3>6
  <2> QED BY <2>6, <2>7
<1> QED BY <1>7, <1>8, <1>9 DEF w

----------------------------------------------------------------------------
(* What a step does to a logger *)

LEMMA StateType ==
  ASSUME Types, NEW l \in Loggers
  PROVE  State(l) \in States
BY DEF Types, State, States

\* Only the assignment changes the variable.
LEMMA LogsKept ==
  ASSUME NEW t \in Threads, Step(t)
  PROVE  /\ Cur(t).op # "Assign" => UNCHANGED <<logs, configured>>
         /\ Cur(t).op = "Assign" => Assign(t)
<1>1. CASE Assign(t)
  BY <1>1 DEF Assign, At, Cur
<1>2. CASE ~Assign(t)
  <2>1. UNCHANGED <<logs, configured>>
    BY <1>2 DEF Step, LogTest, LogLock, LogWalk, LogEnd, SetLevel, AddAppender, AddAppenderEnd,
         DelAppender, ClearAppenders, SetFormatter, SetFormatterWalk, SetFormatterEnd,
         ApSetFormatter, NewAppender, GetLogger, MgrToYaml, MgrToYamlWalk
  <2>2. Cur(t).op # "Assign"
    BY <1>2 DEF Step, LogTest, LogLock, LogWalk, LogEnd, SetLevel, AddAppender, AddAppenderEnd,
         DelAppender, ClearAppenders, SetFormatter, SetFormatterWalk, SetFormatterEnd,
         ApSetFormatter, NewAppender, GetLogger, MgrToYaml, MgrToYamlWalk, At, Cur
  <2> QED BY <2>1, <2>2
<1> QED BY <1>1, <1>2

\* A call changes its logger only.
LEMMA StateKept ==
  ASSUME CallInv, NEW t \in Threads, Step(t), NEW l \in Loggers,
         Cur(t).l # l \/ Cur(t).op \notin Changers
  PROVE  State(l)' = State(l) /\ mFormatter'[l] = mFormatter[l]
<1> USE DEF CallInv, Types, State, Changers, loggerVars
<1>1. CASE SetLevel(t)
  BY <1>1 DEF SetLevel, At, Cur
<1>2. CASE AddAppenderEnd(t)
  BY <1>2 DEF AddAppenderEnd, At, Cur
<1>3. CASE DelAppender(t)
  BY <1>3 DEF DelAppender, At, Cur
<1>4. CASE ClearAppenders(t)
  BY <1>4 DEF ClearAppenders, At, Cur
<1>5. CASE SetFormatter(t)
  BY <1>5 DEF SetFormatter, At, Cur
<1>6. CASE UNCHANGED <<mLevel, mFormatter, mAppenderList>>
  BY <1>6
<1> QED
  BY <1>1, <1>2, <1>3, <1>4, <1>5, <1>6
     DEF Step, LogTest, LogLock, LogWalk, LogEnd, AddAppender, SetFormatterWalk,
         SetFormatterEnd, ApSetFormatter, NewAppender, GetLogger, MgrToYaml, MgrToYamlWalk, Assign

\* A step of a call that stays under way leaves to the call what it does to the
\* logger; with its last step the call has done it.
LEMMA StepEffect ==
  ASSUME CallInv, NEW t \in Threads, Step(t), NEW l \in Loggers,
         Cur(t).op = "SetFormatter" /\ Cur(t).l = l /\ pc[t] # "call" =>
           Accepts(Cur(t).x) /\ mFormatter[l] = Cur(t).x
  PROVE  \/ /\ UNCHANGED work
            /\ After(Cur(t), l, State(l)') = After(Cur(t), l, State(l))
            /\ Cur(t).op = "SetFormatter" /\ Cur(t).l = l =>
                 Accepts(Cur(t).x) /\ mFormatter'[l] = Cur(t).x
         \/ Return(t) /\ State(l)' = After(Cur(t), l, State(l))
<1>0. Types /\ work[t] # <<>> /\ State(l) \in States /\ (UNCHANGED work \/ Return(t))
  BY WorkStep, StateType DEF CallInv
<1>1. CASE Cur(t).l # l \/ Cur(t).op \notin Changers
  <2>1. State(l)' = State(l) /\ mFormatter'[l] = mFormatter[l]
    BY <1>1, StateKept
  <2>2. After(Cur(t), l, State(l)) = State(l)
    BY <1>0, <1>1, AfterOther
  <2> QED BY <1>0, <1>1, <2>1, <2>2 DEF Changers
<1>2. CASE Cur(t).l = l /\ Cur(t).op \in Changers
  <2> USE DEF Types, State
  <2>1. CASE SetLevel(t)
    BY <1>0, <1>2, <2>1 DEF SetLevel, After, At, Cur
  <2>2. CASE AddAppender(t)
    <3>1. UNCHANGED <<work, mLevel, mFormatter, mAppenderList>> /\ Cur(t).op = "AddAppender"
      BY <2>2 DEF AddAppender, loggerVars, At, Cur
    <3> QED BY <3>1
  <2>3. CASE AddAppenderEnd(t)
    BY <1>0, <1>2, <2>3 DEF AddAppenderEnd, After, At, Cur
  <2>4. CASE DelAppender(t)
    BY <1>0, <1>2, <2>4 DEF DelAppender, After, At, Cur
  <2>5. CASE ClearAppenders(t)
    BY <1>0, <1>2, <2>5 DEF ClearAppenders, After, At, Cur
  <2>6. CASE SetFormatter(t)
    <3>1. Cur(t).op = "SetFormatter" /\ UNCHANGED <<mLevel, mAppenderList>>
      BY <2>6 DEF SetFormatter, At, Cur
    <3>2. CASE Accepts(Cur(t).x)
      <4>1. mFormatter' = [mFormatter EXCEPT ![l] = Cur(t).x] /\ UNCHANGED work
        BY <1>2, <2>6, <3>2 DEF SetFormatter, GoTo
      <4>2. mFormatter'[l] = Cur(t).x
        BY <1>0, <4>1
      <4> QED BY <1>2, <3>1, <3>2, <4>1, <4>2 DEF After
    <3>3. CASE ~Accepts(Cur(t).x)
      <4>1. Return(t) /\ UNCHANGED mFormatter
        BY <2>6, <3>3 DEF SetFormatter
      <4> QED BY <1>0, <1>2, <3>1, <3>3, <4>1 DEF After
    <3> QED BY <3>2, <3>3
  <2>7. CASE SetFormatterWalk(t)
    <3>1. /\ UNCHANGED <<work, mLevel, mFormatter, mAppenderList>>
          /\ Cur(t).op = "SetFormatter" /\ pc[t] # "call"
      BY <2>7 DEF SetFormatterWalk, loggerVars, At, Cur
    <3> QED BY <1>2, <3>1
  <2>8. CASE SetFormatterEnd(t)
    <3>1. /\ UNCHANGED <<mLevel, mFormatter, mAppenderList>> /\ Return(t)
          /\ Cur(t).op = "SetFormatter" /\ pc[t] # "call"
      BY <2>8 DEF SetFormatterEnd, loggerVars, At, Cur
    <3> QED BY <1>2, <3>1 DEF After
  <2> QED
    BY <1>2, <2>1, <2>2, <2>3, <2>4, <2>5, <2>6, <2>7, <2>8
       DEF Step, LogTest, LogLock, LogWalk, LogEnd, ApSetFormatter, NewAppender, GetLogger,
           MgrToYaml, MgrToYamlWalk, Assign, At, Cur, Changers
<1> QED BY <1>1, <1>2

\* The assignment is the last call.
LEMMA EndsTail ==
  ASSUME NEW w \in Seq(Calls), w # <<>>, NEW c, Ends(w, c)
  PROVE  /\ w[1].op = "Assign" => w[1].x = c /\ Tail(w) = <<>>
         /\ w[1].op # "Assign" => Tail(w) # <<>> /\ Ends(Tail(w), c)
<1> DEFINE n == Len(w)
           v == Tail(w)
<1>1. /\ n \in Nat \ {0} /\ v \in Seq(Calls) /\ Len(v) = n - 1
      /\ \A i \in 1..(n - 1) : v[i] = w[i+1]
  OBVIOUS
<1>2. w[n] = Op("Assign", Root, Null, c) /\ \A i \in 1..(n - 1) : w[i].op # "Assign"
  BY DEF Ends
<1>3. w[n].op = "Assign" /\ w[n].x = c
  BY <1>2 DEF Op
<1>4. w[1].op = "Assign" <=> n = 1
  BY <1>1, <1>2, <1>3
<1> HIDE DEF v, n
<1>5. CASE n = 1
  <2>1. v = <<>>
    BY <1>1, <1>5
  <2> QED BY <1>3, <1>4, <1>5, <2>1 DEF v
<1>6. CASE n # 1
  <2>1. v # <<>> /\ n - 1 \in 1..(n - 1) /\ (n - 1) + 1 = n
    BY <1>1, <1>6
  <2>2. v[Len(v)] = Op("Assign", Root, Null, c)
    BY <1>1, <1>2, <2>1
  <2>3. \A i \in 1..(Len(v) - 1) : i \in 1..(n - 1) /\ i + 1 \in 1..(n - 1)
    BY <1>1
  <2>4. \A i \in 1..(Len(v) - 1) : v[i].op # "Assign"
    BY <1>1, <1>2, <2>3
  <2>5. Ends(v, c)
    BY <2>2, <2>4 DEF Ends
  <2> QED BY <1>4, <1>6, <2>1, <2>5 DEF v
<1> QED BY <1>5, <1>6

----------------------------------------------------------------------------
(* The invariant *)

LEMMA CallersStep ==
  ASSUME CallInv, CallersInv, NEW t \in Threads,
         \/ \E o \in Api : Call(t, o)
         \/ \E c \in Configs : SetLogs(t, c)
         \/ Step(t)
  PROVE  CallersInv'
<1>0. Types /\ work[t] \in Seq(Calls) /\ Setters \subseteq Threads
  BY ConstantsAssumption DEF CallInv, Types
<1>1. \A u \in Threads : u # t => work'[u] = work[u]
  BY StepUntouched DEF Untouched
<1>2. CASE UNCHANGED work
  BY <1>2 DEF CallersInv, Cur
<1>3. CASE \E o \in Api : Call(t, o)
  <2>1. PICK o \in Api : t \notin Setters /\ work'[t] = <<o>>
    BY <1>0, <1>3 DEF Call, Types
  <2>2. work'[t][1] = o /\ Tail(work'[t]) = <<>>
    BY <2>1
  <2> QED BY <1>0, <1>1, <2>1, <2>2 DEF CallersInv, Cur
<1>4. CASE \E c \in Configs : SetLogs(t, c)
  <2>1. t \in Setters /\ \A u \in Setters : work[u] = <<>>
    BY <1>4 DEF SetLogs
  <2> QED BY <1>0, <1>1, <2>1 DEF CallersInv, Cur
<1>5. CASE Step(t) /\ Return(t)
  <2>1. work[t] # <<>> /\ work'[t] = Tail(work[t])
    BY <1>0, <1>5, WorkStep DEF Return, Types
  <2>2. t \notin Setters => work'[t] = <<>>
    BY <2>1 DEF CallersInv
  <2> QED BY <1>0, <1>1, <2>1, <2>2 DEF CallersInv, Cur
<1> QED BY <1>2, <1>3, <1>4, <1>5, WorkStep

\* The parts of ApplyInv, of the state after a step.
LEMMA ApplyParts ==
  ASSUME CallersInv',
         DOMAIN logs' \subseteq configured', configured' \subseteq Loggers,
         (\A t \in Setters : work'[t] = <<>>) =>
           \A l \in configured' : ~Touched(l) => Says(logs', l, State(l)'),
         \A t \in Setters : work'[t] # <<>> => \E c \in Configs :
           /\ Ends(work'[t], c)
           /\ \A l \in configured' \cup DOMAIN c : ~Touched(l) =>
                \E z : Says(c, l, z) /\ Leads(work'[t], l, State(l)', z),
         \A t \in Setters : FormatterStored(t)'
  PROVE  ApplyInv'
<1>1. ASSUME NEW t \in Setters, work'[t] # <<>> PROVE \E c \in Configs : Brings(t, c)'
  <2>1. PICK c \in Configs :
           /\ Ends(work'[t], c)
           /\ \A l \in configured' \cup DOMAIN c : ~Touched(l) =>
                \E z : Says(c, l, z) /\ Leads(work'[t], l, State(l)', z)
    BY <1>1
  <2>2. Brings(t, c)'
    BY <2>1 DEF Brings, Ends, Says, Leads, After, Touched
  <2> QED BY <2>2
<1>2. ((\A t \in Setters : work[t] = <<>>) =>
         \A l \in configured : ~Touched(l) => Says(logs, l, State(l)))'
  BY DEF Says, Touched
<1> QED BY <1>1, <1>2 DEF ApplyInv

\* A step that leaves the setters' work and the loggers as they are.
LEMMA ApplyFrame ==
  ASSUME ApplyInv, CallersInv', UNCHANGED <<logs, configured>>,
         \A t \in Setters : work'[t] = work[t] /\ pc'[t] = pc[t],
         \A l \in Loggers : ~Touched(l) => State(l)' = State(l) /\ mFormatter'[l] = mFormatter[l],
         Types
  PROVE  ApplyInv'
<1>1. configured \subseteq Loggers /\ DOMAIN logs \subseteq configured /\ Setters \subseteq Threads
  BY ConstantsAssumption DEF ApplyInv
<1>2. ASSUME \A t \in Setters : work'[t] = <<>>, NEW l \in configured', ~Touched(l)
      PROVE  Says(logs', l, State(l)')
  BY <1>1, <1>2 DEF ApplyInv
<1>3. ASSUME NEW t \in Setters, work'[t] # <<>>
      PROVE  \E c \in Configs :
               /\ Ends(work'[t], c)
               /\ \A l \in configured' \cup DOMAIN c : ~Touched(l) =>
                    \E z : Says(c, l, z) /\ Leads(work'[t], l, State(l)', z)
  <2>1. PICK c \in Configs : Brings(t, c)
    BY <1>3 DEF ApplyInv
  <2>2. DOMAIN c \subseteq Loggers
    BY ConstantsAssumption DEF IsConfig
  <2>3. ASSUME NEW l \in configured' \cup DOMAIN c, ~Touched(l)
        PROVE  \E z : Says(c, l, z) /\ Leads(work'[t], l, State(l)', z)
    <3>1. l \in configured \cup DOMAIN c /\ l \in Loggers
      BY <1>1, <2>2
    <3>2. State(l)' = State(l)
      BY <2>3, <3>1
    <3> QED BY <2>1, <2>3, <3>1, <3>2 DEF Brings
  <2> QED BY <2>1, <2>3 DEF Brings
<1>4. ASSUME NEW t \in Setters PROVE FormatterStored(t)'
  <2>1. Cur(t)' = Cur(t) /\ FormatterStored(t)
    BY DEF Cur, ApplyInv
  <2>2. work[t] # <<>> /\ Cur(t).op = "SetFormatter" => Cur(t).l \in Loggers
    BY <1>1, CurCall, CallFacts
  <2>3. Touched(Cur(t).l)' = Touched(Cur(t).l)
    BY <2>1 DEF Touched
  <2> QED BY <2>1, <2>2, <2>3 DEF FormatterStored, Accepts
<1> QED BY <1>1, <1>2, <1>3, <1>4, ApplyParts

LEMMA ApplySetLogs ==
  ASSUME CallInv, ApplyInv, CallersInv', NEW t \in Threads, NEW new \in Configs, SetLogs(t, new)
  PROVE  ApplyInv'
<1> DEFINE w == SetWord(logs, new)
<1>0. Types /\ DOMAIN logs \subseteq configured /\ configured \subseteq Loggers
      /\ Setters \subseteq Threads
  BY ConstantsAssumption DEF CallInv, ApplyInv
<1>1. /\ t \in Setters /\ (\A u \in Setters : work[u] = <<>>) /\ work'[t] = w
      /\ (\A u \in Setters : u # t => work'[u] = <<>>)
      /\ UNCHANGED <<logs, configured, pc, mLevel, mFormatter, mAppenderList>>
  BY <1>0 DEF SetLogs, Types, SetWord, loggerVars
<1>2. DOMAIN new \subseteq Loggers
  BY ConstantsAssumption DEF IsConfig
<1>3. /\ w # <<>> /\ Ends(w, new)
      /\ \A l \in Loggers : \A s \in States :
              (l \in DOMAIN new /\ l \notin DOMAIN logs) \/ Says(logs, l, s) =>
                \E z : Says(new, l, z) /\ Leads(w, l, s, z)
  BY SetLogsBrings
<1> HIDE DEF w
<1>4. ASSUME NEW l \in configured' \cup DOMAIN new, ~Touched(l)
      PROVE  \E z : Says(new, l, z) /\ Leads(work'[t], l, State(l)', z)
  <2>1. l \in Loggers /\ State(l)' = State(l) /\ State(l) \in States
    BY <1>0, <1>1, <1>2, StateType DEF State
  <2>2. l \in configured => Says(logs, l, State(l))
    BY <1>1, <1>4 DEF ApplyInv
  <2>3. (l \in DOMAIN new /\ l \notin DOMAIN logs) \/ Says(logs, l, State(l))
    BY <1>0, <1>1, <1>4, <2>2
  <2> QED BY <1>1, <1>3, <2>1, <2>3
<1>5. ASSUME NEW u \in Setters PROVE FormatterStored(u)'
  <2>1. CASE u = t
    <3>1. pc[t] = "call"
      BY <1>1 DEF CallInv, HeldBy
    <3> QED BY <1>1, <2>1, <3>1 DEF FormatterStored
  <2>2. CASE u # t
    BY <1>1, <2>2 DEF FormatterStored
  <2> QED BY <2>1, <2>2
<1>6. ASSUME NEW u \in Setters, work'[u] # <<>>
      PROVE  \E c \in Configs :
               /\ Ends(work'[u], c)
               /\ \A l \in configured' \cup DOMAIN c : ~Touched(l) =>
                    \E z : Says(c, l, z) /\ Leads(work'[u], l, State(l)', z)
  BY <1>1, <1>3, <1>4, <1>6
<1> QED BY <1>0, <1>1, <1>3, <1>5, <1>6, ApplyParts

\* A step of the setter itself.
LEMMA ApplySetter ==
  ASSUME CallInv, ApplyInv, CallersInv', NEW t \in Setters, Step(t)
  PROVE  ApplyInv'
<1>0. /\ Types /\ DOMAIN logs \subseteq configured /\ configured \subseteq Loggers
      /\ Setters \subseteq Threads /\ t \in Threads /\ work[t] # <<>> /\ work[t] \in Seq(Calls)
      /\ FormatterStored(t)
  BY ConstantsAssumption, WorkStep DEF CallInv, ApplyInv, Types
<1>1. \A u \in Setters : u # t => work[u] = <<>> /\ work'[u] = <<>>
  <2>1. \A u \in Setters : u # t => work[u] = <<>>
    BY <1>0 DEF ApplyInv, CallersInv
  <2>2. \A u \in Setters : u # t => work'[u] = work[u]
    BY <1>0, StepUntouched DEF Untouched
  <2> QED BY <2>1, <2>2
<1>2. PICK c \in Configs : Brings(t, c)
  BY <1>0 DEF ApplyInv
<1>3. DOMAIN c \subseteq Loggers /\ Cur(t) \in Calls
  BY <1>0, ConstantsAssumption, CurCall DEF IsConfig
<1>4. /\ Cur(t).op = "Assign" => Cur(t).x = c /\ Tail(work[t]) = <<>>
      /\ Cur(t).op # "Assign" => Tail(work[t]) # <<>> /\ Ends(Tail(work[t]), c)
  BY <1>0, <1>2, EndsTail DEF Brings, Cur
<1>5. ASSUME NEW l \in configured \cup DOMAIN c, ~Touched(l)
      PROVE  \E z : /\ Says(c, l, z)
                    /\ \/ /\ UNCHANGED work /\ Leads(work[t], l, State(l)', z)
                          /\ Cur(t).op = "SetFormatter" /\ Cur(t).l = l =>
                               Accepts(Cur(t).x) /\ mFormatter'[l] = Cur(t).x
                       \/ Return(t) /\ Leads(Tail(work[t]), l, State(l)', z)
  <2>1. PICK z : Says(c, l, z) /\ Leads(work[t], l, State(l), z)
    BY <1>2, <1>5 DEF Brings
  <2>2. /\ Leads(Tail(work[t]), l, After(Cur(t), l, State(l)), z)
        /\ \A r : After(Cur(t), l, r) = After(Cur(t), l, State(l)) => Leads(work[t], l, r, z)
    BY <1>0, <2>1, LeadsTail DEF Cur
  <2>3. l \in Loggers
    BY <1>0, <1>3
  <2>4. Cur(t).op = "SetFormatter" /\ Cur(t).l = l /\ pc[t] # "call" =>
          Accepts(Cur(t).x) /\ mFormatter[l] = Cur(t).x
    BY <1>0, <1>5 DEF FormatterStored
  <2>5. \/ /\ UNCHANGED work
           /\ After(Cur(t), l, State(l)') = After(Cur(t), l, State(l))
           /\ Cur(t).op = "SetFormatter" /\ Cur(t).l = l =>
                Accepts(Cur(t).x) /\ mFormatter'[l] = Cur(t).x
        \/ Return(t) /\ State(l)' = After(Cur(t), l, State(l))
    BY <1>0, <2>3, <2>4, StepEffect
  <2>6. CASE Return(t) /\ State(l)' = After(Cur(t), l, State(l))
    BY <2>1, <2>2, <2>6
  <2>7. CASE /\ UNCHANGED work
             /\ After(Cur(t), l, State(l)') = After(Cur(t), l, State(l))
             /\ Cur(t).op = "SetFormatter" /\ Cur(t).l = l =>
                  Accepts(Cur(t).x) /\ mFormatter'[l] = Cur(t).x
    BY <2>1, <2>2, <2>7
  <2> QED BY <2>5, <2>6, <2>7
<1>6. Return(t) => work'[t] = Tail(work[t]) /\ pc'[t] = "call"
  BY <1>0 DEF Return, Types
<1>7. UNCHANGED work => ~Return(t)
  <2>1. Tail(work[t]) # work[t]
    <3>1. Len(Tail(work[t])) = Len(work[t]) - 1 /\ Len(work[t]) \in Nat
      BY <1>0
    <3>2. Len(Tail(work[t])) # Len(work[t])
      BY <3>1
    <3> QED BY <3>2, Zenon
  <2> QED BY <1>6, <2>1
<1>8. CASE Cur(t).op = "Assign"
  <2>1. Assign(t)
    BY <1>0, <1>8, LogsKept
  <2>2. /\ logs' = c /\ configured' = configured \cup DOMAIN c /\ Return(t)
        /\ work'[t] = <<>>
    BY <1>4, <1>6, <1>8, <2>1 DEF Assign
  <2>3. \A u \in Setters : work'[u] = <<>>
    BY <1>1, <2>2
  <2>4. ASSUME NEW l \in configured', ~Touched(l) PROVE Says(logs', l, State(l)')
    <3>1. PICK z : Says(c, l, z) /\ Leads(<<>>, l, State(l)', z)
      BY <1>4, <1>5, <1>7, <1>8, <2>2, <2>4
    <3>2. Len(<<>>) = 0
      OBVIOUS
    <3>3. z = State(l)'
      BY <3>1, <3>2 DEF Leads
    <3> QED BY <2>2, <3>1, <3>3
  <2>5. \A u \in Setters : FormatterStored(u)'
    BY <2>3 DEF FormatterStored
  <2>6. DOMAIN logs' \subseteq configured' /\ configured' \subseteq Loggers
    BY <1>0, <1>3, <2>2
  <2> QED BY <2>3, <2>4, <2>5, <2>6, ApplyParts
<1>9. CASE Cur(t).op # "Assign"
  <2>1. UNCHANGED <<logs, configured>>
    BY <1>0, <1>9, LogsKept
  <2>2. work'[t] # <<>> /\ Ends(work'[t], c)
    <3>1. UNCHANGED work \/ Return(t)
      BY <1>0, WorkStep
    <3> QED BY <1>0, <1>2, <1>4, <1>6, <1>9, <3>1 DEF Brings
  <2>3. ASSUME NEW l \in configured' \cup DOMAIN c, ~Touched(l)
        PROVE  \E z : Says(c, l, z) /\ Leads(work'[t], l, State(l)', z)
    <3>1. l \in configured \cup DOMAIN c
      BY <2>1
    <3> QED BY <1>5, <1>6, <2>3, <3>1
  <2>4. ASSUME NEW u \in Setters PROVE FormatterStored(u)'
    <3>1. CASE u # t
      BY <1>1, <3>1 DEF FormatterStored
    <3>2. CASE u = t /\ Return(t)
      BY <1>6, <3>2 DEF FormatterStored
    <3>3. CASE u = t /\ UNCHANGED work
      <4>1. Cur(t)' = Cur(t) /\ Touched(Cur(t).l)' = Touched(Cur(t).l)
        BY <3>3 DEF Cur, Touched
      <4>2. ASSUME Cur(t).op = "SetFormatter", ~Touched(Cur(t).l)
            PROVE  Accepts(Cur(t).x) /\ mFormatter'[Cur(t).l] = Cur(t).x
        <5> DEFINE l == Cur(t).l
        <5>1. l \in Loggers
          BY <1>3, <4>2, CallFacts
        <5>2. Cur(t).op = "SetFormatter" /\ Cur(t).l = l /\ pc[t] # "call" =>
                Accepts(Cur(t).x) /\ mFormatter[l] = Cur(t).x
          BY <1>0, <4>2 DEF FormatterStored
        <5> HIDE DEF l
        <5>3. Cur(t).l = l
          BY DEF l
        <5> QED BY <1>0, <1>7, <3>3, <4>2, <5>1, <5>2, <5>3, StepEffect DEF l
      <4> QED BY <3>3, <4>1, <4>2 DEF FormatterStored, Accepts
    <3> QED BY <1>0, <3>1, <3>2, <3>3, WorkStep
  <2>5. ASSUME NEW u \in Setters, work'[u] # <<>>
        PROVE  \E b \in Configs :
                 /\ Ends(work'[u], b)
                 /\ \A l \in configured' \cup DOMAIN b : ~Touched(l) =>
                      \E z : Says(b, l, z) /\ Leads(work'[u], l, State(l)', z)
    <3>1. u = t
      BY <1>1, <2>5
    <3> QED BY <2>2, <2>3, <3>1
  <2> QED BY <1>0, <2>1, <2>2, <2>4, <2>5, ApplyParts
<1> QED BY <1>8, <1>9

LEMMA ApplyInvStep ==
  ASSUME CallInv, ApplyInv, [Next]_vars
  PROVE  ApplyInv'
<1>0. Types /\ Setters \subseteq Threads
  BY ConstantsAssumption DEF CallInv
<1>1. CASE UNCHANGED vars
  <2>1. CallersInv'
    BY <1>1 DEF vars, callVars, ApplyInv, CallersInv, Cur
  <2>2. /\ UNCHANGED <<logs, configured, work, pc, mFormatter>>
        /\ \A l \in Loggers : State(l)' = State(l)
    BY <1>1 DEF vars, callVars, loggerVars, State
  <2> QED BY <1>0, <2>1, <2>2, ApplyFrame
<1>2. CASE Next
  <2>1. PICK t \in Threads : \/ \E o \in Api : Call(t, o)
                             \/ \E c \in Configs : SetLogs(t, c)
                             \/ Step(t)
    BY <1>2 DEF Next
  <2>2. CallersInv'
    BY <2>1, CallersStep DEF ApplyInv
  <2>3. CASE \E c \in Configs : SetLogs(t, c)
    BY <2>2, <2>3, ApplySetLogs
  <2>4. CASE t \in Setters /\ Step(t)
    BY <2>2, <2>4, ApplySetter
  <2>5. t \notin Setters => \A u \in Setters : work'[u] = work[u] /\ pc'[u] = pc[u]
    BY <1>0, <2>1, StepUntouched DEF Untouched
  <2>6. CASE \E o \in Api : Call(t, o)
    <3>1. /\ t \notin Setters /\ UNCHANGED <<logs, configured, mFormatter>>
          /\ \A l \in Loggers : State(l)' = State(l)
      BY <2>6 DEF Call, loggerVars, State
    <3> QED BY <1>0, <2>2, <2>5, <3>1, ApplyFrame
  <2>7. CASE t \notin Setters /\ Step(t)
    <3>1. Cur(t) \in Api /\ work[t] # <<>>
      BY <2>7, WorkStep DEF ApplyInv, CallersInv
    <3>2. Cur(t).op # "Assign"
      BY <3>1, ConstantsAssumption DEF ApiCalls
    <3>3. UNCHANGED <<logs, configured>>
      BY <2>7, <3>2, LogsKept
    <3>4. ASSUME NEW l \in Loggers, ~Touched(l)
          PROVE  State(l)' = State(l) /\ mFormatter'[l] = mFormatter[l]
      <4>1. Cur(t).l # l \/ Cur(t).op \notin Changers
        BY <3>1, <3>4 DEF Touched, Changers
      <4> QED BY <2>7, <4>1, StateKept
    <3> QED BY <1>0, <2>2, <2>5, <2>7, <3>3, <3>4, ApplyFrame
  <2> QED BY <2>1, <2>3, <2>4, <2>6, <2>7
<1> QED BY <1>1, <1>2

\* Once "logs" is set, every logger that it names or once named, and that no other
\* call changes, is what its define says, or has level 0 and no appender, so that
\* its messages go to the root logger: for any configurations, set one after
\* another, and whatever the other threads do to the other loggers.
THEOREM ConfigurationIsApplied == Spec => []ConfigApplied
<1>1. Init => ApplyInv
  <2> SUFFICES ASSUME Init PROVE ApplyInv
    OBVIOUS
  <2>1. /\ configured = {} /\ logs = <<>> /\ \A t \in Threads : work[t] = <<>>
    BY DEF Init
  <2>2. DOMAIN logs = {}
    BY <2>1
  <2> QED BY <2>1, <2>2, ConstantsAssumption DEF ApplyInv, CallersInv, FormatterStored
<1>2. ApplyInv => ConfigApplied
  BY DEF ApplyInv, ConfigApplied, Says, State
<1>3. CallInv /\ ApplyInv /\ [Next]_vars => ApplyInv'
  BY ApplyInvStep
<1> QED BY <1>1, <1>2, <1>3, CallInvariant, PTL DEF Spec
=============================================================================
