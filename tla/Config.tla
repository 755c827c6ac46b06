------------------------------- MODULE Config -------------------------------
(***************************************************************************)
(* The registry of configuration variables, class Config of                *)
(* primo/config.h and primo/config.cpp: LookUp registers a variable or     *)
(* finds it, LoadFromYaml gives the registered variables the values of a   *)
(* document, Visit calls back for each of them.                            *)
(*                                                                         *)
(* Several threads use the registry, each along its program, a sequence of *)
(* calls.  LookUp is one step because it holds the write lock throughout;  *)
(* LoadFromYaml holds the read lock only inside LookUpBase, so it is       *)
(* interleaved node by node, and Visit holds it for all of its callbacks.  *)
(* CfgVar::FromString is two steps and its listeners' calls between them:  *)
(* the comparison under the variable's read lock, and the assignment under *)
(* its write lock (module CfgVar has all of CfgVar).  Both locks let a     *)
(* reader in while a writer waits, as pthread_rwlock_t does by default.    *)
(* A listener here calls LookUp, with a legal name, and does not throw.    *)
(* What a document's nodes are and how a text is converted are parameters, *)
(* defined in the modules ConfigDocs and LexicalCast.                      *)
(***************************************************************************)
EXTENDS Naturals, SequencesExt, FiniteSets

CONSTANTS
  AllNodes(_),  \* ListAllMember: the nodes of a document, [name, node]
  Casts(_, _),  \* LexicalCast to a type of a node: its value, or none if it throws
  Threads,
  Legal,      \* the parts of names that have legal characters only
  Lower,      \* ::tolower, of each part of a document's keys
  Statics,    \* the LookUps of static initialisers, before main
  Reacts,     \* for the name of a variable with a listener, the LookUp it calls
  Programs    \* what the threads may call: functions from Threads to call sequences

\* The calls of a program.
LookUpCall(name, type, dflt) == [call |-> "lookup", name |-> name, type |-> type, dflt |-> dflt]
FindCall(name, type)         == [call |-> "find", name |-> name, type |-> type]
LoadCall(root)               == [call |-> "load", root |-> root]
VisitCall                    == [call |-> "visit"]

Nobody == 0      \* nullptr, or no variable

\* A static LookUp registers its own variable; a program is a sequence of calls
\* for each thread, and every document has a root node.
ASSUME ConstantsAssumption ==
  /\ Statics \in Seq(Range(Statics))
  /\ \A i, j \in DOMAIN Statics : Statics[i].name = Statics[j].name => i = j
  /\ \A c \in Range(Statics) \cup Range(Reacts) : c.call = "lookup"
  /\ \A p \in Programs : /\ p \in [Threads -> Seq(UNION {Range(p[t]) : t \in Threads})]
                         /\ \A t \in Threads : \A c \in Range(p[t]) : c.call = "load" =>
                              AllNodes(c.root) \in Seq(Range(AllNodes(c.root))) \ {<<>>}

VARIABLES
  mDatas,     \* GetDatas(): names to variables
  objects,    \* the CfgVars made so far, a variable is an index
  program,    \* what each thread was to call
  todo,       \* what each thread has yet to call, the current call included
  nodes,      \* LoadFromYaml: the rest of AllNodes
  setting,    \* FromString: the variable, {its new value}, the listeners' LookUps to make
  seen,       \* Visit: the names already called back for
  handles     \* what LookUp has returned

loadVars == <<nodes, setting>>
vars == <<mDatas, objects, program, todo, loadVars, seen, handles>>

IsLegal(name) == \A i \in DOMAIN name : name[i] \in Legal
Made(c)       == [name |-> c.name, type |-> c.type, mVal |-> c.dflt]
Idle          == [var |-> Nobody, new |-> {}, calls |-> <<>>]

Init ==
  /\ program \in Programs
  /\ todo = program
  /\ objects = [i \in DOMAIN Statics |-> Made(Statics[i])]
  /\ mDatas = [n \in {c.name : c \in Range(Statics)} |->
                 CHOOSE i \in DOMAIN Statics : Statics[i].name = n]
  /\ nodes = [t \in Threads |-> <<>>]
  /\ setting = [t \in Threads |-> Idle]
  /\ seen = [t \in Threads |-> {}]
  /\ handles = {}

\* t is at a call c, or inside it.
At(t, c)    == todo[t] # <<>> /\ Head(todo[t]).call = c
Returned(t) == todo' = [todo EXCEPT ![t] = Tail(@)]

\* BUG: LoadFromYaml keeps the registry's read lock while it sets the variables.
BugReaders == {t \in Threads : seen[t] # {} \/ nodes[t] # <<>> \/ setting[t].var # Nobody}

\* Who holds the registry's read lock between two steps.  A Visit of an empty
\* registry, and one that has not called back yet, hold it in no state.
Readers == {t \in Threads : seen[t] # {}}

----------------------------------------------------------------------------
(* LookUp *)

LookUpBase(name) == IF name \in DOMAIN mDatas THEN mDatas[name] ELSE Nobody

\* dynamic_pointer_cast<CfgVar<T> > of the variable called name
Cast(name, type) ==
  LET var == LookUpBase(name) IN
  IF var # Nobody /\ objects[var].type = type THEN var ELSE Nobody

Returns(c, var) == handles' = handles \cup {[name |-> c.name, type |-> c.type, var |-> var]}

\* BUG: replaces a variable of another type.
BugRegister(c) ==
  LET found == Cast(c.name, c.type) IN
  IF found # Nobody
  THEN Returns(c, found) /\ UNCHANGED <<mDatas, objects>>
  ELSE /\ objects' = Append(objects, Made(c))
       /\ mDatas' = [n \in DOMAIN mDatas \cup {c.name} |->
                       IF n = c.name THEN Len(objects') ELSE mDatas[n]]
       /\ Returns(c, Len(objects'))

\* LookUp with a default value, for a name that is legal.  When the types differ
\* it also reads the variable, for its message, and so waits for no reader of it.
Register(c) ==
  IF c.name \in DOMAIN mDatas
  THEN Returns(c, Cast(c.name, c.type)) /\ UNCHANGED <<mDatas, objects>>
  ELSE /\ objects' = Append(objects, Made(c))
       /\ mDatas' = [n \in DOMAIN mDatas \cup {c.name} |->
                       IF n = c.name THEN Len(objects') ELSE mDatas[n]]
       /\ Returns(c, Len(objects'))

LookUp(t) ==
  /\ At(t, "lookup")
  /\ Readers = {}
  /\ Returned(t)
  /\ LET c == Head(todo[t]) IN
     IF c.name \in DOMAIN mDatas \/ IsLegal(c.name)
     THEN Register(c)
     ELSE UNCHANGED <<mDatas, objects, handles>>          \* throws invalid_argument
  /\ UNCHANGED <<program, loadVars, seen>>

\* LookUp without a default value
Find(t) ==
  /\ At(t, "find")
  /\ Returned(t)
  /\ LET c == Head(todo[t]) IN Returns(c, Cast(c.name, c.type))
  /\ UNCHANGED <<mDatas, objects, program, loadVars, seen>>

----------------------------------------------------------------------------
(* LoadFromYaml *)

\* The list has at least the root, which has no name and is skipped.
LoadFromYaml(t) ==
  /\ At(t, "load") /\ nodes[t] = <<>>
  /\ nodes' = [nodes EXCEPT ![t] = AllNodes(Head(todo[t]).root)]
  /\ UNCHANGED <<mDatas, objects, program, todo, setting, seen, handles>>

\* BUG: the loop ends before the last node.
BugNextNode(t) ==
  /\ nodes' = [nodes EXCEPT ![t] = IF Len(@) <= 2 THEN <<>> ELSE Tail(@)]
  /\ IF Len(nodes[t]) <= 2 THEN Returned(t) ELSE UNCHANGED todo

\* The loop goes on to the next node, or LoadFromYaml returns.
NextNode(t) ==
  /\ nodes' = [nodes EXCEPT ![t] = Tail(@)]
  /\ IF Len(nodes[t]) = 1 THEN Returned(t) ELSE UNCHANGED todo

Lowered(name) == [i \in DOMAIN name |-> Lower[name[i]]]

\* The loop up to FromString, and FromString up to the listeners; a text that is
\* not of the variable's type, or its present value, ends it here.
FromString(t) ==
  /\ nodes[t] # <<>> /\ setting[t].var = Nobody
  /\ LET n   == Head(nodes[t])
         key == Lowered(n.name)
         var == IF key = <<>> THEN Nobody ELSE LookUpBase(key)
     IN
     IF var = Nobody
     THEN NextNode(t) /\ UNCHANGED setting
     ELSE LET new == Casts(objects[var].type, n.node) \ {objects[var].mVal} IN
          IF new = {}
          THEN NextNode(t) /\ UNCHANGED setting
          ELSE /\ setting' = [setting EXCEPT ![t] =
                    [var |-> var, new |-> new,
                     calls |-> IF key \in DOMAIN Reacts THEN <<Reacts[key]>> ELSE <<>>]]
               /\ UNCHANGED <<nodes, todo>>
  /\ UNCHANGED <<mDatas, objects, program, seen, handles>>

\* A listener calls LookUp, while SetValue holds the variable's read lock.
Listener(t) ==
  /\ setting[t].calls # <<>>
  /\ Readers = {}
  /\ Register(Head(setting[t].calls))
  /\ setting' = [setting EXCEPT ![t].calls = Tail(@)]
  /\ UNCHANGED <<program, todo, nodes, seen>>

\* SetValue assigns, once no one else holds the variable's lock.
Assign(t) ==
  LET s == setting[t] IN
  /\ s.var # Nobody /\ s.calls = <<>>
  /\ \A u \in Threads : setting[u].var = s.var => setting[u].calls = <<>>
  /\ \E val \in s.new : objects' = [objects EXCEPT ![s.var].mVal = val]
  /\ setting' = [setting EXCEPT ![t] = Idle]
  /\ NextNode(t)
  /\ UNCHANGED <<mDatas, program, seen, handles>>

----------------------------------------------------------------------------
(* Visit *)

\* The next callback, which reads the variable.  The map has no order.
Visit(t) ==
  /\ At(t, "visit")
  /\ \E n \in DOMAIN mDatas \ seen[t] : seen' = [seen EXCEPT ![t] = @ \cup {n}]
  /\ UNCHANGED <<mDatas, objects, program, todo, loadVars, handles>>

VisitEnds(t) ==
  /\ At(t, "visit") /\ seen[t] = DOMAIN mDatas
  /\ seen' = [seen EXCEPT ![t] = {}]
  /\ Returned(t)
  /\ UNCHANGED <<mDatas, objects, program, loadVars, handles>>

Step(t) == \/ LookUp(t) \/ Find(t) \/ LoadFromYaml(t) \/ FromString(t) \/ Listener(t)
           \/ Assign(t) \/ Visit(t) \/ VisitEnds(t)

Next == \E t \in Threads : Step(t)

\* As long as some thread can go on, one does.  No more is needed, because the
\* programs end.
Spec == Init /\ [][Next]_vars /\ WF_vars(Next)

----------------------------------------------------------------------------
(* Properties *)

Done == \A t \in Threads : todo[t] = <<>>

\* Variable v is as a LookUp made it.
IsDefault(v) ==
  \E c \in Range(Statics) \cup Range(Reacts) \cup UNION {Range(program[t]) : t \in Threads} :
    c.call = "lookup" /\ Made(c) = v

\* The nodes that call i of thread t loads, and whether the j-th is for variable v
\* and of its type.
Listed(t, i) == IF program[t][i].call = "load" THEN AllNodes(program[t][i].root) ELSE <<>>

Gives(t, i, j, v) ==
  LET n == Listed(t, i)[j] IN
  v.name # <<>> /\ Lowered(n.name) = v.name /\ Casts(v.type, n.node) # {}

\* Node j of call i is the last one of thread t for v.
LastFor(t, i, j, v) ==
  /\ Gives(t, i, j, v)
  /\ \A k \in DOMAIN program[t] : \A m \in DOMAIN Listed(t, k) :
       Gives(t, k, m, v) => k < i \/ (k = i /\ m <= j)

\* LoadFromYaml: when all have returned, a variable holds the value of the last
\* node for it of some thread, however the threads' nodes, listeners and LookUps
\* came between each other.  Only without such a node, or when the variable was
\* registered after main began, can it still hold the default value.
LoadedAsListed ==
  Done => \A x \in DOMAIN objects :
    LET v == objects[x] IN
    \/ \E t \in Threads : \E i \in DOMAIN program[t] : \E j \in DOMAIN Listed(t, i) :
         LastFor(t, i, j, v) /\ v.mVal \in Casts(v.type, Listed(t, i)[j].node)
    \/ /\ \/ x > Len(Statics)
          \/ \A t \in Threads : \A i \in DOMAIN program[t] : \A j \in DOMAIN Listed(t, i) :
               ~Gives(t, i, j, v)
       /\ IsDefault(v)

\* LookUp: whoever asks for a name and a type shares one variable, which is of
\* that type and is the one that LoadFromYaml sets; whoever asks for another type
\* gets nullptr.
HandlesShared ==
  \A h \in handles : h.var # Nobody => /\ mDatas[h.name] = h.var
                                       /\ objects[h.var].type = h.type
                                       /\ objects[h.var].name = h.name

\* Config: the registry's lock, the variables' locks and the LookUps that
\* listeners make under the latter never leave a caller waiting for ever.
CallsReturn == <>Done
=============================================================================
