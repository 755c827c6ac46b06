------------------------------- MODULE Logger -------------------------------
(***************************************************************************)
(* Loggers, their console appenders, the manager and the listener that     *)
(* rebuilds loggers when the configuration variable "logs" is set          *)
(* (primo/log).                                                            *)
(*                                                                         *)
(* A thread's work is the sequence of calls it still has to make; the      *)
(* first one is under way, at the position pc.  The manager's and the      *)
(* loggers' spin locks are held across calls to other objects and are      *)
(* modelled by their owner.  An appender's spin lock guards sections that  *)
(* call nobody: each is one action, and so is every section of a logger    *)
(* that calls nobody.  Levels are read and stored without a lock.          *)
(*                                                                         *)
(* A formatter is its pattern; Bad is a pattern that LogFormatter::Init    *)
(* refuses, Null the missing formatter and the empty string.               *)
(***************************************************************************)
EXTENDS Integers, FiniteSets, SequencesExt

CONSTANTS
  Threads,
  Setters,     \* the threads that set the variable "logs", one after another
  Order,       \* the names of the loggers, in the order of std::map
  Root,
  Appenders,   \* StdOutAppender objects
  RootAppender,\* the one that LoggerMgr's constructor makes
  Formatters,  \* patterns without an error
  Default,     \* the pattern of Logger's constructor
  Bad, Null, Mgr,
  Api,         \* the calls that the other threads make
  Configs,     \* values of "logs", see Config
  Apart,       \* an appender's SetFormatter overlaps no AddAppender of it
  MaxCalls     \* bound: calls that one thread makes

Loggers == Range(Order)

\* LOG_LEVEL: UNKNOW, DEBUG, INFO, WARN, ERROR, FATAL
Level == 0..5

\* LogAppenderDefine; the appender that it describes is named here
ApDefine == [a : Appenders, level : Level, formatter : Formatters \cup {Bad, Null}]

\* LogDefine
Define == [level : Level, formatter : Formatters \cup {Bad, Null},
           appenders : Seq(ApDefine)]

\* std::set<LogDefine>: at most one define for a name
IsConfig(c) == \A l \in DOMAIN c : l \in Loggers /\ c[l] \in Define

\* One call: the operation, its logger, its appender, and a level, a formatter,
\* an ApDefine or a configuration.
Op(o, l, a, x) == [op |-> o, l |-> l, a |-> a, x |-> x]

\* The calls that a program may make.
ApiCalls ==
       [op : {"Log", "SetLevel"}, l : Loggers, a : {Null}, x : Level]
  \cup [op : {"AddAppender", "DelAppender"}, l : Loggers, a : Appenders, x : {Null}]
  \cup [op : {"ClearAppenders", "GetLogger"}, l : Loggers, a : {Null}, x : {Null}]
  \cup [op : {"SetFormatter"}, l : Loggers, a : {Null}, x : Formatters \cup {Bad}]
  \cup [op : {"ApSetFormatter"}, l : {Null}, a : Appenders, x : Formatters \cup {Null}]
  \cup [op : {"MgrToYaml"}, l : {Null}, a : {Null}, x : {Null}]

\* The appenders that the listener makes. It keeps them to itself and a logger
\* shows its list to nobody: callers neither add them nor set their formatters.
Made == {a \in Appenders : \E c \in Configs : \E l \in DOMAIN c :
           \E i \in DOMAIN c[l].appenders : c[l].appenders[i].a = a}

ASSUME ConstantsAssumption ==
  /\ Setters \subseteq Threads
  /\ Order \in Seq(Loggers) /\ Root \in Loggers /\ Mgr \notin Loggers
  /\ RootAppender \in Appenders /\ Default \in Formatters /\ Bad \notin Formatters
  /\ Null \notin Formatters \cup {Bad} \cup Threads \cup Loggers
  /\ Api \subseteq ApiCalls
  /\ \A o \in Api : o.op \in {"AddAppender", "ApSetFormatter"} => o.a \notin Made
  /\ \A c \in Configs : IsConfig(c)
  /\ Apart \in BOOLEAN /\ MaxCalls \in Nat

VARIABLES
  mLoggers,       \* the names in LoggerMgr::mLoggers
  mLevel, mFormatter, mAppenderList,          \* of each logger
  apLevel, apFormatter, bHasFormatter,        \* of each appender
  owner,          \* who holds the lock of a logger or of the manager
  logs,           \* the value of the variable "logs"
  work,           \* the calls that each thread has yet to make
  pc,             \* where it is in the first one
  pos,            \* its position in a list
  got,            \* what AddAppender got from GetFormatter
  calls,          \* calls begun
  \* What the properties need to know:
  own,            \* formatter last given to the appender's SetFormatter
  giver,          \* the logger that gave the appender its formatter: when it was
                  \* added without one, or by the logger's SetFormatter
  written,        \* appenders that wrote the message of the call
  excused,        \* a level kept the message back, or root had no appender
  configured      \* loggers that "logs" ever named

loggerVars   == <<mLoggers, mLevel, mFormatter, mAppenderList>>
appenderVars == <<apLevel, apFormatter, bHasFormatter, own, giver>>
callVars     == <<work, pc, pos, got, calls, written>>
vars == <<loggerVars, appenderVars, owner, logs, configured, callVars, excused>>

\* Logger's constructor for every name, LoggerMgr's for the root logger.
Init ==
  /\ mLoggers = {Root}
  /\ mLevel = [l \in Loggers |-> 2]
  /\ mFormatter = [l \in Loggers |-> Default]
  /\ mAppenderList = [l \in Loggers |-> IF l = Root THEN <<RootAppender>> ELSE <<>>]
  /\ apLevel = [a \in Appenders |-> 1]
  /\ apFormatter = [a \in Appenders |-> IF a = RootAppender THEN Default ELSE Null]
  /\ bHasFormatter = [a \in Appenders |-> FALSE]
  /\ own = [a \in Appenders |-> Null]
  /\ giver = [a \in Appenders |-> IF a = RootAppender THEN Root ELSE Null]
  /\ owner = [k \in Loggers \cup {Mgr} |-> Null]
  /\ logs = <<>>
  /\ work = [t \in Threads |-> <<>>]
  /\ pc = [t \in Threads |-> "call"]
  /\ pos = [t \in Threads |-> 1]
  /\ got = [t \in Threads |-> Null]
  /\ calls = [t \in Threads |-> 0]
  /\ written = [t \in Threads |-> {}]
  /\ excused = [t \in Threads |-> FALSE]
  /\ configured = {}

\* BUG: the root logger, too, gets a mRoot: itself.
BugRootOfRoot(l) == Root

\* BUG: GetLogger does not set mRoot.
BugNoRoot(l) == Null

\* Logger::mRoot
MRoot(l) == IF l = Root THEN Null ELSE Root

----------------------------------------------------------------------------
(* Calls *)

\* Thread t is at position p of a call of operation o.
At(t, o, p) == work[t] # <<>> /\ work[t][1].op = o /\ pc[t] = p

Cur(t) == work[t][1]

Free(k) == owner[k] = Null

Lock(t, k) == Free(k) /\ owner' = [owner EXCEPT ![k] = t]

\* The call returns, and the scoped locks give back what it holds.
Return(t) ==
  /\ work' = [work EXCEPT ![t] = Tail(@)]
  /\ pc' = [pc EXCEPT ![t] = "call"]
  /\ pos' = [pos EXCEPT ![t] = 1]
  /\ got' = [got EXCEPT ![t] = Null]
  /\ written' = [written EXCEPT ![t] = {}]
  /\ owner' = [k \in DOMAIN owner |-> IF owner[k] = t THEN Null ELSE owner[k]]
  /\ UNCHANGED calls

GoTo(t, p) == pc' = [pc EXCEPT ![t] = p] /\ UNCHANGED <<work, pos, got, calls, written>>

Listed(a) == \E l \in Loggers : a \in Range(mAppenderList[l])

\* A call of AddAppender or of the appender's SetFormatter is under way.
InUse(a) == \E t \in Threads : \E i \in DOMAIN work[t] : work[t][i].a = a

\* What callers keep to: they name loggers that they got from GetLogger, and take
\* the formatter only from an appender that is in no list, whose next Log would
\* otherwise dereference it.  They may add an appender to several lists, twice to
\* one, and again after it was taken out.
MayCall(o) ==
  /\ o.op \notin {"GetLogger", "MgrToYaml", "ApSetFormatter"} => o.l \in mLoggers
  /\ o.op = "ApSetFormatter" /\ o.x = Null => ~Listed(o.a)
  /\ Apart /\ o.op \in {"AddAppender", "ApSetFormatter"} => ~InUse(o.a)

Call(t, o) ==
  /\ t \notin Setters /\ work[t] = <<>> /\ calls[t] < MaxCalls
  /\ MayCall(o)
  /\ work' = [work EXCEPT ![t] = <<o>>]
  /\ calls' = [calls EXCEPT ![t] = @ + 1]
  /\ UNCHANGED <<loggerVars, appenderVars, owner, logs, configured, pc, pos, got,
                 written>>

----------------------------------------------------------------------------
(* Logger::Log and StdOutAppender::Log *)

\* The logger whose Log runs: the call's own, or its mRoot inside of it.
Logging(t) == IF owner[Cur(t).l] = t THEN MRoot(Cur(t).l) ELSE Cur(t).l

\* The logger whose list the thread walks over.
Walked(t) == IF owner[Root] = t THEN Root ELSE Cur(t).l

\* level >= mLevel, before the lock is taken
LogTest(t) ==
  /\ At(t, "Log", "call")
  /\ IF Cur(t).x >= mLevel[Logging(t)]
     THEN GoTo(t, "lock") /\ UNCHANGED owner
     ELSE Return(t)
  /\ UNCHANGED <<loggerVars, appenderVars, logs, configured>>

\* The lock is taken, and the list has appenders, or the root logger is asked.
LogLock(t) ==
  LET l == Logging(t) IN
  /\ At(t, "Log", "lock")
  /\ Lock(t, l)
  /\ GoTo(t, IF mAppenderList[l] # <<>> THEN "walk"
             ELSE IF MRoot(l) # Null THEN "call" ELSE "end")
  /\ UNCHANGED <<loggerVars, appenderVars, logs, configured>>

\* One appender writes, if the level is high enough for it.
LogWalk(t) ==
  LET list == mAppenderList[Walked(t)]
      a    == list[pos[t]]
  IN
  /\ At(t, "Log", "walk")
  /\ written' = [written EXCEPT ![t] = IF Cur(t).x >= apLevel[a] THEN @ \cup {a} ELSE @]
  /\ pos' = [pos EXCEPT ![t] = @ + 1]
  /\ pc' = [pc EXCEPT ![t] = IF pos[t] = Len(list) THEN "end" ELSE @]
  /\ UNCHANGED <<loggerVars, appenderVars, owner, logs, work, got, calls, configured>>

LogEnd(t) ==
  /\ At(t, "Log", "end")
  /\ Return(t)
  /\ UNCHANGED <<loggerVars, appenderVars, logs, configured>>

----------------------------------------------------------------------------
(* The other operations of Logger *)

SetLevel(t) ==
  /\ At(t, "SetLevel", "call")
  /\ mLevel' = [mLevel EXCEPT ![Cur(t).l] = Cur(t).x]
  /\ Return(t)
  /\ UNCHANGED <<mLoggers, mFormatter, mAppenderList, appenderVars, logs, configured>>

\* AddAppender up to the end of appender->GetFormatter()
AddAppender(t) ==
  /\ At(t, "AddAppender", "call")
  /\ Lock(t, Cur(t).l)
  /\ got' = [got EXCEPT ![t] = apFormatter[Cur(t).a]]
  /\ pc' = [pc EXCEPT ![t] = "add"]
  /\ UNCHANGED <<loggerVars, appenderVars, logs, configured, work, pos, calls,
                 written>>

\* the rest, which stores mFormatter without the appender's lock
AddAppenderEnd(t) ==
  LET l == Cur(t).l
      a == Cur(t).a
  IN
  /\ At(t, "AddAppender", "add")
  /\ apFormatter' = [apFormatter EXCEPT ![a] = IF got[t] = Null THEN mFormatter[l] ELSE @]
  /\ giver' = [giver EXCEPT ![a] = IF got[t] = Null THEN l ELSE Null]
  /\ mAppenderList' = [mAppenderList EXCEPT ![l] = Append(@, a)]
  /\ Return(t)
  /\ UNCHANGED <<mLoggers, mLevel, mFormatter, apLevel, bHasFormatter, own, logs, configured>>

\* erases the first occurrence
DelAppender(t) ==
  LET l == Cur(t).l IN
  /\ At(t, "DelAppender", "call") /\ Free(l)
  /\ mAppenderList' = [mAppenderList EXCEPT ![l] = RemoveFirst(@, Cur(t).a)]
  /\ Return(t)
  /\ UNCHANGED <<mLoggers, mLevel, mFormatter, appenderVars, logs, configured>>

\* BUG: clears the list without the lock.
BugClearUnlocked(t) ==
  /\ At(t, "ClearAppenders", "call")
  /\ mAppenderList' = [mAppenderList EXCEPT ![Cur(t).l] = <<>>]
  /\ Return(t)
  /\ UNCHANGED <<mLoggers, mLevel, mFormatter, appenderVars, logs, configured>>

ClearAppenders(t) ==
  /\ At(t, "ClearAppenders", "call") /\ Free(Cur(t).l)
  /\ mAppenderList' = [mAppenderList EXCEPT ![Cur(t).l] = <<>>]
  /\ Return(t)
  /\ UNCHANGED <<mLoggers, mLevel, mFormatter, appenderVars, logs, configured>>

\* SetFormatter(const std::string&) goes on only without IsError(); the overload
\* that it then calls is public, too, and stores whatever it is given.  A call of
\* it with a formatter that has no error is the same as one with its pattern.
Accepts(f) == f # Bad

\* SetFormatter: the refused pattern, or the lock and mFormatter
SetFormatter(t) ==
  LET l == Cur(t).l IN
  /\ At(t, "SetFormatter", "call")
  /\ IF Accepts(Cur(t).x)
     THEN /\ Lock(t, l)
          /\ mFormatter' = [mFormatter EXCEPT ![l] = Cur(t).x]
          /\ GoTo(t, IF mAppenderList[l] = <<>> THEN "end" ELSE "walk")
     ELSE Return(t) /\ UNCHANGED mFormatter
  /\ UNCHANGED <<mLoggers, mLevel, mAppenderList, appenderVars, logs, configured>>

\* BUG: replaces every appender's formatter.
BugInherits(a) == TRUE

\* The appender has no formatter of its own and uses its logger's.
Inherits(a) == ~bHasFormatter[a]

\* one round of the loop over the appenders
SetFormatterWalk(t) ==
  LET l == Cur(t).l
      a == mAppenderList[l][pos[t]]
  IN
  /\ At(t, "SetFormatter", "walk")
  /\ apFormatter' = [apFormatter EXCEPT ![a] = IF Inherits(a) THEN mFormatter[l] ELSE @]
  /\ giver' = [giver EXCEPT ![a] = IF Inherits(a) THEN l ELSE @]
  /\ pos' = [pos EXCEPT ![t] = @ + 1]
  /\ pc' = [pc EXCEPT ![t] = IF pos[t] = Len(mAppenderList[l]) THEN "end" ELSE @]
  /\ UNCHANGED <<loggerVars, apLevel, bHasFormatter, own, owner, logs, configured,
                 work, got, calls, written>>

SetFormatterEnd(t) ==
  /\ At(t, "SetFormatter", "end")
  /\ Return(t)
  /\ UNCHANGED <<loggerVars, appenderVars, logs, configured>>

----------------------------------------------------------------------------
(* Appenders *)

\* LogAppender::SetFormatter of appender a
Given(a, f) == /\ apFormatter' = [apFormatter EXCEPT ![a] = f]
               /\ bHasFormatter' = [bHasFormatter EXCEPT ![a] = (f # Null)]
               /\ own' = [own EXCEPT ![a] = f]
               /\ giver' = [giver EXCEPT ![a] = Null]

ApSetFormatter(t) ==
  /\ At(t, "ApSetFormatter", "call")
  /\ Given(Cur(t).a, Cur(t).x)
  /\ Return(t)
  /\ UNCHANGED <<loggerVars, apLevel, logs, configured>>

\* The listener makes an appender from its define: an object that is in no list
\* and that nobody else knows yet.
NewAppender(t) ==
  LET a == Cur(t).a
      d == Cur(t).x
  IN
  /\ At(t, "NewAppender", "call") /\ ~Listed(a)
  /\ apLevel' = [apLevel EXCEPT ![a] = d.level]
  /\ Given(a, IF d.formatter = Bad THEN Null ELSE d.formatter)
  /\ Return(t)
  /\ UNCHANGED <<loggerVars, logs, configured>>

----------------------------------------------------------------------------
(* LoggerMgr *)

\* A new logger is as Init has it, with mRoot as MRoot says.
GetLogger(t) ==
  /\ At(t, "GetLogger", "call") /\ Free(Mgr)
  /\ mLoggers' = mLoggers \cup {Cur(t).l}
  /\ Return(t)
  /\ UNCHANGED <<mLevel, mFormatter, mAppenderList, appenderVars, logs, configured>>

\* LoggerMgr::ToYamlString takes the manager's lock ...
MgrToYaml(t) ==
  /\ At(t, "MgrToYaml", "call")
  /\ Lock(t, Mgr)
  /\ GoTo(t, "walk")
  /\ UNCHANGED <<loggerVars, appenderVars, logs, configured>>

\* ... and under it calls every logger's ToYamlString, which takes its lock.
MgrToYamlWalk(t) ==
  LET l == Order[pos[t]] IN
  /\ At(t, "MgrToYaml", "walk")
  /\ l \in mLoggers => Free(l)
  /\ IF pos[t] = Len(Order)
     THEN Return(t)
     ELSE /\ pos' = [pos EXCEPT ![t] = @ + 1]
          /\ UNCHANGED <<work, pc, got, calls, written, owner>>
  /\ UNCHANGED <<loggerVars, appenderVars, logs, configured>>

----------------------------------------------------------------------------
(* The listener of "logs" *)

\* BUG: looks only for the name.
BugChanged(old, new, l) == l \in DOMAIN new /\ l \notin DOMAIN old

\* The logger is new, or its define is not the one it had.
Changed(old, new, l) ==
  /\ l \in DOMAIN new
  /\ l \in DOMAIN old => new[l] # old[l]

\* The calls that bring logger l to its define.
Rebuild(l, d) ==
  <<Op("GetLogger", l, Null, Null), Op("SetLevel", l, Null, d.level)>>
  \o (IF d.formatter # Null THEN <<Op("SetFormatter", l, Null, d.formatter)>> ELSE <<>>)
  \o <<Op("ClearAppenders", l, Null, Null)>>
  \o FlattenSeq([i \in DOMAIN d.appenders |->
       <<Op("NewAppender", l, d.appenders[i].a, d.appenders[i]),
         Op("AddAppender", l, d.appenders[i].a, Null)>>])

\* The calls for a logger that is no longer defined.
Retire(l) == <<Op("GetLogger", l, Null, Null), Op("SetLevel", l, Null, 0),
               Op("ClearAppenders", l, Null, Null)>>

OnChange(old, new) ==
  <<Op("Log", Root, Null, 2)>>
  \o FlattenSeq([i \in DOMAIN Order |->
       IF Changed(old, new, Order[i]) THEN Rebuild(Order[i], new[Order[i]]) ELSE <<>>])
  \o FlattenSeq([i \in DOMAIN Order |->
       IF Order[i] \in DOMAIN old \ DOMAIN new THEN Retire(Order[i]) ELSE <<>>])

\* CfgVar::SetValue with a new value: the listener, then the assignment
SetLogs(t, new) ==
  /\ t \in Setters /\ \A u \in Setters : work[u] = <<>>
  /\ calls[t] < MaxCalls
  /\ new # logs
  /\ work' = [work EXCEPT ![t] = OnChange(logs, new) \o <<Op("Assign", Root, Null, new)>>]
  /\ calls' = [calls EXCEPT ![t] = @ + 1]
  /\ UNCHANGED <<loggerVars, appenderVars, owner, logs, configured, pc, pos, got,
                 written>>

Assign(t) ==
  /\ At(t, "Assign", "call")
  /\ logs' = Cur(t).x
  /\ configured' = configured \cup DOMAIN logs'
  /\ Return(t)
  /\ UNCHANGED <<loggerVars, appenderVars>>

----------------------------------------------------------------------------
Step(t) ==
  \/ LogTest(t) \/ LogLock(t) \/ LogWalk(t) \/ LogEnd(t)
  \/ SetLevel(t) \/ AddAppender(t) \/ AddAppenderEnd(t) \/ DelAppender(t)
  \/ ClearAppenders(t) \/ SetFormatter(t) \/ SetFormatterWalk(t) \/ SetFormatterEnd(t)
  \/ ApSetFormatter(t) \/ NewAppender(t)
  \/ GetLogger(t) \/ MgrToYaml(t) \/ MgrToYamlWalk(t) \/ Assign(t)

\* While thread t logs: the message is excused if a level keeps it back or the
\* root logger is without appender at some moment.
Excused(t) ==
  \/ At(t, "Log", "call") /\ Cur(t).x < mLevel[Logging(t)]
  \/ At(t, "Log", "walk") /\ Cur(t).x < apLevel[mAppenderList[Walked(t)][pos[t]]]
  \/ mAppenderList[Root] = <<>>

Observe ==
  excused' = [t \in Threads |->
    work[t] # <<>> /\ Cur(t).op = "Log" /\ work'[t] = work[t]
      /\ (excused[t] \/ Excused(t))]

Next == /\ \E t \in Threads : \/ \E o \in Api : Call(t, o)
                              \/ \E c \in Configs : SetLogs(t, c)
                              \/ Step(t)
        /\ Observe

Spec == Init /\ [][Next]_vars

\* A thread that has begun a call goes on.
FairSpec == Spec /\ \A t \in Threads : WF_vars(Step(t) /\ Observe)

----------------------------------------------------------------------------
(* Properties *)

\* A thread that walks over a logger's list stands on an element of it, although
\* other threads clear, extend and rebuild the lists meanwhile: the iterators of
\* Log and of SetFormatter stay valid.
IteratorsValid ==
  \A t \in Threads :
    pc[t] = "walk" /\ Cur(t).op \in {"Log", "SetFormatter"} =>
      pos[t] \in DOMAIN mAppenderList[Walked(t)]

\* Every listed appender has a formatter to Log with, never a refused one, and
\* its own if it was given one.  One that got its formatter from a logger of whose
\* list it is formats with that logger's present one, unless a SetFormatter is on
\* its way through the list, however lists are rebuilt and shared.  Nothing is
\* said of an appender that was added while it still had the formatter of a logger:
\* AddAppender keeps that one until the next SetFormatter (Logger.cpp:103).
FormattersFollow ==
  \A l \in Loggers : \A a \in Range(mAppenderList[l]) :
    /\ apFormatter[a] \in Formatters
    /\ own[a] # Null => apFormatter[a] = own[a]
    /\ giver[a] = l /\ (\A t \in Threads : owner[l] = t => Cur(t).op # "SetFormatter") =>
         apFormatter[a] = mFormatter[l]

\* A message that passes the levels is written by somebody, also while the
\* configuration takes its logger's appenders away and gives it others: the
\* root logger stands in, as long as it has an appender.
Delivered ==
  \A t \in Threads :
    At(t, "Log", "end") => written[t] # {} \/ excused[t] \/ Excused(t)

\* Logger l is changed by other calls, too.
Touched(l) ==
  \E o \in Api : o.l = l /\ o.op \in {"SetLevel", "SetFormatter", "AddAppender",
                                      "DelAppender", "ClearAppenders"}

\* Once "logs" is set, its loggers are what their defines say, the ones skipped
\* as equal included, and those it once had and has no longer have level 0 and no
\* appender, so that their messages go to the root logger: the listener's
\* comparison of old and new keeps variable and loggers together.
ConfigApplied ==
  (\A t \in Setters : work[t] = <<>>) =>
    \A l \in configured : ~Touched(l) =>
      IF l \in DOMAIN logs
      THEN /\ mLevel[l] = logs[l].level
           /\ logs[l].formatter \in Formatters => mFormatter[l] = logs[l].formatter
           /\ mAppenderList[l] = [i \in DOMAIN logs[l].appenders |-> logs[l].appenders[i].a]
      ELSE mLevel[l] = 0 /\ mAppenderList[l] = <<>>

\* Every call returns: the locks are taken in the order manager, logger, root.
CallsReturn == \A t \in Threads : work[t] # <<>> ~> work[t] = <<>>
=============================================================================
