---------------------------- MODULE FileAppender ----------------------------
(***************************************************************************)
(* FileAppender of primo/log: messages go through a std::ofstream that is  *)
(* opened anew when three seconds have passed, on a file system where      *)
(* files are removed, paths cannot be opened and disks fill up.            *)
(*                                                                         *)
(* Sections under mMutex are one action.  mLastTime is read and stored     *)
(* without it.  Logger::Log calls the appender under the logger's lock, so *)
(* the calls overlap only when several loggers share the appender.  Only   *)
(* messages that pass the level test (module Logger) occur here.           *)
(*                                                                         *)
(* The stream is external: the operators on io say what close, open and <<  *)
(* of std::ofstream do.  << only fills a buffer; the file gets it when it  *)
(* is full and when the stream is closed.                                  *)
(***************************************************************************)
EXTENDS Integers, Sequences

CONSTANTS
  Threads,
  U,          \* integers are modulo U (2^64 in the code)
  Garbage,    \* what the uninitialised mLastTime may hold
  BufSize,    \* messages that fit into the stream's buffer
  MaxTime,    \* bound: last value of the clock
  MaxMsgs     \* bound: messages that are logged

ASSUME ConstantsAssumption ==
  /\ MaxTime \in Nat \ {0} /\ MaxMsgs \in Nat /\ BufSize \in Nat
  /\ U \in Nat /\ U > MaxTime + 3 /\ Garbage \subseteq 0..(U - 1)

VARIABLES
  shared,      \* several loggers use the appender
  clock,       \* time(0)
  made,        \* number of messages so far, which is also the name of the last
  pc, event,   \* of each thread: where it is in Log, and its message and time
  mLastTime,
  io,          \* mFileStream and the file, see Stream
  openable, writable,   \* the file system now lets the path be opened, has room
  \* History, for the properties:
  opened,      \* time of the last event that reopened the file, -1 before
  since        \* the messages logged since, that one included

vars == <<shared, clock, made, pc, event, mLastTime, io, openable, writable,
          opened, since>>

Msgs == 1..MaxMsgs

\* good: no error bit.  fd: whether the file is open, and whether under its name
\* or already removed.  file: what the name now leads to, empty if it is absent.
Stream == [good : BOOLEAN, fd : {"closed", "named", "orphan"},
           buf : Seq(Msgs), file : Seq(Msgs)]

\* The buffer reaches the file that is open.
Flush(s) == [s EXCEPT !.buf = <<>>,
                      !.file = IF s.fd = "named" THEN s.file \o s.buf ELSE s.file]

\* close() gives the file up even if the buffer cannot be written, and sets
\* failbit then.
Close(s) == IF writable THEN [Flush(s) EXCEPT !.fd = "closed"]
            ELSE [s EXCEPT !.good = FALSE, !.fd = "closed", !.buf = <<>>]

\* open() for writing fails on a stream that is open; it truncates the file and
\* clears the error bits when it succeeds.
Open(s) == IF openable /\ s.fd = "closed"
           THEN [good |-> TRUE, fd |-> "named", buf |-> <<>>, file |-> <<>>]
           ELSE [s EXCEPT !.good = FALSE]

\* <<, which does nothing on a stream with an error.
Put(s, m) == IF ~s.good THEN s
             ELSE IF Len(s.buf) < BufSize THEN [s EXCEPT !.buf = Append(@, m)]
             ELSE IF writable THEN [Flush(s) EXCEPT !.buf = <<m>>]
             ELSE [s EXCEPT !.good = FALSE]

\* BUG: closes and opens only a stream without an error.
BugReOpen(s) == IF s.good THEN Open(Close(s)) ELSE s

\* ReOpen()
ReOpen(s) == Open(IF s.good THEN Close(s) ELSE s)

\* The constructor calls ReOpen on a new stream, which close() of a file that is
\* not open gives failbit.
Init ==
  /\ shared \in BOOLEAN
  /\ openable \in BOOLEAN /\ writable = TRUE
  /\ io = Open([good |-> FALSE, fd |-> "closed", buf |-> <<>>, file |-> <<>>])
  /\ mLastTime \in Garbage
  /\ clock = 1 /\ made = 0
  /\ pc = [t \in Threads |-> "idle"]
  /\ event = [t \in Threads |-> [msg |-> 0, time |-> 0]]
  /\ opened = -1 /\ since = <<>>

Go(t, from, to) == pc[t] = from /\ pc' = [pc EXCEPT ![t] = to]

\* The logging macro makes the event, with the time, before it calls Log.
Make(t) ==
  /\ made < MaxMsgs
  /\ Go(t, "idle", "made")
  /\ made' = made + 1
  /\ event' = [event EXCEPT ![t] = [msg |-> made + 1, time |-> clock]]
  /\ UNCHANGED <<shared, clock, mLastTime, io, openable, writable, opened, since>>

\* BUG: waits until more than three seconds have passed.
BugDue(now) == now > (mLastTime + 3) % U

\* now >= mLastTime + 3
Due(now) == now >= (mLastTime + 3) % U

Inside(t) == pc[t] \in {"reopen", "store", "write"}

\* Log enters; the logger's lock keeps the others out.
Test(t) ==
  /\ shared \/ \A u \in Threads : ~Inside(u)
  /\ IF Due(event[t].time)
     THEN /\ Go(t, "made", "reopen")
          /\ opened' = event[t].time /\ since' = <<>>
     ELSE Go(t, "made", "write") /\ UNCHANGED <<opened, since>>
  /\ UNCHANGED <<shared, clock, made, event, mLastTime, io, openable, writable>>

ReOpenStep(t) ==
  /\ Go(t, "reopen", "store")
  /\ io' = ReOpen(io)
  /\ UNCHANGED <<shared, clock, made, event, mLastTime, openable, writable,
                 opened, since>>

StoreTime(t) ==
  /\ Go(t, "store", "write")
  /\ mLastTime' = event[t].time
  /\ UNCHANGED <<shared, clock, made, event, io, openable, writable, opened, since>>

\* BUG: reopens the file so that the message reaches it.
BugWrite(t) ==
  /\ Go(t, "write", "idle")
  /\ io' = ReOpen(Put(io, event[t].msg))
  /\ since' = Append(since, event[t].msg)
  /\ UNCHANGED <<shared, clock, made, event, mLastTime, openable, writable, opened>>

Write(t) ==
  /\ Go(t, "write", "idle")
  /\ io' = Put(io, event[t].msg)
  /\ since' = Append(since, event[t].msg)
  /\ UNCHANGED <<shared, clock, made, event, mLastTime, openable, writable, opened>>

\* The world outside the process
Tick == /\ clock < MaxTime /\ clock' = clock + 1
        /\ UNCHANGED <<shared, made, pc, event, mLastTime, io, openable, writable,
                       opened, since>>

\* Somebody removes the file, as a log rotation does.
Remove == /\ io.fd = "named"
          /\ io' = [io EXCEPT !.fd = "orphan", !.file = <<>>]
          /\ UNCHANGED <<shared, clock, made, pc, event, mLastTime, openable,
                         writable, opened, since>>

FileSystem == /\ \/ openable' = ~openable /\ UNCHANGED writable
                 \/ writable' = ~writable /\ UNCHANGED openable
              /\ UNCHANGED <<shared, clock, made, pc, event, mLastTime, io, opened,
                             since>>

Next == \/ \E t \in Threads : \/ Make(t) \/ Test(t) \/ ReOpenStep(t)
                              \/ StoreTime(t) \/ Write(t)
        \/ Tick \/ Remove \/ FileSystem

Spec == Init /\ [][Next]_vars
----------------------------------------------------------------------------
(* Properties *)

\* With one logger the timer is exact from the first reopening on (before it,
\* mLastTime is not initialised): what a file holds is erased only by an event at
\* least three seconds younger than the last one that did so, and no message goes
\* to a file that an older event reopened, whatever the order in which the events
\* of several threads reach the appender.
EraseWindow ==
  [][~shared /\ opened >= 0 =>
       \A t \in Threads :
         /\ pc[t] = "made" /\ pc'[t] = "reopen" => event[t].time >= opened + 3
         /\ pc[t] = "made" /\ pc'[t] = "write"  => event[t].time < opened + 3]_vars

\* With one logger, between two calls of Log, a stream without an error holds in
\* its file and buffer exactly the messages since the last reopening, that one's
\* own first: nothing is lost when the buffer overflows, by close or by the order
\* of ReOpen and <<.  A removed file is excepted until the next reopening.
WindowKept ==
  /\ ~shared /\ io.good /\ io.fd = "named" /\ opened >= 0
  /\ \A t \in Threads : ~Inside(t)
  => io.file \o io.buf = since

\* ReOpen brings the file back under its name, without an error, whenever the path
\* can be opened (Logger.h:226), after a failed open, a removal or a failed close
\* as well; excepted is a stream whose << failed, which ReOpen neither closes nor
\* can open.
ReopenRestores ==
  [][\A t \in Threads :
       /\ pc[t] = "reopen" /\ pc'[t] = "store" /\ openable
       /\ io.good \/ io.fd = "closed"
       => io'.good /\ io'.fd = "named"]_vars
=============================================================================
