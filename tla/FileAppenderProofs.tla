------------------------- MODULE FileAppenderProofs -------------------------
(***************************************************************************)
(* The timer of FileAppender and the contents of its file, for any number  *)
(* of threads and messages, any buffer, any initial value of the timer and *)
(* any behaviour of the file system.                                       *)
(***************************************************************************)
EXTENDS FileAppender, TLAPS

Places == {"idle", "made", "reopen", "store", "write"}

TimeTypes ==
  /\ clock \in 1..MaxTime
  /\ made \in 0..MaxMsgs
  /\ pc \in [Threads -> Places]
  /\ event \in [Threads -> [msg : 0..MaxMsgs, time : 0..MaxTime]]
  /\ mLastTime \in 0..(U - 1)
  /\ opened \in -1..MaxTime

IoTypes ==
  /\ io \in Stream
  /\ since \in Seq(Msgs)
  /\ \A t \in Threads : pc[t] # "idle" => event[t].msg \in Msgs

\* The logger's lock lets one thread into the appender at a time.
Alone ==
  ~shared => \A t, u \in Threads : Inside(t) /\ Inside(u) => t = u

\* mLastTime is the time of the last reopening, or will be as soon as the thread
\* that reopens stores it.
Timer ==
  ~shared =>
    /\ \A t \in Threads : pc[t] \in {"reopen", "store"} => opened = event[t].time
    /\ opened >= 0 /\ (\A t \in Threads : pc[t] \notin {"reopen", "store"})
         => mLastTime = opened

\* The window is open from the reopening on, and so is what the file and the
\* buffer hold, as long as the stream has no error.
Window ==
  ~shared =>
    /\ \A t \in Threads : pc[t] = "reopen" => since = <<>>
    /\ /\ opened >= 0 /\ io.good /\ io.fd = "named"
       /\ \A t \in Threads : pc[t] # "reopen"
       => io.file \o io.buf = since

TimerInv  == TimeTypes /\ Alone /\ Timer
WindowInv == TimerInv /\ IoTypes /\ Window

----------------------------------------------------------------------------
(* The timer *)

\* Before the clock comes near U, adding three seconds does not wrap around.
LEMMA DueIsLater ==
  ASSUME NEW now \in 0..MaxTime, mLastTime \in 0..MaxTime
  PROVE  Due(now) <=> now >= mLastTime + 3
<1>1. /\ mLastTime + 3 \in Nat /\ mLastTime + 3 < U /\ U \in Nat /\ U > 0
  BY ConstantsAssumption
<1>2. (mLastTime + 3) % U = mLastTime + 3
  BY <1>1
<1> QED BY <1>2 DEF Due

LEMMA TimerInit == Init => TimerInv
<1> SUFFICES ASSUME Init PROVE TimerInv
  OBVIOUS
<1>1. TimeTypes
  BY ConstantsAssumption DEF Init, TimeTypes, Places
<1>2. Alone /\ Timer
  BY <1>1 DEF Init, Alone, Timer, Inside, TimeTypes
<1> QED BY <1>1, <1>2 DEF TimerInv

LEMMA TimerStep ==
  ASSUME TimerInv, [Next]_vars
  PROVE  TimerInv'
<1> USE DEF TimerInv, Inside
<1>1. CASE UNCHANGED vars
  BY <1>1 DEF vars, TimeTypes, Alone, Timer
<1>2. ASSUME NEW t \in Threads, Make(t) PROVE TimerInv'
  <2>1. TimeTypes'
    BY <1>2, ConstantsAssumption DEF Make, Go, TimeTypes, Places
  <2>2. (Alone /\ Timer)'
    BY <1>2 DEF Make, Go, TimeTypes, Alone, Timer
  <2> QED BY <2>1, <2>2
<1>3. ASSUME NEW t \in Threads, Test(t) PROVE TimerInv'
  <2>1. TimeTypes'
    BY <1>3 DEF Test, Go, TimeTypes, Places
  <2>2. Alone'
    BY <1>3 DEF Test, Go, TimeTypes, Alone
  <2>3. Timer'
    BY <1>3 DEF Test, Go, TimeTypes, Timer
  <2> QED BY <2>1, <2>2, <2>3
<1>4. ASSUME NEW t \in Threads, ReOpenStep(t) PROVE TimerInv'
  <2>1. TimeTypes'
    BY <1>4 DEF ReOpenStep, Go, TimeTypes, Places
  <2>2. (Alone /\ Timer)'
    BY <1>4 DEF ReOpenStep, Go, TimeTypes, Alone, Timer
  <2> QED BY <2>1, <2>2
<1>5. ASSUME NEW t \in Threads, StoreTime(t) PROVE TimerInv'
  <2>1. event[t].time \in 0..(U - 1)
    BY ConstantsAssumption DEF TimeTypes
  <2>2. TimeTypes'
    BY <1>5, <2>1 DEF StoreTime, Go, TimeTypes, Places
  <2>3. (Alone /\ Timer)'
    BY <1>5 DEF StoreTime, Go, TimeTypes, Alone, Timer
  <2> QED BY <2>2, <2>3
<1>6. ASSUME NEW t \in Threads, Write(t) PROVE TimerInv'
  <2>1. TimeTypes'
    BY <1>6 DEF Write, Go, TimeTypes, Places
  <2>2. (Alone /\ Timer)'
    BY <1>6 DEF Write, Go, TimeTypes, Alone, Timer
  <2> QED BY <2>1, <2>2
<1>7. CASE Tick
  BY <1>7, ConstantsAssumption DEF Tick, TimeTypes, Alone, Timer
<1>8. CASE Remove \/ FileSystem
  BY <1>8 DEF Remove, FileSystem, TimeTypes, Alone, Timer
<1> QED BY <1>1, <1>2, <1>3, <1>4, <1>5, <1>6, <1>7, <1>8 DEF Next

LEMMA TimerInvariant == Spec => []TimerInv
BY TimerInit, TimerStep, PTL DEF Spec

\* With one logger the file is erased only by events at least three seconds
\* younger than the last one that did so, and messages go to no file that an
\* event three or more seconds older reopened.
THEOREM TimerExact == Spec => EraseWindow
<1> DEFINE A == ~shared /\ opened >= 0 =>
       \A t \in Threads :
         /\ pc[t] = "made" /\ pc'[t] = "reopen" => event[t].time >= opened + 3
         /\ pc[t] = "made" /\ pc'[t] = "write"  => event[t].time < opened + 3
<1>1. ASSUME TimerInv, [Next]_vars PROVE [A]_vars
  <2> SUFFICES ASSUME Next, ~shared, opened >= 0, NEW t \in Threads,
                      pc[t] = "made", pc'[t] \in {"reopen", "write"}
               PROVE  /\ pc'[t] = "reopen" => event[t].time >= opened + 3
                      /\ pc'[t] = "write" => event[t].time < opened + 3
    BY <1>1
  <2>1. Test(t)
    BY <1>1 DEF Next, Make, Test, ReOpenStep, StoreTime, Write, Go, Tick, Remove,
                FileSystem, TimerInv, TimeTypes
  <2>2. mLastTime = opened /\ opened \in 0..MaxTime /\ event[t].time \in 0..MaxTime
    BY <1>1, <2>1 DEF Test, Inside, TimerInv, TimeTypes, Timer
  <2>3. Due(event[t].time) <=> event[t].time >= opened + 3
    BY <2>2, DueIsLater
  <2>4. pc'[t] = "reopen" <=> Due(event[t].time)
    BY <1>1, <2>1 DEF Test, Go, TimerInv, TimeTypes
  <2> QED BY <2>2, <2>3, <2>4
<1> QED BY <1>1, TimerInvariant, PTL DEF Spec, EraseWindow

----------------------------------------------------------------------------
(* The contents of the file *)

\* Messages are not lost or reordered when one is appended to the buffer.
LEMMA AppendKept ==
  ASSUME NEW f \in Seq(Msgs), NEW b \in Seq(Msgs), NEW m \in Msgs
  PROVE  /\ f \o Append(b, m) = Append(f \o b, m)
         /\ (f \o b) \o <<m>> = Append(f \o b, m)
<1>1. \A g \in Seq(Msgs) : g \o <<m>> = Append(g, m)
  OBVIOUS
<1>2. f \o b \in Seq(Msgs)
  OBVIOUS
<1>3. f \o Append(b, m) = Append(f \o b, m)
  OBVIOUS
<1> QED BY <1>1, <1>2, <1>3

\* <<, close and open keep the type of the stream.
LEMMA StreamTypes ==
  ASSUME NEW s \in Stream, NEW m \in Msgs
  PROVE  /\ Put(s, m) \in Stream /\ Close(s) \in Stream /\ Open(s) \in Stream
         /\ ReOpen(s) \in Stream
<1>0. s.buf \in Seq(Msgs) /\ s.file \in Seq(Msgs)
  BY DEF Stream
<1>1. Flush(s) \in Stream /\ <<m>> \in Seq(Msgs) /\ Append(s.buf, m) \in Seq(Msgs)
      /\ <<>> \in Seq(Msgs)
  <2>1. <<m>> \in Seq(Msgs) /\ Append(s.buf, m) \in Seq(Msgs) /\ <<>> \in Seq(Msgs)
        /\ s.file \o s.buf \in Seq(Msgs)
    BY <1>0
  <2> QED BY <2>1 DEF Flush, Stream
<1>2. Put(s, m) \in Stream /\ Close(s) \in Stream
  BY <1>1 DEF Put, Close, Stream
<1>3. \A r \in Stream : Open(r) \in Stream
  BY <1>1 DEF Open, Stream
<1> QED BY <1>2, <1>3 DEF ReOpen

\* << on a stream that stays without an error puts the message after all others.
LEMMA PutKeeps ==
  ASSUME NEW s \in Stream, NEW m \in Msgs, Put(s, m).good, Put(s, m).fd = "named"
  PROVE  /\ s.good /\ s.fd = "named"
         /\ Put(s, m).file \o Put(s, m).buf = Append(s.file \o s.buf, m)
<1>1. s.file \in Seq(Msgs) /\ s.buf \in Seq(Msgs)
  BY DEF Stream
<1>2. s.good /\ s.fd = "named"
  BY DEF Put, Flush, Stream
<1>3. CASE Len(s.buf) < BufSize
  BY <1>1, <1>2, <1>3, AppendKept DEF Put, Stream
<1>4. CASE ~(Len(s.buf) < BufSize)
  <2>1. Put(s, m).file = s.file \o s.buf /\ Put(s, m).buf = <<m>>
    BY <1>2, <1>4 DEF Put, Flush, Stream
  <2>2. (s.file \o s.buf) \o <<m>> = Append(s.file \o s.buf, m)
    BY <1>1, AppendKept
  <2> QED BY <1>2, <2>1, <2>2
<1> QED BY <1>3, <1>4

\* A stream that ReOpen leaves without an error has an empty file of its own.
LEMMA ReOpenEmpty ==
  ASSUME NEW s \in Stream, ReOpen(s).good
  PROVE  ReOpen(s).fd = "named" /\ ReOpen(s).file = <<>> /\ ReOpen(s).buf = <<>>
<1> DEFINE r == IF s.good THEN Close(s) ELSE s
<1>1. ReOpen(s) = Open(r)
  BY DEF ReOpen
<1>2. openable /\ r.fd = "closed"
  BY <1>1 DEF Open
<1> QED BY <1>1, <1>2 DEF Open

LEMMA WindowInit == Init => WindowInv
<1> SUFFICES ASSUME Init PROVE WindowInv
  OBVIOUS
<1>1. io \in Stream
  <2>1. [good |-> FALSE, fd |-> "closed", buf |-> <<>>, file |-> <<>>] \in Stream
    BY DEF Stream
  <2> QED BY <2>1 DEF Init, Open, Stream
<1> QED BY <1>1, TimerInit DEF Init, WindowInv, IoTypes, Window

LEMMA WindowStep ==
  ASSUME WindowInv, [Next]_vars
  PROVE  WindowInv'
<1>0. TimerInv'
  BY TimerStep DEF WindowInv
<1> USE DEF WindowInv, TimerInv
<1>1. CASE UNCHANGED vars
  BY <1>0, <1>1 DEF vars, IoTypes, Window
<1>2. ASSUME NEW t \in Threads, Make(t) PROVE WindowInv'
  <2>1. IoTypes'
    BY <1>2, ConstantsAssumption DEF Make, Go, TimeTypes, IoTypes, Msgs
  <2>2. Window'
    BY <1>2 DEF Make, Go, TimeTypes, Window
  <2> QED BY <1>0, <2>1, <2>2
<1>3. ASSUME NEW t \in Threads, Test(t) PROVE WindowInv'
  <2>1. IoTypes'
    <3>1. since' \in Seq(Msgs)
      <4>1. since' = <<>> \/ since' = since
        BY <1>3 DEF Test
      <4>2. <<>> \in Seq(Msgs) /\ since \in Seq(Msgs)
        BY DEF IoTypes
      <4> QED BY <4>1, <4>2, Zenon
    <3>2. \A u \in Threads : pc'[u] # "idle" => pc[u] # "idle"
      BY <1>3 DEF Test, Go, TimeTypes
    <3> QED BY <1>3, <3>1, <3>2 DEF Test, IoTypes
  <2>2. Window'
    BY <1>3 DEF Test, Go, TimeTypes, Inside, Window
  <2> QED BY <1>0, <2>1, <2>2
<1>4. ASSUME NEW t \in Threads, ReOpenStep(t) PROVE WindowInv'
  <2>1. pc[t] = "reopen" /\ pc' = [pc EXCEPT ![t] = "store"] /\ io' = ReOpen(io)
        /\ UNCHANGED <<shared, event, opened, since>>
    BY <1>4 DEF ReOpenStep, Go
  <2>2. IoTypes'
    <3>1. Msgs # {} => io' \in Stream
      BY <2>1, StreamTypes DEF IoTypes
    <3>2. Msgs # {}
      BY <2>1 DEF IoTypes
    <3> QED BY <2>1, <3>1, <3>2 DEF TimeTypes, IoTypes
  <2>3. io'.good => io'.file \o io'.buf = <<>>
    BY <2>1, ReOpenEmpty DEF IoTypes
  <2>4. Window'
    BY <2>1, <2>3 DEF TimeTypes, Window
  <2> QED BY <1>0, <2>2, <2>4
<1>5. ASSUME NEW t \in Threads, StoreTime(t) PROVE WindowInv'
  BY <1>0, <1>5 DEF StoreTime, Go, TimeTypes, IoTypes, Window
<1>6. ASSUME NEW t \in Threads, Write(t) PROVE WindowInv'
  <2> DEFINE m == event[t].msg
  <2>1. /\ pc[t] = "write" /\ pc' = [pc EXCEPT ![t] = "idle"]
        /\ io' = Put(io, m) /\ since' = Append(since, m)
        /\ UNCHANGED <<shared, event, opened>>
    BY <1>6 DEF Write, Go
  <2>2. m \in Msgs
    BY <2>1 DEF IoTypes
  <2> HIDE DEF m
  <2>3. IoTypes'
    <3>1. io' \in Stream /\ since' \in Seq(Msgs)
      BY <2>1, <2>2, StreamTypes DEF IoTypes
    <3> QED BY <2>1, <3>1 DEF TimeTypes, IoTypes
  <2>4. ~shared => \A u \in Threads : pc[u] # "reopen"
    BY <2>1 DEF Alone, Inside
  <2>5. Window'
    <3> SUFFICES ASSUME ~shared, opened >= 0, io'.good, io'.fd = "named"
                 PROVE  io'.file \o io'.buf = since'
      BY <2>1, <2>4 DEF TimeTypes, Window
    <3>1. /\ io.good /\ io.fd = "named"
          /\ io'.file \o io'.buf = Append(io.file \o io.buf, m)
      BY <2>1, <2>2, PutKeeps DEF IoTypes
    <3> QED BY <2>1, <2>4, <3>1 DEF Window
  <2> QED BY <1>0, <2>3, <2>5
<1>7. CASE Tick \/ FileSystem
  BY <1>0, <1>7 DEF Tick, FileSystem, IoTypes, Window
<1>8. CASE Remove
  <2>1. io'.fd = "orphan" /\ io' \in Stream
    <3>1. <<>> \in Seq(Msgs)
      OBVIOUS
    <3> QED BY <1>8, <3>1 DEF Remove, IoTypes, Stream
  <2> QED BY <1>0, <1>8, <2>1 DEF Remove, IoTypes, Window
<1> QED BY <1>1, <1>2, <1>3, <1>4, <1>5, <1>6, <1>7, <1>8 DEF Next

\* With one logger a healthy stream holds exactly the messages since the last
\* reopening, in order, whatever the file system did in between.
THEOREM WindowIsKept == Spec => []WindowKept
<1>1. WindowInv => WindowKept
  BY DEF WindowInv, Window, WindowKept, Inside
<1> QED BY <1>1, WindowInit, WindowStep, PTL DEF Spec

\* ReOpen brings the file back whenever the path can be opened, unless << left
\* the stream open with an error.
THEOREM ReopenIsEnough == Spec => ReopenRestores
<1> DEFINE A == \A t \in Threads :
       /\ pc[t] = "reopen" /\ pc'[t] = "store" /\ openable
       /\ io.good \/ io.fd = "closed"
       => io'.good /\ io'.fd = "named"
<1>1. ASSUME WindowInv, [Next]_vars PROVE [A]_vars
  <2> SUFFICES ASSUME Next, NEW t \in Threads, pc[t] = "reopen", pc'[t] = "store",
                      openable, io.good \/ io.fd = "closed"
               PROVE  io'.good /\ io'.fd = "named"
    BY <1>1
  <2>1. ReOpenStep(t)
    BY <1>1 DEF Next, Make, Test, ReOpenStep, StoreTime, Write, Go, Tick, Remove,
                FileSystem, WindowInv, TimerInv, TimeTypes
  <2>2. io.good => Close(io).fd = "closed"
    BY <1>1 DEF Close, Flush, WindowInv, IoTypes, Stream
  <2> QED BY <2>1, <2>2 DEF ReOpenStep, ReOpen, Open
<1> QED BY <1>1, WindowInit, WindowStep, PTL DEF Spec, ReopenRestores
=============================================================================
