----------------------------- MODULE FiberPool -----------------------------
(***************************************************************************)
(* What the scheduler promises to the bodies of fibers and callbacks, with *)
(* nothing of how it keeps the promise: no queue, no fiber states, no      *)
(* counters.  A body is begun once, is on at most one thread at a time,    *)
(* may leave its thread and go on later on another one, and never goes on  *)
(* after its end.  Bodies are on threads only while the pool is up.        *)
(***************************************************************************)
CONSTANTS Bodies, Threads

VARIABLES
  up,      \* between start() and the return of stop()
  phase,   \* of each body: "new", "live" or "ended"
  on       \* the threads that execute each body

poolVars == <<up, phase, on>>

Init == /\ up = FALSE
        /\ phase = [b \in Bodies |-> "new"]
        /\ on = [b \in Bodies |-> {}]

Open == ~up /\ up' = TRUE /\ UNCHANGED <<phase, on>>

\* stop() returns: every body has left its thread.
Close == /\ up /\ \A b \in Bodies : on[b] = {}
         /\ up' = FALSE /\ UNCHANGED <<phase, on>>

\* Thread t, which executes nothing, takes up body b, which nobody executes.
TakeUp(b, t) == /\ up /\ on[b] = {} /\ \A c \in Bodies : t \notin on[c]
                /\ on' = [on EXCEPT ![b] = {t}]
                /\ UNCHANGED up

Begin(b, t)  == phase[b] = "new" /\ TakeUp(b, t)
                /\ phase' = [phase EXCEPT ![b] = "live"]
Resume(b, t) == phase[b] = "live" /\ TakeUp(b, t) /\ UNCHANGED phase

Leave(b) == /\ on[b] # {} /\ on' = [on EXCEPT ![b] = {}]
            /\ UNCHANGED <<up, phase>>
End(b)   == /\ on[b] # {} /\ on' = [on EXCEPT ![b] = {}]
            /\ phase' = [phase EXCEPT ![b] = "ended"]
            /\ UNCHANGED up

\* The threads change for exactly one body, or the pool opens or closes.
Next == \/ up' # up /\ (Open \/ Close)
        \/ \E b \in Bodies :
             /\ on'[b] # on[b]
             /\ \/ Leave(b) \/ End(b)
                \/ \E t \in Threads : Begin(b, t) \/ Resume(b, t)

Spec == Init /\ [][Next]_poolVars
=============================================================================
