---------------------------- MODULE MCScheduler ----------------------------
(* Instances of Scheduler for TLC. *)
EXTENDS Scheduler, TLC

CONSTANTS t1, t2, f1, c1, c2, root, none, any

AllPins == {any, t1, t2}

Habit(disc, late_, ready, pins) ==
  [disciplined |-> disc, late |-> late_, ready |-> ready, pins |-> pins]

TwoWorkers       == {<<2, FALSE, Habit(TRUE, FALSE, TRUE, {any})>>}
TwoPinned        == {<<2, FALSE, Habit(TRUE, FALSE, TRUE, AllPins)>>}
TwoUndisciplined == {<<2, FALSE, Habit(FALSE, FALSE, TRUE, {any})>>}

\* Two threads with pinned tasks, with or without YieldToReady, or with callers
\* during stop(); and a single thread, a new one or the caller's, which stands
\* undisciplined callers.
SafetySetups ==
  TwoPinned \cup {<<2, FALSE, Habit(TRUE, FALSE, FALSE, AllPins)>>}
            \cup {<<2, FALSE, Habit(TRUE, TRUE, TRUE, {any})>>}
            \cup {<<1, uc, Habit(FALSE, FALSE, TRUE, {any})>> : uc \in BOOLEAN}

\* Threads, callbacks and fibers are interchangeable among themselves.
Symmetric == Permutations(Workers) \cup Permutations(Cbs)
=============================================================================
