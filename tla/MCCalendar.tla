----------------------------- MODULE MCCalendar -----------------------------
(***************************************************************************)
(* Two imports of the same invite, the second of which gives it another    *)
(* time, and two schedulers.                                               *)
(***************************************************************************)
EXTENDS Calendar, TLC

CONSTANTS i1, i2, s1, s2

Rescheduled == (i1 :> [start |-> 2, timed |-> FALSE]) @@ (i2 :> [start |-> 3, timed |-> TRUE])
SchedulerSymmetry == Permutations(Schedulers)
NoInvite == << >>
=============================================================================
