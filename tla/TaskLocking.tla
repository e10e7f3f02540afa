----------------------------- MODULE TaskLocking -----------------------------
(***************************************************************************)
(* What the scheduler promises about blocking tasks, without saying how: a *)
(* task gets its lock when no lock in force conflicts with it, it finishes *)
(* without a lock, and it is not heard of again.                           *)
(***************************************************************************)
CONSTANTS
  Task,
  conflict    \* pairs <<t, u>>: a lock of u covers the object of t

VARIABLES
  held,       \* tasks whose lock is in force
  finished    \* tasks with a final status

Init == held = {} /\ finished = {}

Acquire(t) ==
  /\ t \notin held \cup finished
  /\ \A u \in held : <<t, u>> \notin conflict
  /\ held' = held \cup {t}
  /\ UNCHANGED finished

(* Locks are released and tasks finish, one after the other (a runner) or  *)
(* together (the monitor, a recovery).                                     *)
Retire(released, done) ==
  /\ held' = held \ released
  /\ finished' = finished \cup done
  /\ held' \cap finished' = {}

Next ==
  \/ \E t \in Task : Acquire(t)
  \/ \E released \in SUBSET held, done \in SUBSET Task : Retire(released, done)

Spec == Init /\ [][Next]_<<held, finished>>

SymmetricConflict == \A t, u \in Task : <<t, u>> \in conflict => <<u, t>> \in conflict

(* Of two locks in force neither covers the object of the other, provided  *)
(* that conflict is symmetric.                                             *)
Exclusion == \A t, u \in held : t # u => <<t, u>> \notin conflict

(* A finished task holds no lock.                                          *)
HeldUnfinished == held \cap finished = {}

=============================================================================
