-------------------------- MODULE TaskLockingProofs --------------------------
(***************************************************************************)
(* What every implementation of TaskLocking can rely on.                   *)
(***************************************************************************)
EXTENDS TaskLocking, TLAPS

LockingInv ==
  /\ held \subseteq Task
  /\ Exclusion
  /\ HeldUnfinished

(* A task acquires a lock only when no conflicting one is held; retiring   *)
(* tasks keeps locks and finished tasks apart.                             *)
LEMMA LockingStep ==
  ASSUME SymmetricConflict, LockingInv, [Next]_<<held, finished>>
  PROVE  LockingInv'
<1>1. ASSUME NEW t \in Task, Acquire(t)
      PROVE  LockingInv'
  <2>1. \A u \in held : <<t, u>> \notin conflict /\ <<u, t>> \notin conflict
    BY <1>1 DEF Acquire, LockingInv, SymmetricConflict
  <2> QED
    BY <1>1, <2>1 DEF Acquire, LockingInv, Exclusion, HeldUnfinished
<1>2. ASSUME NEW released \in SUBSET held, NEW done \in SUBSET Task, Retire(released, done)
      PROVE  LockingInv'
  BY <1>2 DEF Retire, LockingInv, Exclusion, HeldUnfinished
<1>3. CASE UNCHANGED <<held, finished>>
  BY <1>3 DEF LockingInv, Exclusion, HeldUnfinished
<1> QED
  BY <1>1, <1>2, <1>3 DEF Next

(* The abstract promise is enough: with symmetric conflicts locks exclude  *)
(* each other and finished tasks hold none.  The scheduler's locks, which  *)
(* implement it, therefore do too.                                         *)
THEOREM LockingIsExclusive ==
  ASSUME SymmetricConflict
  PROVE  Spec => [](Exclusion /\ HeldUnfinished)
<1>1. Init => LockingInv
  BY DEF Init, LockingInv, Exclusion, HeldUnfinished
<1>2. LockingInv => Exclusion /\ HeldUnfinished
  BY DEF LockingInv
<1> QED
  BY <1>1, <1>2, LockingStep, PTL DEF Spec

=============================================================================
