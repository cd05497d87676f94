---------------------- MODULE KernelRefinement_proofs ----------------------
(***************************************************************************)
(* KernelDispatch implements KernelAccess: the queue, the semaphores, the  *)
(* timeouts and the nesting never change what a lock with a set of         *)
(* applicants promises.                                                    *)
(***************************************************************************)
EXTENDS KernelDispatch_proofs

(* The current activity runs.                                              *)
CurrentRuns ==
    currentActivity # NoActivity
        => pc[currentActivity] \in {"running", "relinquish"}

(* No activity is current and none runs at the start.                      *)
LEMMA CurrentInit == Init => CurrentRuns
BY DEF Init, CurrentRuns

(* currentActivity is set where an activity starts to run and reset where it *)
(* stops (setupCurrentActivity, unlockKernel).                             *)
LEMMA CurrentStep ==
    TypeOK /\ AccessExclusive /\ CurrentRuns /\ [Next]_vars => CurrentRuns'
<1> SUFFICES ASSUME TypeOK, AccessExclusive, CurrentRuns, [Next]_vars
             PROVE  CurrentRuns'
  OBVIOUS
<1> USE ActivitiesAssumption
    DEF TypeOK, AccessExclusive, CurrentRuns, At, Goto, lockVars
<1>1. CASE UNCHANGED vars
  BY <1>1 DEF vars
<1>2. ASSUME NEW a \in Activities, requestAccess(a) PROVE CurrentRuns'
  BY <1>2 DEF requestAccess, Ask
<1>3. ASSUME NEW a \in Activities, requestApiAccess(a) PROVE CurrentRuns'
  BY <1>3 DEF requestApiAccess, Ask
<1>4. ASSUME NEW a \in Activities, attachThread(a) PROVE CurrentRuns'
  BY <1>4 DEF attachThread, Ask
<1>5. ASSUME NEW a \in Activities, getRootActivity(a) PROVE CurrentRuns'
  BY <1>5 DEF getRootActivity
<1>6. ASSUME NEW a \in Activities, requestImmediate(a) PROVE CurrentRuns'
  BY <1>6 DEF requestImmediate
<1>7. ASSUME NEW a \in Activities, addWaitingActivity(a) PROVE CurrentRuns'
  BY <1>7 DEF addWaitingActivity
<1>8. ASSUME NEW a \in Activities, addWaitingApiActivity(a) PROVE CurrentRuns'
  BY <1>8 DEF addWaitingApiActivity
<1>9. ASSUME NEW a \in Activities, addWaitingAttach(a) PROVE CurrentRuns'
  BY <1>9 DEF addWaitingAttach
<1>10. ASSUME NEW a \in Activities, dispatched(a) PROVE CurrentRuns'
  BY <1>10 DEF dispatched
<1>11. ASSUME NEW a \in Activities, dispatchTimeout(a) PROVE CurrentRuns'
  BY <1>11 DEF dispatchTimeout
<1>12. ASSUME NEW a \in Activities, postSelf(a) PROVE CurrentRuns'
  BY <1>12 DEF postSelf
<1>13. ASSUME NEW a \in Activities, lockKernel(a) PROVE CurrentRuns'
  BY <1>13 DEF lockKernel
<1>14. ASSUME NEW a \in Activities, accessGranted(a) PROVE CurrentRuns'
  BY <1>14 DEF accessGranted
<1>15. ASSUME NEW a \in Activities, apiAccessGranted(a) PROVE CurrentRuns'
  BY <1>15 DEF apiAccessGranted
<1>16. ASSUME NEW a \in Activities, attachGranted(a) PROVE CurrentRuns'
  BY <1>16 DEF attachGranted
<1>17. ASSUME NEW a \in Activities, handleNestedActivity(a) PROVE CurrentRuns'
  BY <1>17 DEF handleNestedActivity
<1>18. ASSUME NEW a \in Activities, setupCurrentActivity(a) PROVE CurrentRuns'
  BY <1>18 DEF setupCurrentActivity
<1>19. ASSUME NEW a \in Activities, releaseAccess(a) PROVE CurrentRuns'
  BY <1>19 DEF releaseAccess, unlockKernel
<1>20. ASSUME NEW a \in Activities, relinquish(a) PROVE CurrentRuns'
  BY <1>20 DEF relinquish
<1>21. ASSUME NEW a \in Activities, yieldAccess(a) PROVE CurrentRuns'
  BY <1>21 DEF yieldAccess, unlockKernel
<1>22. ASSUME NEW a \in Activities, detachThread(a) PROVE CurrentRuns'
  BY <1>22 DEF detachThread
<1>23. ASSUME NEW a \in Activities, terminate(a) PROVE CurrentRuns'
  BY <1>23 DEF terminate, unlockKernel
<1>24. ASSUME NEW a \in Activities, returnRootActivity(a) PROVE CurrentRuns'
  BY <1>24 DEF returnRootActivity
<1>25. ASSUME NEW a \in Activities, nudgeQueue(a) PROVE CurrentRuns'
  BY <1>25 DEF nudgeQueue
<1> QED
  BY <1>1, <1>2, <1>3, <1>4, <1>5, <1>6, <1>7, <1>8, <1>9, <1>10,
     <1>11, <1>12, <1>13, <1>14, <1>15, <1>16, <1>17, <1>18, <1>19,
     <1>20, <1>21, <1>22, <1>23, <1>24, <1>25
  DEF Next, Step, Acquire, Shed, Finish

-----------------------------------------------------------------------------
(* The dispatcher starts as the abstract rules do.                         *)
LEMMA AccessInitial == Init => KA!AccessInit
<1> SUFFICES ASSUME Init PROVE KA!AccessInit
  OBVIOUS
<1>1. \A a \in Activities : pc[a] \in {"native", "detached"}
  BY DEF Init
<1> QED  BY <1>1 DEF Init, KA!AccessInit, Wanting

(* Every action of the dispatcher is Ask, Enter, Leave or StepAside, or    *)
(* changes neither the current activity nor who wants access.              *)
LEMMA AccessStep ==
    ASSUME TypeOK, AccessExclusive, CurrentRuns, [Next]_vars
    PROVE  [KA!AccessNext]_(KA!accessVars)
<1> USE ActivitiesAssumption
    DEF TypeOK, AccessExclusive, CurrentRuns, At, Goto, lockVars, Wanting,
        KA!accessVars
<1>1. CASE UNCHANGED vars
  BY <1>1 DEF vars
<1>2. ASSUME NEW a \in Activities, requestAccess(a)
      PROVE  [KA!AccessNext]_(KA!accessVars)
  <2>1. Wanting' = Wanting \cup {a}
    BY <1>2 DEF requestAccess, Ask
  <2>2. KA!Ask(a)
    BY <1>2, <2>1 DEF requestAccess, Ask, KA!Ask
  <2> QED  BY <2>2 DEF KA!AccessNext
<1>3. ASSUME NEW a \in Activities, requestApiAccess(a)
      PROVE  [KA!AccessNext]_(KA!accessVars)
  <2>1. Wanting' = Wanting \cup {a}
    BY <1>3 DEF requestApiAccess, Ask
  <2>2. KA!Ask(a)
    BY <1>3, <2>1 DEF requestApiAccess, Ask, KA!Ask
  <2> QED  BY <2>2 DEF KA!AccessNext
<1>4. ASSUME NEW a \in Activities, attachThread(a)
      PROVE  [KA!AccessNext]_(KA!accessVars)
  <2>1. Wanting' = Wanting \cup {a}
    BY <1>4 DEF attachThread, Ask
  <2>2. KA!Ask(a)
    BY <1>4, <2>1 DEF attachThread, Ask, KA!Ask
  <2> QED  BY <2>2 DEF KA!AccessNext
<1>5. ASSUME NEW a \in Activities, getRootActivity(a)
      PROVE  [KA!AccessNext]_(KA!accessVars)
  <2>1. Wanting' = Wanting \cup {a}
    BY <1>5 DEF getRootActivity
  <2>2. KA!Ask(a)
    BY <1>5, <2>1 DEF getRootActivity, KA!Ask
  <2> QED  BY <2>2 DEF KA!AccessNext
<1>6. ASSUME NEW a \in Activities, requestImmediate(a)
      PROVE  [KA!AccessNext]_(KA!accessVars)
  BY <1>6 DEF requestImmediate
<1>7. ASSUME NEW a \in Activities, addWaitingActivity(a)
      PROVE  [KA!AccessNext]_(KA!accessVars)
  BY <1>7 DEF addWaitingActivity
<1>8. ASSUME NEW a \in Activities, addWaitingApiActivity(a)
      PROVE  [KA!AccessNext]_(KA!accessVars)
  BY <1>8 DEF addWaitingApiActivity
<1>9. ASSUME NEW a \in Activities, addWaitingAttach(a)
      PROVE  [KA!AccessNext]_(KA!accessVars)
  BY <1>9 DEF addWaitingAttach
<1>10. ASSUME NEW a \in Activities, dispatched(a)
      PROVE  [KA!AccessNext]_(KA!accessVars)
  BY <1>10 DEF dispatched
<1>11. ASSUME NEW a \in Activities, dispatchTimeout(a)
      PROVE  [KA!AccessNext]_(KA!accessVars)
  BY <1>11 DEF dispatchTimeout
<1>12. ASSUME NEW a \in Activities, postSelf(a)
      PROVE  [KA!AccessNext]_(KA!accessVars)
  BY <1>12 DEF postSelf
<1>13. ASSUME NEW a \in Activities, lockKernel(a)
      PROVE  [KA!AccessNext]_(KA!accessVars)
  BY <1>13 DEF lockKernel
<1>14. ASSUME NEW a \in Activities, accessGranted(a)
      PROVE  [KA!AccessNext]_(KA!accessVars)
  <2>1. Wanting' = Wanting \ {a}
    BY <1>14 DEF accessGranted
  <2>2. KA!Enter(a)
    BY <1>14, <2>1 DEF accessGranted, KA!Enter
  <2> QED  BY <2>2 DEF KA!AccessNext
<1>15. ASSUME NEW a \in Activities, apiAccessGranted(a)
      PROVE  [KA!AccessNext]_(KA!accessVars)
  <2>1. Wanting' = Wanting \ {a}
    BY <1>15 DEF apiAccessGranted
  <2>2. KA!Enter(a)
    BY <1>15, <2>1 DEF apiAccessGranted, KA!Enter
  <2> QED  BY <2>2 DEF KA!AccessNext
<1>16. ASSUME NEW a \in Activities, attachGranted(a)
      PROVE  [KA!AccessNext]_(KA!accessVars)
  BY <1>16 DEF attachGranted
<1>17. ASSUME NEW a \in Activities, handleNestedActivity(a)
      PROVE  [KA!AccessNext]_(KA!accessVars)
  BY <1>17 DEF handleNestedActivity
<1>18. ASSUME NEW a \in Activities, setupCurrentActivity(a)
      PROVE  [KA!AccessNext]_(KA!accessVars)
  <2>1. Wanting' = Wanting \ {a}
    BY <1>18 DEF setupCurrentActivity
  <2>2. KA!Enter(a)
    BY <1>18, <2>1 DEF setupCurrentActivity, KA!Enter
  <2> QED  BY <2>2 DEF KA!AccessNext
<1>19. ASSUME NEW a \in Activities, releaseAccess(a)
      PROVE  [KA!AccessNext]_(KA!accessVars)
  <2>1. Wanting' = Wanting
    BY <1>19 DEF releaseAccess, unlockKernel
  <2>2. KA!Leave(a)
    BY <1>19, <2>1 DEF releaseAccess, unlockKernel, KA!Leave
  <2> QED  BY <2>2 DEF KA!AccessNext
<1>20. ASSUME NEW a \in Activities, relinquish(a)
      PROVE  [KA!AccessNext]_(KA!accessVars)
  BY <1>20 DEF relinquish
<1>21. ASSUME NEW a \in Activities, yieldAccess(a)
      PROVE  [KA!AccessNext]_(KA!accessVars)
  <2>1. CASE ~hasWaiters
    BY <1>21, <2>1 DEF yieldAccess, unlockKernel
  <2>2. CASE hasWaiters
    <3>1. Wanting' = Wanting \cup {a}
      BY <1>21, <2>2 DEF yieldAccess, unlockKernel
    <3>2. KA!StepAside(a)
      BY <1>21, <2>2, <3>1 DEF yieldAccess, unlockKernel, KA!StepAside
    <3> QED  BY <3>2 DEF KA!AccessNext
  <2> QED  BY <2>1, <2>2
<1>22. ASSUME NEW a \in Activities, detachThread(a)
      PROVE  [KA!AccessNext]_(KA!accessVars)
  BY <1>22 DEF detachThread
<1>23. ASSUME NEW a \in Activities, terminate(a)
      PROVE  [KA!AccessNext]_(KA!accessVars)
  <2>1. Wanting' = Wanting
    BY <1>23 DEF terminate, unlockKernel
  <2>2. KA!Leave(a)
    BY <1>23, <2>1 DEF terminate, unlockKernel, KA!Leave
  <2> QED  BY <2>2 DEF KA!AccessNext
<1>24. ASSUME NEW a \in Activities, returnRootActivity(a)
      PROVE  [KA!AccessNext]_(KA!accessVars)
  BY <1>24 DEF returnRootActivity
<1>25. ASSUME NEW a \in Activities, nudgeQueue(a)
      PROVE  [KA!AccessNext]_(KA!accessVars)
  BY <1>25 DEF nudgeQueue
<1> QED
  BY <1>1, <1>2, <1>3, <1>4, <1>5, <1>6, <1>7, <1>8, <1>9, <1>10,
     <1>11, <1>12, <1>13, <1>14, <1>15, <1>16, <1>17, <1>18, <1>19,
     <1>20, <1>21, <1>22, <1>23, <1>24, <1>25
  DEF Next, Step, Acquire, Shed, Finish

(* The dispatcher implements exclusive kernel access: every step lets one  *)
(* activity ask, enter or leave by the abstract rules, or changes nothing  *)
(* an activity can see.                                                    *)
THEOREM DispatchImplementsAccess == Spec => ImplementsAccess
<1> DEFINE Inv == TypeOK /\ AccessExclusive /\ CurrentRuns
<1>1. Init => Inv
  BY TypeInit, ExclusiveInit, CurrentInit
<1>2. Inv /\ [Next]_vars => Inv'
  BY TypeStep, ExclusiveStep, CurrentStep
<1>3. Init => KA!AccessInit
  BY AccessInitial
<1>4. Inv /\ [Next]_vars => [KA!AccessNext]_(KA!accessVars)
  BY AccessStep
<1> QED
  BY <1>1, <1>2, <1>3, <1>4, PTL DEF Spec, ImplementsAccess, KA!AccessSpec
=============================================================================
