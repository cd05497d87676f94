----------------------- MODULE KernelDispatch_proofs -----------------------
(***************************************************************************)
(* Proofs about KernelDispatch, for any number of activities and any way   *)
(* of nesting them on threads.                                             *)
(***************************************************************************)
EXTENDS KernelDispatch, FiniteSetTheorems, SequenceTheorems, TLAPS

-----------------------------------------------------------------------------
(* The queue operations keep a queue of activities.                        *)

(* dispatchNext() leaves a suffix of the queue and posts one of its        *)
(* members (ActivityManager::dispatchNext).                                *)
LEMMA DispatchNextType ==
    ASSUME NEW q \in Seq(Activities), permitted \subseteq Activities,
           dispatchNext(q)
    PROVE  queue' \in Seq(Activities) /\ permitted' \subseteq Activities
<1>1. CASE (\A i \in 1..Len(q) : q[i] \in permitted) /\ queue' = <<>>
                /\ UNCHANGED permitted
  BY <1>1
<1>2. ASSUME NEW i \in 1..Len(q),
             queue' = SubSeq(q, i + 1, Len(q)),
             permitted' = permitted \cup {q[i]}
      PROVE  queue' \in Seq(Activities) /\ permitted' \subseteq Activities
  <2>1. q[i] \in Activities
    BY ElementOfSeq
  <2>2. SubSeq(q, i + 1, Len(q)) \in Seq(Activities)
    BY SubSeqProperties, LenProperties
  <2> QED  BY <1>2, <2>1, <2>2
<1> QED  BY <1>1, <1>2 DEF dispatchNext

(* remove() keeps a queue of activities (DispatchSection::remove).         *)
LEMMA RemoveType ==
    ASSUME queue \in Seq(Activities), NEW a, remove(a)
    PROVE  queue' \in Seq(Activities)
<1>1. ASSUME NEW i \in 1..Len(queue),
             queue' = SubSeq(queue, 1, i - 1) \o SubSeq(queue, i + 1, Len(queue))
      PROVE  queue' \in Seq(Activities)
  <2>1. /\ SubSeq(queue, 1, i - 1) \in Seq(Activities)
        /\ SubSeq(queue, i + 1, Len(queue)) \in Seq(Activities)
    BY SubSeqProperties, LenProperties
  <2> QED  BY <1>1, <2>1, ConcatProperties
<1> QED  BY <1>1 DEF remove

(* Counting up and down stays in size_t.                                   *)
LEMMA SizeType ==
    ASSUME NEW n \in 0..SizeMax
    PROVE  Inc(n) \in 0..SizeMax /\ Dec(n) \in 0..SizeMax
BY SizeAssumption DEF Inc, Dec

-----------------------------------------------------------------------------
(* Every variable keeps its type.                                          *)
LEMMA TypeInit == Init => TypeOK
BY HostAssumption, SizeAssumption
   DEF Init, TypeOK, Entries, Places, Activities, Nested

(* Every action of the dispatcher keeps the types.                         *)
LEMMA TypeStep == TypeOK /\ [Next]_vars => TypeOK'
<1> SUFFICES ASSUME TypeOK, [Next]_vars PROVE TypeOK'
  OBVIOUS
<1> USE DEF TypeOK, Entries, Places, At, Goto, lockVars, counters,
            dispatchVars, localVars
<1>1. CASE UNCHANGED vars
  BY <1>1 DEF vars
<1>2. ASSUME NEW a \in Activities, requestAccess(a) PROVE TypeOK'
  BY <1>2 DEF requestAccess, Ask
<1>3. ASSUME NEW a \in Activities, requestApiAccess(a) PROVE TypeOK'
  BY <1>3 DEF requestApiAccess, Ask
<1>4. ASSUME NEW a \in Activities, attachThread(a) PROVE TypeOK'
  BY <1>4 DEF attachThread, Ask
<1>5. ASSUME NEW a \in Activities, getRootActivity(a) PROVE TypeOK'
  BY <1>5 DEF getRootActivity
<1>6. ASSUME NEW a \in Activities, requestImmediate(a) PROVE TypeOK'
  BY <1>6 DEF requestImmediate
<1>7. ASSUME NEW a \in Activities, addWaitingActivity(a) PROVE TypeOK'
  <2>1. Append(queue, a) \in Seq(Activities)
    BY AppendProperties
  <2> QED  BY <1>7, <2>1, SizeType DEF addWaitingActivity
<1>8. ASSUME NEW a \in Activities, addWaitingApiActivity(a) PROVE TypeOK'
  BY <1>8, SizeType DEF addWaitingApiActivity
<1>9. ASSUME NEW a \in Activities, addWaitingAttach(a) PROVE TypeOK'
  BY <1>9, SizeType DEF addWaitingAttach
<1>10. ASSUME NEW a \in Activities, dispatched(a) PROVE TypeOK'
  BY <1>10 DEF dispatched
<1>11. ASSUME NEW a \in Activities, dispatchTimeout(a) PROVE TypeOK'
  BY <1>11 DEF dispatchTimeout
<1>12. ASSUME NEW a \in Activities, postSelf(a) PROVE TypeOK'
  BY <1>12 DEF postSelf
<1>13. ASSUME NEW a \in Activities, lockKernel(a) PROVE TypeOK'
  BY <1>13 DEF lockKernel
<1>14. ASSUME NEW a \in Activities, accessGranted(a) PROVE TypeOK'
  BY <1>14, SizeType, RemoveType DEF accessGranted
<1>15. ASSUME NEW a \in Activities, apiAccessGranted(a) PROVE TypeOK'
  BY <1>15, SizeType, DispatchNextType DEF apiAccessGranted
<1>16. ASSUME NEW a \in Activities, attachGranted(a) PROVE TypeOK'
  BY <1>16, SizeType DEF attachGranted
<1>17. ASSUME NEW a \in Activities, handleNestedActivity(a) PROVE TypeOK'
  <2>1. /\ queue' \in Seq(Activities)
        /\ permitted' \subseteq Activities
        /\ waitingAccess' \in 0..SizeMax
        /\ waitingApiAccess' \in 0..SizeMax
    <3>1. CASE suspendDispatch(Host[a])
      <4>1. CASE queue # <<>> /\ dispatchNext(Tail(queue))
        <5>1. Tail(queue) \in Seq(Activities)
          BY <4>1, HeadTailProperties
        <5> QED  BY <3>1, <4>1, <5>1, SizeType, DispatchNextType DEF suspendDispatch
      <4>2. CASE remove(Host[a]) /\ UNCHANGED permitted
        BY <3>1, <4>2, SizeType, RemoveType DEF suspendDispatch
      <4> QED  BY <3>1, <4>1, <4>2 DEF suspendDispatch
    <3>2. CASE UNCHANGED <<dispatchVars, waitingAccess, waitingApiAccess>>
      BY <3>2
    <3> QED  BY <1>17, <3>1, <3>2 DEF handleNestedActivity
  <2>2. nestedActivity' \in [Nested -> Rexx \cup {NoActivity}]
    BY <1>17, HostAssumption DEF handleNestedActivity
  <2> QED  BY <1>17, <2>1, <2>2 DEF handleNestedActivity
<1>18. ASSUME NEW a \in Activities, setupCurrentActivity(a) PROVE TypeOK'
  BY <1>18 DEF setupCurrentActivity
<1>19. ASSUME NEW a \in Activities, releaseAccess(a) PROVE TypeOK'
  BY <1>19, DispatchNextType DEF releaseAccess, unlockKernel
<1>20. ASSUME NEW a \in Activities, relinquish(a) PROVE TypeOK'
  BY <1>20 DEF relinquish
<1>21. ASSUME NEW a \in Activities, yieldAccess(a) PROVE TypeOK'
  <2>1. Append(queue, a) \in Seq(Activities)
    BY AppendProperties
  <2> QED  BY <1>21, <2>1, SizeType DEF yieldAccess, unlockKernel
<1>22. ASSUME NEW a \in Activities, detachThread(a) PROVE TypeOK'
  BY <1>22, SizeType DEF detachThread
<1>23. ASSUME NEW a \in Activities, terminate(a) PROVE TypeOK'
  BY <1>23 DEF terminate, unlockKernel
<1>24. ASSUME NEW a \in Activities, returnRootActivity(a) PROVE TypeOK'
  BY <1>24 DEF returnRootActivity
<1>25. ASSUME NEW a \in Activities, nudgeQueue(a) PROVE TypeOK'
  BY <1>25, DispatchNextType DEF nudgeQueue
<1> QED
  BY <1>1, <1>2, <1>3, <1>4, <1>5, <1>6, <1>7, <1>8, <1>9, <1>10, <1>11,
     <1>12, <1>13, <1>14, <1>15, <1>16, <1>17, <1>18, <1>19, <1>20, <1>21,
     <1>22, <1>23, <1>24, <1>25
  DEF Next, Step, Acquire, Shed, Finish

(* Every variable keeps its type in every behaviour of the dispatcher.     *)
THEOREM TypeCorrect == Spec => []TypeOK
<1>1. Init => TypeOK                    BY TypeInit
<1>2. TypeOK /\ [Next]_vars => TypeOK'  BY TypeStep
<1> QED  BY <1>1, <1>2, PTL DEF Spec

-----------------------------------------------------------------------------
(* Kernel access is exclusive.  AccessExclusive is inductive with the      *)
(* types: only lockKernel() and requestImmediate() take a free lock, and   *)
(* only the current activity gives it up.                                  *)
LEMMA ExclusiveInit == Init => AccessExclusive
BY ActivitiesAssumption DEF Init, AccessExclusive

(* The kernel lock keeps others out of each part of the code that needs it. *)
LEMMA ExclusiveStep ==
    TypeOK /\ AccessExclusive /\ [Next]_vars => AccessExclusive'
<1> SUFFICES ASSUME TypeOK, AccessExclusive, [Next]_vars PROVE AccessExclusive'
  OBVIOUS
<1> USE ActivitiesAssumption
    DEF TypeOK, AccessExclusive, At, Goto, lockVars
<1>1. CASE UNCHANGED vars
  BY <1>1 DEF vars
<1>2. ASSUME NEW a \in Activities, requestAccess(a) PROVE AccessExclusive'
  BY <1>2 DEF requestAccess, Ask
<1>3. ASSUME NEW a \in Activities, requestApiAccess(a) PROVE AccessExclusive'
  BY <1>3 DEF requestApiAccess, Ask
<1>4. ASSUME NEW a \in Activities, attachThread(a) PROVE AccessExclusive'
  BY <1>4 DEF attachThread, Ask
<1>5. ASSUME NEW a \in Activities, getRootActivity(a) PROVE AccessExclusive'
  BY <1>5 DEF getRootActivity
<1>6. ASSUME NEW a \in Activities, requestImmediate(a) PROVE AccessExclusive'
  BY <1>6 DEF requestImmediate
<1>7. ASSUME NEW a \in Activities, addWaitingActivity(a) PROVE AccessExclusive'
  BY <1>7 DEF addWaitingActivity
<1>8. ASSUME NEW a \in Activities, addWaitingApiActivity(a) PROVE AccessExclusive'
  BY <1>8 DEF addWaitingApiActivity
<1>9. ASSUME NEW a \in Activities, addWaitingAttach(a) PROVE AccessExclusive'
  BY <1>9 DEF addWaitingAttach
<1>10. ASSUME NEW a \in Activities, dispatched(a) PROVE AccessExclusive'
  BY <1>10 DEF dispatched
<1>11. ASSUME NEW a \in Activities, dispatchTimeout(a) PROVE AccessExclusive'
  BY <1>11 DEF dispatchTimeout
<1>12. ASSUME NEW a \in Activities, postSelf(a) PROVE AccessExclusive'
  BY <1>12 DEF postSelf
<1>13. ASSUME NEW a \in Activities, lockKernel(a) PROVE AccessExclusive'
  BY <1>13 DEF lockKernel
<1>14. ASSUME NEW a \in Activities, accessGranted(a) PROVE AccessExclusive'
  BY <1>14 DEF accessGranted
<1>15. ASSUME NEW a \in Activities, apiAccessGranted(a) PROVE AccessExclusive'
  BY <1>15 DEF apiAccessGranted
<1>16. ASSUME NEW a \in Activities, attachGranted(a) PROVE AccessExclusive'
  BY <1>16 DEF attachGranted
<1>17. ASSUME NEW a \in Activities, handleNestedActivity(a) PROVE AccessExclusive'
  BY <1>17 DEF handleNestedActivity
<1>18. ASSUME NEW a \in Activities, setupCurrentActivity(a) PROVE AccessExclusive'
  BY <1>18 DEF setupCurrentActivity
<1>19. ASSUME NEW a \in Activities, releaseAccess(a) PROVE AccessExclusive'
  BY <1>19 DEF releaseAccess, unlockKernel
<1>20. ASSUME NEW a \in Activities, relinquish(a) PROVE AccessExclusive'
  BY <1>20 DEF relinquish
<1>21. ASSUME NEW a \in Activities, yieldAccess(a) PROVE AccessExclusive'
  BY <1>21 DEF yieldAccess, unlockKernel
<1>22. ASSUME NEW a \in Activities, detachThread(a) PROVE AccessExclusive'
  BY <1>22 DEF detachThread
<1>23. ASSUME NEW a \in Activities, terminate(a) PROVE AccessExclusive'
  BY <1>23 DEF terminate, unlockKernel
<1>24. ASSUME NEW a \in Activities, returnRootActivity(a) PROVE AccessExclusive'
  BY <1>24 DEF returnRootActivity
<1>25. ASSUME NEW a \in Activities, nudgeQueue(a) PROVE AccessExclusive'
  BY <1>25 DEF nudgeQueue
<1> QED
  BY <1>1, <1>2, <1>3, <1>4, <1>5, <1>6, <1>7, <1>8, <1>9, <1>10,
     <1>11, <1>12, <1>13, <1>14, <1>15, <1>16, <1>17, <1>18, <1>19,
     <1>20, <1>21, <1>22, <1>23, <1>24, <1>25
  DEF Next, Step, Acquire, Shed, Finish

(* Whoever runs Rexx code, or takes a step that needs the kernel, owns the *)
(* kernel lock: two activities never run at the same time.                 *)
THEOREM AccessIsExclusive == Spec => []AccessExclusive
<1>1. Init => TypeOK /\ AccessExclusive
  BY TypeInit, ExclusiveInit
<1>2. TypeOK /\ AccessExclusive /\ [Next]_vars => TypeOK' /\ AccessExclusive'
  BY TypeStep, ExclusiveStep
<1> QED  BY <1>1, <1>2, PTL DEF Spec
=============================================================================
