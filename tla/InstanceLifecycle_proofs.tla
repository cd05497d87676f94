---------------------- MODULE InstanceLifecycle_proofs ----------------------
(***************************************************************************)
(* Safety of the life of an interpreter instance, for any number of        *)
(* threads and workers and any bounds: types, one shutdown, balanced       *)
(* kernel access, work that is kept, activities the collector finds, and   *)
(* that terminate() takes the instance apart only when the threads that    *)
(* were at work have left.  All follow from one inductive invariant, and   *)
(* so does the refinement of InstanceShutdown, at the end.                 *)
(***************************************************************************)
EXTENDS InstanceLifecycle, FiniteSetTheorems, TLAPS

(* The parts of TypeOK.                                                    *)
PlacesOK ==
    /\ pc \in [Threads -> CallPlaces \cup NativePlaces \cup WorkerPlaces]
    /\ \A a \in Natives : pc[a] \notin WorkerPlaces
    /\ \A w \in Workers : pc[w] \notin NativePlaces
ActivitiesOK ==
    /\ activity \in [Threads -> [nested : Nat, attach : 0..(MaxAttach + 1),
                                exit : BOOLEAN]]
    /\ \A a \in Threads : activity[a].nested <= MaxNest[a]
KernelOK ==
    /\ kernelLock \in [owner : Threads \cup {None}, count : 0..2]
    /\ currentActivity \in Threads \cup {None}
FreeLock == kernelLock.owner = None <=> kernelLock.count = 0
InstanceOK ==
    /\ instance \in [listed : BOOLEAN, terminating : BOOLEAN, root : BOOLEAN]
    /\ terminationSem \in {"reset", "posted", "closed"}
    /\ created \in BOOLEAN /\ spawns \in 0..MaxSpawns
ListsOK ==
    /\ allActivities \subseteq Threads /\ known \subseteq Threads
    /\ pool \subseteq Workers /\ Cardinality(pool) <= MaxPool + 1
    /\ held \subseteq Threads

Past == Through \cup Dismantling

(* How deep a thread is in calls, by the place it is at.                   *)
Idle == {"out", "attached", "crashed", "checked", "gate", "waiting", "reenter",
         "reattached", "exiting", "exitingAway", "closing", "closed", "none",
         "ending", "idle", "ended", "refused"}
Once == {"start", "claim", "uninit", "uninitAway"}
DepthInv ==
    \A a \in Threads :
        LET n == activity[a].nested IN
        /\ pc[a] \in Idle => n = 0
        /\ pc[a] \in Once => n = 1
        /\ pc[a] \in {"in", "away"} => n >= 1
        /\ pc[a] \in {"entered", "left"} => n < MaxNest[a]
        /\ pc[a] \in {"entered", "left"} /\ a \in Workers => n >= 1
        /\ pc[a] = "leftAway" => a \in Natives /\ n = 0

(* terminate() attaches the thread it runs on once more.                   *)
AttachInv ==
    \A a \in Threads :
        \/ activity[a].attach <= MaxAttach
        \/ pc[a] \in {"claim"} \cup Dismantling
        \/ ~instance.root

TerminatingInv ==
    /\ \A a \in Natives : pc[a] \in Past => instance.terminating
    /\ \A a \in Natives :
          created => pc[a] \notin {"waiting", "reenter", "reattached"}
    /\ created => instance.terminating
    /\ ~instance.root => instance.terminating
    /\ \A a \in Natives : pc[a] \in Past \ {"closed"} => instance.root
    /\ \A a \in Natives : pc[a] = "closed" => ~instance.root
    /\ terminationSem # "reset" => instance.terminating
    /\ \A a \in Threads : activity[a].exit => instance.terminating

ListInv ==
    /\ terminationSem # "closed" => Root \in allActivities
    /\ \A a \in Natives :
          pc[a] \in Past \ {"closed"} => terminationSem # "closed"
    /\ \A a \in Natives : pc[a] = "closed" => terminationSem = "closed"
    /\ \A w \in Workers :
          pc[w] \in {"none", "idle", "ended", "refused"}
             => w \notin allActivities
    /\ \A w \in Workers : pc[w] \in {"none", "start"} => ~activity[w].exit
    /\ \A w \in Workers : pc[w] \in {"none", "start"} => activity[w].attach = 0

(* Those terminate() waits for are in the list, or were seen on the point  *)
(* of leaving it; in the end only such ones are left.                      *)
AboutToLeave == {w \in Workers : pc[w] = "ending"}
HeldInv ==
    /\ held \subseteq (allActivities \ {Root}) \cup AboutToLeave
    /\ terminationSem # "reset" => held \subseteq AboutToLeave
    /\ \A a \in Natives :
          pc[a] \in Past \ {"waiting"} => held \subseteq AboutToLeave

IInv ==
    /\ TypeOK /\ FreeLock /\ DepthInv /\ AttachInv /\ TerminatingInv
    /\ ListInv /\ HeldInv /\ OneShutdown /\ AccessBalanced /\ WorkKept
    /\ Anchored /\ ThreadsFinishFirst

-----------------------------------------------------------------------------
(* Where a thread may be.                                                  *)
LEMMA PlaceStep ==
  PlacesOK /\ ActivitiesOK /\ DepthInv /\ [Next]_vars => PlacesOK'
<1> SUFFICES ASSUME PlacesOK /\ ActivitiesOK /\ DepthInv, [Next]_vars PROVE
    PlacesOK'
  OBVIOUS
<1> USE InstanceAssumption DEF PlacesOK, DepthInv, Idle, Once, NativePlaces,
    WorkerPlaces, CallPlaces, Dismantling, Threads, access, lists, shutdown
<1>1. ASSUME NEW a \in Threads, nestAttach(a) PROVE PlacesOK'
  BY <1>1 DEF nestAttach, MayCall
<1>2. ASSUME NEW a \in Threads, attachThread(a) PROVE PlacesOK'
  <2>1. CASE Go(a, "out", "attached")
    BY <2>1 DEF Go
  <2>2. CASE Go(a, "reenter", "reattached")
    BY <2>2 DEF Go
  <2> QED  BY <1>2, <2>1, <2>2 DEF attachThread
<1>3. ASSUME NEW a \in Threads, setupAttachedActivity(a) PROVE PlacesOK'
  BY <1>3 DEF setupAttachedActivity, Go, releaseAccess, unlockKernel
<1>4. ASSUME NEW a \in Threads, returnAttach(a) PROVE PlacesOK'
  BY <1>4 DEF returnAttach, MayCall, isNestedAttach
<1>5. ASSUME NEW a \in Threads, detachThread(a) PROVE PlacesOK'
  BY <1>5 DEF detachThread, MayCall, isNestedAttach, Leave, LastOne,
      NewActivity
<1>6. ASSUME NEW a \in Threads, enterCurrentThread(a) PROVE PlacesOK'
  BY <1>6 DEF enterCurrentThread, MayCall, request
<1>7. ASSUME NEW a \in Threads, NEW w \in Workers, spawnActivity(a, w) PROVE
    PlacesOK'
  BY <1>7 DEF spawnActivity, reset
<1>8. ASSUME NEW a \in Threads, isInstanceActive(a) PROVE PlacesOK'
  BY <1>8 DEF isInstanceActive, MayCall, isActive, Go
<1>9. ASSUME NEW a \in Threads, activate(a) PROVE PlacesOK'
  BY <1>9 DEF activate, Go
<1>10. ASSUME NEW a \in Threads, deactivate(a) PROVE PlacesOK'
  BY <1>10 DEF deactivate, Go
<1>11. ASSUME NEW a \in Threads, exitCurrentThread(a) PROVE PlacesOK'
  <2>1. CASE isActive(a)
    BY <1>11, <2>1 DEF exitCurrentThread, Go
  <2>2. CASE ~isActive(a)
    <3>1. activity[a].nested \in Nat
      BY DEF ActivitiesOK
    <3> QED  BY <1>11, <2>2, <3>1 DEF exitCurrentThread, Go, isActive
  <2> QED  BY <2>1, <2>2
<1>12. ASSUME NEW a \in Threads, rootInactive(a) PROVE PlacesOK'
  BY <1>12 DEF rootInactive, Go, isActive
<1>13. ASSUME NEW a \in Threads, removeInactiveActivities(a) PROVE PlacesOK'
  <2>1. \E p \in {"out", "reenter", "waiting"} : Go(a, "gate", p)
    BY <1>13 DEF removeInactiveActivities
  <2> QED  BY <2>1 DEF Go
<1>14. ASSUME NEW a \in Threads, terminationWait(a) PROVE PlacesOK'
  BY <1>14 DEF terminationWait, Go
<1>15. ASSUME NEW a \in Threads, reenterNested(a) PROVE PlacesOK'
  BY <1>15 DEF reenterNested, Go
<1>16. ASSUME NEW a \in Threads, reenterNew(a) PROVE PlacesOK'
  BY <1>16 DEF reenterNew, Go
<1>17. ASSUME NEW a \in Threads, requestApiAccess(a) PROVE PlacesOK'
  BY <1>17 DEF requestApiAccess, Go, request
<1>18. ASSUME NEW a \in Threads, terminateInterpreterInstance(a) PROVE
    PlacesOK'
  BY <1>18 DEF terminateInterpreterInstance, Go
<1>19. ASSUME NEW a \in Threads, exitAfterUninit(a) PROVE PlacesOK'
  BY <1>19 DEF exitAfterUninit, Go, releaseAccess, unlockKernel
<1>20. ASSUME NEW a \in Threads, returnRootActivity(a) PROVE PlacesOK'
  BY <1>20 DEF returnRootActivity, Go
<1>21. ASSUME NEW a \in Threads, terminated(a) PROVE PlacesOK'
  BY <1>21 DEF terminated, Go, ReleaseAgain, unlockKernel
<1>22. ASSUME NEW a \in Threads, pause(a) PROVE PlacesOK'
  BY <1>22 DEF pause, isActive, Paused, releaseAccess, unlockKernel
<1>23. ASSUME NEW a \in Threads, resume(a) PROVE PlacesOK'
  BY <1>23 DEF resume, Go, Paused, request
<1>24. ASSUME NEW w \in Workers, runThread(w) PROVE PlacesOK'
  <2>1. \E p \in {"ended", "in"} : pc' = [pc EXCEPT ![w] = p]
    BY <1>24 DEF runThread, Go
  <2> QED  BY <2>1
<1>25. ASSUME NEW w \in Workers, workDone(w) PROVE PlacesOK'
  BY <1>25 DEF workDone, Go
<1>26. ASSUME NEW w \in Workers, poolActivity(w) PROVE PlacesOK'
  <2>1. \E p \in {"ended", "refused", "idle"} : pc' = [pc EXCEPT ![w] = p]
    BY <1>26 DEF poolActivity, pooled, notPooled
  <2> QED  BY <2>1
<1>27. ASSUME NEW w \in Workers, activityEnded(w) PROVE PlacesOK'
  <2>1. pc' = [pc EXCEPT ![w] = "none"]
    BY <1>27 DEF activityEnded, Go
  <2> QED  BY <2>1
<1>28. CASE UNCHANGED vars
  BY <1>28 DEF vars
<1> QED
  BY <1>1, <1>2, <1>3, <1>4, <1>5, <1>6, <1>7, <1>8, <1>9, <1>10, <1>11,
      <1>12, <1>13, <1>14, <1>15, <1>16, <1>17, <1>18, <1>19, <1>20, <1>21,
      <1>22, <1>23, <1>24, <1>25, <1>26, <1>27, <1>28
  DEF Next, Attach, Begin, Call, Terminate, Worker

(* Activities keep their types: the extra attach of terminate() is the     *)
(* only one past MaxAttach.                                                *)
LEMMA ActivityStep ==
  ActivitiesOK /\ PlacesOK /\ DepthInv /\ AttachInv /\ TerminatingInv /\
  WorkKept /\ [Next]_vars => ActivitiesOK'
<1> SUFFICES ASSUME ActivitiesOK /\ PlacesOK /\ DepthInv /\ AttachInv /\
    TerminatingInv /\ WorkKept, [Next]_vars PROVE ActivitiesOK'
  OBVIOUS
<1> USE InstanceAssumption DEF ActivitiesOK, DepthInv, PlacesOK, Idle, Once,
    Threads, access, lists, shutdown
<1>1. ASSUME NEW a \in Threads, nestAttach(a) PROVE ActivitiesOK'
  BY <1>1 DEF nestAttach, MayCall
<1>2. ASSUME NEW a \in Threads, attachThread(a) PROVE ActivitiesOK'
  BY <1>2 DEF attachThread, MayCall, Go, request, NewActivity
<1>3. ASSUME NEW a \in Threads, setupAttachedActivity(a) PROVE ActivitiesOK'
  BY <1>3 DEF setupAttachedActivity, Go, releaseAccess, unlockKernel
<1>4. ASSUME NEW a \in Threads, returnAttach(a) PROVE ActivitiesOK'
  BY <1>4 DEF returnAttach, MayCall, isNestedAttach
<1>5. ASSUME NEW a \in Threads, detachThread(a) PROVE ActivitiesOK'
  BY <1>5 DEF detachThread, MayCall, isNestedAttach, Leave, LastOne,
      NewActivity
<1>6. ASSUME NEW a \in Threads, enterCurrentThread(a) PROVE ActivitiesOK'
  BY <1>6 DEF enterCurrentThread, MayCall, request
<1>7. ASSUME NEW a \in Threads, NEW w \in Workers, spawnActivity(a, w) PROVE
    ActivitiesOK'
  <2>1. activity[w].nested = 0
    BY <1>7 DEF spawnActivity, WorkKept, NewActivity
  <2> QED  BY <1>7, <2>1 DEF spawnActivity, reset
<1>8. ASSUME NEW a \in Threads, isInstanceActive(a) PROVE ActivitiesOK'
  BY <1>8 DEF isInstanceActive, MayCall, isActive, Go
<1>9. ASSUME NEW a \in Threads, activate(a) PROVE ActivitiesOK'
  BY <1>9 DEF activate, Go
<1>10. ASSUME NEW a \in Threads, deactivate(a) PROVE ActivitiesOK'
  BY <1>10 DEF deactivate, Go
<1>11. ASSUME NEW a \in Threads, exitCurrentThread(a) PROVE ActivitiesOK'
  BY <1>11 DEF exitCurrentThread, Go, isActive, releaseAccess, unlockKernel
<1>12. ASSUME NEW a \in Threads, rootInactive(a) PROVE ActivitiesOK'
  BY <1>12 DEF rootInactive, Go, isActive
<1>13. ASSUME NEW a \in Threads, removeInactiveActivities(a) PROVE
    ActivitiesOK'
  <2> DEFINE New(b) ==
        [nested |-> activity[b].nested, attach |-> activity[b].attach,
         exit |-> IF b \in Inactive THEN TRUE ELSE activity[b].exit]
  <2>1. UNCHANGED activity \/ activity' = [b \in Threads |-> New(b)]
    BY <1>13 DEF removeInactiveActivities
  <2>2. \A b \in Threads :
           /\ New(b) \in [nested : Nat, attach : 0..(MaxAttach + 1),
                          exit : BOOLEAN]
           /\ New(b).nested <= MaxNest[b]
    OBVIOUS
  <2> HIDE DEF New
  <2>3. CASE UNCHANGED activity
    BY <2>3
  <2>4. CASE activity' = [b \in Threads |-> New(b)]
    BY <2>2, <2>4
  <2> QED  BY <2>1, <2>3, <2>4
<1>14. ASSUME NEW a \in Threads, terminationWait(a) PROVE ActivitiesOK'
  BY <1>14 DEF terminationWait, Go
<1>15. ASSUME NEW a \in Threads, reenterNested(a) PROVE ActivitiesOK'
  <2>1. pc[a] = "reenter" /\ a \in Natives
    BY <1>15 DEF reenterNested, Go, WorkerPlaces, CallPlaces, NativePlaces,
        Dismantling
  <2>2. activity[a].nested = 0
    BY <2>1
  <2>3. activity[a].attach <= MaxAttach
    BY <2>1 DEF AttachInv, TerminatingInv, Past, Through, Dismantling
  <2> QED  BY <1>15, <2>2, <2>3 DEF reenterNested
<1>16. ASSUME NEW a \in Threads, reenterNew(a) PROVE ActivitiesOK'
  <2>1. activity[a].nested = 0
    BY <1>16 DEF reenterNew, Go
  <2> QED  BY <1>16, <2>1 DEF reenterNew
<1>17. ASSUME NEW a \in Threads, requestApiAccess(a) PROVE ActivitiesOK'
  BY <1>17 DEF requestApiAccess, Go, request
<1>18. ASSUME NEW a \in Threads, terminateInterpreterInstance(a) PROVE
    ActivitiesOK'
  BY <1>18 DEF terminateInterpreterInstance, Go
<1>19. ASSUME NEW a \in Threads, exitAfterUninit(a) PROVE ActivitiesOK'
  BY <1>19 DEF exitAfterUninit, Go, releaseAccess, unlockKernel
<1>20. ASSUME NEW a \in Threads, returnRootActivity(a) PROVE ActivitiesOK'
  BY <1>20 DEF returnRootActivity, Go
<1>21. ASSUME NEW a \in Threads, terminated(a) PROVE ActivitiesOK'
  BY <1>21 DEF terminated, Go, ReleaseAgain, unlockKernel
<1>22. ASSUME NEW a \in Threads, pause(a) PROVE ActivitiesOK'
  BY <1>22 DEF pause, isActive, Paused, releaseAccess, unlockKernel
<1>23. ASSUME NEW a \in Threads, resume(a) PROVE ActivitiesOK'
  BY <1>23 DEF resume, Go, Paused, request
<1>24. ASSUME NEW w \in Workers, runThread(w) PROVE ActivitiesOK'
  BY <1>24 DEF runThread, Go, request
<1>25. ASSUME NEW w \in Workers, workDone(w) PROVE ActivitiesOK'
  BY <1>25 DEF workDone, Go
<1>26. ASSUME NEW w \in Workers, poolActivity(w) PROVE ActivitiesOK'
  BY <1>26 DEF poolActivity, Leave, LastOne, releaseAccess, unlockKernel,
      pooled, notPooled, PoolFull
<1>27. ASSUME NEW w \in Workers, activityEnded(w) PROVE ActivitiesOK'
  BY <1>27 DEF activityEnded, Go, NewActivity
<1>28. CASE UNCHANGED vars
  BY <1>28 DEF vars
<1> QED
  BY <1>1, <1>2, <1>3, <1>4, <1>5, <1>6, <1>7, <1>8, <1>9, <1>10, <1>11,
      <1>12, <1>13, <1>14, <1>15, <1>16, <1>17, <1>18, <1>19, <1>20, <1>21,
      <1>22, <1>23, <1>24, <1>25, <1>26, <1>27, <1>28
  DEF Next, Attach, Begin, Call, Terminate, Worker

(* Giving up access once.                                                  *)
LEMMA Unlocked ==
  ASSUME NEW a \in Threads, KernelOK, FreeLock, InstanceAssumption,
      unlockKernel(a)
  PROVE  KernelOK' /\ FreeLock'
<1> USE DEF KernelOK, FreeLock, unlockKernel
<1>1. CASE kernelLock.owner # a
  BY <1>1
<1>2. CASE kernelLock.owner = a /\ kernelLock.count = 1
  BY <1>2
<1>3. CASE kernelLock.owner = a /\ kernelLock.count # 1
  <2>1. kernelLock' = [kernelLock EXCEPT !.count = @ - 1]
    BY <1>3
  <2>2. kernelLock.count = 2
    BY <1>3 DEF InstanceAssumption
  <2> QED  BY <1>3, <2>1, <2>2 DEF InstanceAssumption
<1> QED  BY <1>1, <1>2, <1>3

(* The lock has an owner exactly when it is counted, at most twice.        *)
LEMMA KernelStep ==
  KernelOK /\ FreeLock /\ AccessBalanced /\ [Next]_vars => (KernelOK /\
  FreeLock)'
<1> SUFFICES ASSUME KernelOK /\ FreeLock /\ AccessBalanced, [Next]_vars
    PROVE (KernelOK /\ FreeLock)'
  OBVIOUS
<1> USE InstanceAssumption DEF FreeLock, KernelOK, access, lists, shutdown,
    Threads
<1>1. ASSUME NEW a \in Threads, nestAttach(a) PROVE (KernelOK /\ FreeLock)'
  BY <1>1 DEF nestAttach, MayCall
<1>2. ASSUME NEW a \in Threads, attachThread(a) PROVE (KernelOK /\ FreeLock)'
  <2>1. \/ UNCHANGED access
        \/ kernelLock' = [owner |-> a, count |-> kernelLock.count + 1]
           /\ kernelLock.owner = None /\ currentActivity' = a
    BY <1>2 DEF attachThread, request
  <2> QED  BY <2>1
<1>3. ASSUME NEW a \in Threads, setupAttachedActivity(a) PROVE (KernelOK /\
    FreeLock)'
  <2>1. UNCHANGED access \/ unlockKernel(a)
    BY <1>3 DEF setupAttachedActivity, releaseAccess
  <2> QED  BY <2>1, Unlocked DEF access, KernelOK, FreeLock
<1>4. ASSUME NEW a \in Threads, returnAttach(a) PROVE (KernelOK /\ FreeLock)'
  BY <1>4 DEF returnAttach, MayCall, isNestedAttach
<1>5. ASSUME NEW a \in Threads, detachThread(a) PROVE (KernelOK /\ FreeLock)'
  BY <1>5 DEF detachThread, MayCall, isNestedAttach, Leave, LastOne,
      NewActivity
<1>6. ASSUME NEW a \in Threads, enterCurrentThread(a) PROVE (KernelOK /\
    FreeLock)'
  <2>1. \/ UNCHANGED access
        \/ kernelLock' = [owner |-> a, count |-> kernelLock.count + 1]
           /\ kernelLock.owner = None /\ currentActivity' = a
    BY <1>6 DEF enterCurrentThread, request
  <2> QED  BY <2>1
<1>7. ASSUME NEW a \in Threads, NEW w \in Workers, spawnActivity(a, w) PROVE
    (KernelOK /\ FreeLock)'
  BY <1>7 DEF spawnActivity, reset
<1>8. ASSUME NEW a \in Threads, isInstanceActive(a) PROVE (KernelOK /\
    FreeLock)'
  BY <1>8 DEF isInstanceActive, MayCall, isActive, Go
<1>9. ASSUME NEW a \in Threads, activate(a) PROVE (KernelOK /\ FreeLock)'
  BY <1>9 DEF activate, Go
<1>10. ASSUME NEW a \in Threads, deactivate(a) PROVE (KernelOK /\ FreeLock)'
  BY <1>10 DEF deactivate, Go
<1>11. ASSUME NEW a \in Threads, exitCurrentThread(a) PROVE (KernelOK /\
    FreeLock)'
  <2>1. UNCHANGED access \/ unlockKernel(a)
    BY <1>11 DEF exitCurrentThread, releaseAccess
  <2> QED  BY <2>1, Unlocked DEF access, KernelOK, FreeLock
<1>12. ASSUME NEW a \in Threads, rootInactive(a) PROVE (KernelOK /\ FreeLock)'
  BY <1>12 DEF rootInactive, Go, isActive
<1>13. ASSUME NEW a \in Threads, removeInactiveActivities(a) PROVE (KernelOK
    /\ FreeLock)'
  BY <1>13 DEF removeInactiveActivities, Go, isActive, Inactive, AtWork,
      AlreadyTerminating
<1>14. ASSUME NEW a \in Threads, terminationWait(a) PROVE (KernelOK /\
    FreeLock)'
  BY <1>14 DEF terminationWait, Go
<1>15. ASSUME NEW a \in Threads, reenterNested(a) PROVE (KernelOK /\
    FreeLock)'
  BY <1>15 DEF reenterNested, Go
<1>16. ASSUME NEW a \in Threads, reenterNew(a) PROVE (KernelOK /\ FreeLock)'
  BY <1>16 DEF reenterNew, Go
<1>17. ASSUME NEW a \in Threads, requestApiAccess(a) PROVE (KernelOK /\
    FreeLock)'
  <2>1. /\ kernelLock' = [owner |-> a, count |-> kernelLock.count + 1]
        /\ currentActivity' = a
        /\ kernelLock.owner \in {None, a} /\ pc[a] = "claim"
    BY <1>17 DEF requestApiAccess, request, Go
  <2>2. kernelLock.owner = a => kernelLock.count = 1
    BY <2>1 DEF AccessBalanced
  <2> QED  BY <2>1, <2>2
<1>18. ASSUME NEW a \in Threads, terminateInterpreterInstance(a) PROVE
    (KernelOK /\ FreeLock)'
  BY <1>18 DEF terminateInterpreterInstance, Go
<1>19. ASSUME NEW a \in Threads, exitAfterUninit(a) PROVE (KernelOK /\
    FreeLock)'
  <2>1. UNCHANGED access \/ unlockKernel(a)
    BY <1>19 DEF exitAfterUninit, releaseAccess
  <2> QED  BY <2>1, Unlocked DEF access, KernelOK, FreeLock
<1>20. ASSUME NEW a \in Threads, returnRootActivity(a) PROVE (KernelOK /\
    FreeLock)'
  BY <1>20 DEF returnRootActivity, Go
<1>21. ASSUME NEW a \in Threads, terminated(a) PROVE (KernelOK /\ FreeLock)'
  <2>1. UNCHANGED access \/ unlockKernel(a)
    BY <1>21 DEF terminated, ReleaseAgain
  <2> QED  BY <2>1, Unlocked DEF access, KernelOK, FreeLock
<1>22. ASSUME NEW a \in Threads, pause(a) PROVE (KernelOK /\ FreeLock)'
  <2>1. UNCHANGED access \/ unlockKernel(a)
    BY <1>22 DEF pause, releaseAccess
  <2> QED  BY <2>1, Unlocked DEF access, KernelOK, FreeLock
<1>23. ASSUME NEW a \in Threads, resume(a) PROVE (KernelOK /\ FreeLock)'
  <2>1. /\ kernelLock' = [owner |-> a, count |-> kernelLock.count + 1]
        /\ currentActivity' = a
        /\ kernelLock.owner \in {None, a}
        /\ pc[a] \in {"away", "leftAway", "uninitAway", "exitingAway"}
    BY <1>23 DEF resume, request, Go, Paused
  <2>2. kernelLock.owner = a => kernelLock.count = 1
    BY <2>1 DEF AccessBalanced
  <2> QED  BY <2>1, <2>2
<1>24. ASSUME NEW w \in Workers, runThread(w) PROVE (KernelOK /\ FreeLock)'
  <2>1. \/ UNCHANGED access
        \/ kernelLock' = [owner |-> w, count |-> kernelLock.count + 1]
           /\ kernelLock.owner = None /\ currentActivity' = w
    BY <1>24 DEF runThread, request
  <2> QED  BY <2>1
<1>25. ASSUME NEW w \in Workers, workDone(w) PROVE (KernelOK /\ FreeLock)'
  BY <1>25 DEF workDone, Go
<1>26. ASSUME NEW w \in Workers, poolActivity(w) PROVE (KernelOK /\ FreeLock)'
  <2>1. UNCHANGED access \/ unlockKernel(w)
    BY <1>26 DEF poolActivity, releaseAccess
  <2> QED  BY <2>1, Unlocked DEF access, KernelOK, FreeLock
<1>27. ASSUME NEW w \in Workers, activityEnded(w) PROVE (KernelOK /\
    FreeLock)'
  BY <1>27 DEF activityEnded, Go, NewActivity
<1>28. CASE UNCHANGED vars
  BY <1>28 DEF vars
<1> QED
  BY <1>1, <1>2, <1>3, <1>4, <1>5, <1>6, <1>7, <1>8, <1>9, <1>10, <1>11,
      <1>12, <1>13, <1>14, <1>15, <1>16, <1>17, <1>18, <1>19, <1>20, <1>21,
      <1>22, <1>23, <1>24, <1>25, <1>26, <1>27, <1>28
  DEF Next, Attach, Begin, Call, Terminate, Worker

(* A thread's place says how deep in calls it is.                          *)
LEMMA DepthStep ==
  PlacesOK /\ ActivitiesOK /\ DepthInv /\ WorkKept /\ [Next]_vars =>
  DepthInv'
<1> SUFFICES ASSUME PlacesOK /\ ActivitiesOK /\ DepthInv /\ WorkKept,
    [Next]_vars PROVE DepthInv'
  OBVIOUS
<1> USE InstanceAssumption DEF PlacesOK, ActivitiesOK, DepthInv, access,
    lists, shutdown, Idle, Once, Threads
<1>1. ASSUME NEW a \in Threads, nestAttach(a) PROVE DepthInv'
  BY <1>1 DEF nestAttach, MayCall
<1>2. ASSUME NEW a \in Threads, attachThread(a) PROVE DepthInv'
  BY <1>2 DEF attachThread, MayCall, Go, request, NewActivity
<1>3. ASSUME NEW a \in Threads, setupAttachedActivity(a) PROVE DepthInv'
  BY <1>3 DEF setupAttachedActivity, Go, releaseAccess, unlockKernel
<1>4. ASSUME NEW a \in Threads, returnAttach(a) PROVE DepthInv'
  BY <1>4 DEF returnAttach, MayCall, isNestedAttach
<1>5. ASSUME NEW a \in Threads, detachThread(a) PROVE DepthInv'
  BY <1>5 DEF detachThread, MayCall, isNestedAttach, Leave, LastOne,
      NewActivity
<1>6. ASSUME NEW a \in Threads, enterCurrentThread(a) PROVE DepthInv'
  <2>1. pc' = [pc EXCEPT ![a] = "entered"] /\ UNCHANGED activity
    BY <1>6 DEF enterCurrentThread
  <2>2. activity[a].nested < MaxNest[a] /\ (pc[a] = "away" \/ a \notin Workers)
    BY <1>6 DEF enterCurrentThread, MayCall, NativePlaces
  <2> QED  BY <2>1, <2>2
<1>7. ASSUME NEW a \in Threads, NEW w \in Workers, spawnActivity(a, w) PROVE
    DepthInv'
  <2>1. activity[w].nested = 0
    BY <1>7 DEF spawnActivity, WorkKept, NewActivity
  <2>2. /\ pc' = [pc EXCEPT ![w] = "start"]
        /\ activity' = [activity EXCEPT ![w] = reset(@)]
    BY <1>7 DEF spawnActivity
  <2> QED  BY <2>1, <2>2 DEF reset
<1>8. ASSUME NEW a \in Threads, isInstanceActive(a) PROVE DepthInv'
  BY <1>8 DEF isInstanceActive, MayCall, isActive, Go
<1>9. ASSUME NEW a \in Threads, activate(a) PROVE DepthInv'
  BY <1>9 DEF activate, Go
<1>10. ASSUME NEW a \in Threads, deactivate(a) PROVE DepthInv'
  BY <1>10 DEF deactivate, Go
<1>11. ASSUME NEW a \in Threads, exitCurrentThread(a) PROVE DepthInv'
  BY <1>11 DEF exitCurrentThread, Go, isActive, releaseAccess, unlockKernel
<1>12. ASSUME NEW a \in Threads, rootInactive(a) PROVE DepthInv'
  BY <1>12 DEF rootInactive, Go, isActive
<1>13. ASSUME NEW a \in Threads, removeInactiveActivities(a) PROVE DepthInv'
  <2> DEFINE New(b) ==
        [nested |-> activity[b].nested, attach |-> activity[b].attach,
         exit |-> IF b \in Inactive THEN TRUE ELSE activity[b].exit]
  <2>0. UNCHANGED activity \/ activity' = [b \in Threads |-> New(b)]
    BY <1>13 DEF removeInactiveActivities
  <2>1. \A b \in Threads : activity'[b].nested = activity[b].nested
    <3>1. CASE UNCHANGED activity
      BY <3>1
    <3>2. CASE activity' = [b \in Threads |-> New(b)]
      <4>1. \A b \in Threads : New(b).nested = activity[b].nested
        OBVIOUS
      <4> HIDE DEF New
      <4> QED  BY <3>2, <4>1
    <3> QED  BY <2>0, <3>1, <3>2
  <2>2. \E p \in {"out", "reenter", "waiting"} : Go(a, "gate", p)
    BY <1>13 DEF removeInactiveActivities
  <2> QED  BY <2>1, <2>2 DEF Go
<1>14. ASSUME NEW a \in Threads, terminationWait(a) PROVE DepthInv'
  BY <1>14 DEF terminationWait, Go
<1>15. ASSUME NEW a \in Threads, reenterNested(a) PROVE DepthInv'
  BY <1>15 DEF reenterNested, Go
<1>16. ASSUME NEW a \in Threads, reenterNew(a) PROVE DepthInv'
  BY <1>16 DEF reenterNew, Go
<1>17. ASSUME NEW a \in Threads, requestApiAccess(a) PROVE DepthInv'
  BY <1>17 DEF requestApiAccess, Go, request
<1>18. ASSUME NEW a \in Threads, terminateInterpreterInstance(a) PROVE
    DepthInv'
  BY <1>18 DEF terminateInterpreterInstance, Go
<1>19. ASSUME NEW a \in Threads, exitAfterUninit(a) PROVE DepthInv'
  BY <1>19 DEF exitAfterUninit, Go, releaseAccess, unlockKernel
<1>20. ASSUME NEW a \in Threads, returnRootActivity(a) PROVE DepthInv'
  BY <1>20 DEF returnRootActivity, Go
<1>21. ASSUME NEW a \in Threads, terminated(a) PROVE DepthInv'
  BY <1>21 DEF terminated, Go, ReleaseAgain, unlockKernel
<1>22. ASSUME NEW a \in Threads, pause(a) PROVE DepthInv'
  BY <1>22 DEF pause, isActive, Paused, releaseAccess, unlockKernel
<1>23. ASSUME NEW a \in Threads, resume(a) PROVE DepthInv'
  BY <1>23 DEF resume, Go, Paused, request
<1>24. ASSUME NEW w \in Workers, runThread(w) PROVE DepthInv'
  <2>1. \E p \in {"ended", "in"} : Go(w, "start", p)
    BY <1>24 DEF runThread
  <2> QED  BY <1>24, <2>1 DEF runThread, WorkKept, Go
<1>25. ASSUME NEW w \in Workers, workDone(w) PROVE DepthInv'
  BY <1>25 DEF workDone, Go
<1>26. ASSUME NEW w \in Workers, poolActivity(w) PROVE DepthInv'
  BY <1>26 DEF poolActivity, Leave, LastOne, releaseAccess, unlockKernel,
      pooled, notPooled, PoolFull
<1>27. ASSUME NEW w \in Workers, activityEnded(w) PROVE DepthInv'
  BY <1>27 DEF activityEnded, Go, NewActivity
<1>28. CASE UNCHANGED vars
  BY <1>28 DEF vars
<1> QED
  BY <1>1, <1>2, <1>3, <1>4, <1>5, <1>6, <1>7, <1>8, <1>9, <1>10, <1>11,
      <1>12, <1>13, <1>14, <1>15, <1>16, <1>17, <1>18, <1>19, <1>20, <1>21,
      <1>22, <1>23, <1>24, <1>25, <1>26, <1>27, <1>28
  DEF Next, Attach, Begin, Call, Terminate, Worker

(* The instance, its semaphore and the counters.                           *)
LEMMA InstanceStep == InstanceOK /\ [Next]_vars => InstanceOK'
<1> SUFFICES ASSUME InstanceOK, [Next]_vars PROVE InstanceOK'
  OBVIOUS
<1> USE InstanceAssumption DEF InstanceOK, access, lists, shutdown
<1>1. ASSUME NEW a \in Threads, nestAttach(a) PROVE InstanceOK'
  BY <1>1 DEF nestAttach, MayCall
<1>2. ASSUME NEW a \in Threads, attachThread(a) PROVE InstanceOK'
  BY <1>2 DEF attachThread, MayCall, Go, request, NewActivity
<1>3. ASSUME NEW a \in Threads, setupAttachedActivity(a) PROVE InstanceOK'
  BY <1>3 DEF setupAttachedActivity, Go, releaseAccess, unlockKernel
<1>4. ASSUME NEW a \in Threads, returnAttach(a) PROVE InstanceOK'
  BY <1>4 DEF returnAttach, MayCall, isNestedAttach
<1>5. ASSUME NEW a \in Threads, detachThread(a) PROVE InstanceOK'
  BY <1>5 DEF detachThread, MayCall, isNestedAttach, Leave, LastOne,
      NewActivity
<1>6. ASSUME NEW a \in Threads, enterCurrentThread(a) PROVE InstanceOK'
  BY <1>6 DEF enterCurrentThread, MayCall, request
<1>7. ASSUME NEW a \in Threads, NEW w \in Workers, spawnActivity(a, w) PROVE
    InstanceOK'
  BY <1>7 DEF spawnActivity, reset
<1>8. ASSUME NEW a \in Threads, isInstanceActive(a) PROVE InstanceOK'
  BY <1>8 DEF isInstanceActive, MayCall, isActive, Go
<1>9. ASSUME NEW a \in Threads, activate(a) PROVE InstanceOK'
  BY <1>9 DEF activate, Go
<1>10. ASSUME NEW a \in Threads, deactivate(a) PROVE InstanceOK'
  BY <1>10 DEF deactivate, Go
<1>11. ASSUME NEW a \in Threads, exitCurrentThread(a) PROVE InstanceOK'
  BY <1>11 DEF exitCurrentThread, Go, isActive, releaseAccess, unlockKernel
<1>12. ASSUME NEW a \in Threads, rootInactive(a) PROVE InstanceOK'
  BY <1>12 DEF rootInactive, Go, isActive
<1>13. ASSUME NEW a \in Threads, removeInactiveActivities(a) PROVE InstanceOK'
  BY <1>13 DEF removeInactiveActivities, Go, isActive, Inactive, AtWork,
      AlreadyTerminating
<1>14. ASSUME NEW a \in Threads, terminationWait(a) PROVE InstanceOK'
  BY <1>14 DEF terminationWait, Go
<1>15. ASSUME NEW a \in Threads, reenterNested(a) PROVE InstanceOK'
  BY <1>15 DEF reenterNested, Go
<1>16. ASSUME NEW a \in Threads, reenterNew(a) PROVE InstanceOK'
  BY <1>16 DEF reenterNew, Go
<1>17. ASSUME NEW a \in Threads, requestApiAccess(a) PROVE InstanceOK'
  BY <1>17 DEF requestApiAccess, Go, request
<1>18. ASSUME NEW a \in Threads, terminateInterpreterInstance(a) PROVE
    InstanceOK'
  BY <1>18 DEF terminateInterpreterInstance, Go
<1>19. ASSUME NEW a \in Threads, exitAfterUninit(a) PROVE InstanceOK'
  BY <1>19 DEF exitAfterUninit, Go, releaseAccess, unlockKernel
<1>20. ASSUME NEW a \in Threads, returnRootActivity(a) PROVE InstanceOK'
  BY <1>20 DEF returnRootActivity, Go
<1>21. ASSUME NEW a \in Threads, terminated(a) PROVE InstanceOK'
  BY <1>21 DEF terminated, Go, ReleaseAgain, unlockKernel
<1>22. ASSUME NEW a \in Threads, pause(a) PROVE InstanceOK'
  BY <1>22 DEF pause, isActive, Paused, releaseAccess, unlockKernel
<1>23. ASSUME NEW a \in Threads, resume(a) PROVE InstanceOK'
  BY <1>23 DEF resume, Go, Paused, request
<1>24. ASSUME NEW w \in Workers, runThread(w) PROVE InstanceOK'
  BY <1>24 DEF runThread, Go, request
<1>25. ASSUME NEW w \in Workers, workDone(w) PROVE InstanceOK'
  BY <1>25 DEF workDone, Go
<1>26. ASSUME NEW w \in Workers, poolActivity(w) PROVE InstanceOK'
  BY <1>26 DEF poolActivity, Leave, LastOne, releaseAccess, unlockKernel,
      pooled, notPooled, PoolFull
<1>27. ASSUME NEW w \in Workers, activityEnded(w) PROVE InstanceOK'
  BY <1>27 DEF activityEnded, Go, NewActivity
<1>28. CASE UNCHANGED vars
  BY <1>28 DEF vars
<1> QED
  BY <1>1, <1>2, <1>3, <1>4, <1>5, <1>6, <1>7, <1>8, <1>9, <1>10, <1>11,
      <1>12, <1>13, <1>14, <1>15, <1>16, <1>17, <1>18, <1>19, <1>20, <1>21,
      <1>22, <1>23, <1>24, <1>25, <1>26, <1>27, <1>28
  DEF Next, Attach, Begin, Call, Terminate, Worker

(* The lists hold threads; the pool stays within its limit.                *)
LEMMA ListsStep == ListsOK /\ [Next]_vars => ListsOK'
<1> SUFFICES ASSUME ListsOK, [Next]_vars PROVE ListsOK'
  OBVIOUS
<1> USE InstanceAssumption DEF Threads, access, lists, shutdown, ListsOK
<1>1. ASSUME NEW a \in Threads, nestAttach(a) PROVE ListsOK'
  BY <1>1 DEF nestAttach, MayCall
<1>2. ASSUME NEW a \in Threads, attachThread(a) PROVE ListsOK'
  BY <1>2 DEF attachThread, MayCall, Go, request, NewActivity
<1>3. ASSUME NEW a \in Threads, setupAttachedActivity(a) PROVE ListsOK'
  BY <1>3 DEF setupAttachedActivity, Go, releaseAccess, unlockKernel
<1>4. ASSUME NEW a \in Threads, returnAttach(a) PROVE ListsOK'
  BY <1>4 DEF returnAttach, MayCall, isNestedAttach
<1>5. ASSUME NEW a \in Threads, detachThread(a) PROVE ListsOK'
  BY <1>5 DEF detachThread, MayCall, isNestedAttach, Leave, LastOne,
      NewActivity
<1>6. ASSUME NEW a \in Threads, enterCurrentThread(a) PROVE ListsOK'
  BY <1>6 DEF enterCurrentThread, MayCall, request
<1>7. ASSUME NEW a \in Threads, NEW w \in Workers, spawnActivity(a, w) PROVE
    ListsOK'
  <2>1. pool' = pool \ {w} /\ known' = known \cup {w}
        /\ allActivities' = allActivities \cup {w}
        /\ held' \subseteq held \cup {w}
    BY <1>7 DEF spawnActivity
  <2>2. IsFiniteSet(pool)
    BY FS_Subset DEF InstanceAssumption
  <2>3. /\ Cardinality(pool \ {w}) <= Cardinality(pool)
        /\ Cardinality(pool \ {w}) \in Nat /\ Cardinality(pool) \in Nat
    BY <2>2, FS_Subset, FS_CardinalityType
  <2> QED  BY <2>1, <2>3
<1>8. ASSUME NEW a \in Threads, isInstanceActive(a) PROVE ListsOK'
  BY <1>8 DEF isInstanceActive, MayCall, isActive, Go
<1>9. ASSUME NEW a \in Threads, activate(a) PROVE ListsOK'
  BY <1>9 DEF activate, Go
<1>10. ASSUME NEW a \in Threads, deactivate(a) PROVE ListsOK'
  BY <1>10 DEF deactivate, Go
<1>11. ASSUME NEW a \in Threads, exitCurrentThread(a) PROVE ListsOK'
  BY <1>11 DEF exitCurrentThread, Go, isActive, releaseAccess, unlockKernel
<1>12. ASSUME NEW a \in Threads, rootInactive(a) PROVE ListsOK'
  BY <1>12 DEF rootInactive, Go, isActive
<1>13. ASSUME NEW a \in Threads, removeInactiveActivities(a) PROVE ListsOK'
  BY <1>13 DEF removeInactiveActivities, Go, isActive, Inactive, AtWork,
      AlreadyTerminating
<1>14. ASSUME NEW a \in Threads, terminationWait(a) PROVE ListsOK'
  BY <1>14 DEF terminationWait, Go
<1>15. ASSUME NEW a \in Threads, reenterNested(a) PROVE ListsOK'
  BY <1>15 DEF reenterNested, Go
<1>16. ASSUME NEW a \in Threads, reenterNew(a) PROVE ListsOK'
  BY <1>16 DEF reenterNew, Go
<1>17. ASSUME NEW a \in Threads, requestApiAccess(a) PROVE ListsOK'
  BY <1>17 DEF requestApiAccess, Go, request
<1>18. ASSUME NEW a \in Threads, terminateInterpreterInstance(a) PROVE
    ListsOK'
  BY <1>18 DEF terminateInterpreterInstance, Go
<1>19. ASSUME NEW a \in Threads, exitAfterUninit(a) PROVE ListsOK'
  BY <1>19 DEF exitAfterUninit, Go, releaseAccess, unlockKernel
<1>20. ASSUME NEW a \in Threads, returnRootActivity(a) PROVE ListsOK'
  BY <1>20 DEF returnRootActivity, Go
<1>21. ASSUME NEW a \in Threads, terminated(a) PROVE ListsOK'
  BY <1>21 DEF terminated, Go, ReleaseAgain, unlockKernel
<1>22. ASSUME NEW a \in Threads, pause(a) PROVE ListsOK'
  BY <1>22 DEF pause, isActive, Paused, releaseAccess, unlockKernel
<1>23. ASSUME NEW a \in Threads, resume(a) PROVE ListsOK'
  BY <1>23 DEF resume, Go, Paused, request
<1>24. ASSUME NEW w \in Workers, runThread(w) PROVE ListsOK'
  BY <1>24 DEF runThread, Go, request
<1>25. ASSUME NEW w \in Workers, workDone(w) PROVE ListsOK'
  BY <1>25 DEF workDone, Go
<1>26. ASSUME NEW w \in Workers, poolActivity(w) PROVE ListsOK'
  <2>1. /\ known' \subseteq known /\ allActivities' \subseteq allActivities
        /\ held' \subseteq held
    BY <1>26 DEF poolActivity, Leave, notPooled, pooled
  <2>2. IsFiniteSet(pool)
    BY FS_Subset DEF InstanceAssumption
  <2>3. Cardinality(pool) \in Nat
    BY <2>2, FS_CardinalityType
  <2>4. \/ Cardinality(pool \cup {w}) = Cardinality(pool)
        \/ Cardinality(pool \cup {w}) = Cardinality(pool) + 1
    BY <2>2, FS_AddElement
  <2>5. CASE PoolFull
    BY <1>26, <2>1, <2>5 DEF poolActivity, notPooled, pooled
  <2>6. CASE ~PoolFull
    <3>1. Cardinality(pool) <= MaxPool
      BY <2>3, <2>6 DEF PoolFull, InstanceAssumption
    <3>2. Cardinality(pool \cup {w}) <= MaxPool + 1
      BY <2>3, <2>4, <3>1 DEF InstanceAssumption
    <3>3. UNCHANGED pool \/ pool' = pool \cup {w}
      BY <1>26 DEF poolActivity, notPooled, pooled
    <3> QED  BY <2>1, <3>2, <3>3
  <2> QED  BY <2>5, <2>6
<1>27. ASSUME NEW w \in Workers, activityEnded(w) PROVE ListsOK'
  BY <1>27 DEF activityEnded, Go, NewActivity
<1>28. CASE UNCHANGED vars
  BY <1>28 DEF vars
<1> QED
  BY <1>1, <1>2, <1>3, <1>4, <1>5, <1>6, <1>7, <1>8, <1>9, <1>10, <1>11,
      <1>12, <1>13, <1>14, <1>15, <1>16, <1>17, <1>18, <1>19, <1>20, <1>21,
      <1>22, <1>23, <1>24, <1>25, <1>26, <1>27, <1>28
  DEF Next, Attach, Begin, Call, Terminate, Worker

(* The resource section of terminate().                                    *)
LEMMA Removed ==
  ASSUME PlacesOK, ActivitiesOK, InstanceOK, NEW a \in Threads,
         removeInactiveActivities(a)
  PROVE  /\ \A b \in Threads :
              /\ activity'[b].nested = activity[b].nested
              /\ activity'[b].attach = activity[b].attach
              /\ b \notin Inactive => activity'[b] = activity[b]
         /\ \/ /\ UNCHANGED <<instance, activity, allActivities, held>>
               /\ Go(a, "gate", "out")
            \/ /\ ~instance.terminating
               /\ instance' = [instance EXCEPT !.terminating = TRUE]
               /\ Go(a, "gate", "reenter") \/ Go(a, "gate", "waiting")
         /\ UNCHANGED <<known, pool, access, terminationSem, created, spawns>>
<1> DEFINE New(b) ==
      [nested |-> activity[b].nested, attach |-> activity[b].attach,
       exit |-> IF b \in Inactive THEN TRUE ELSE activity[b].exit]
<1>1. UNCHANGED activity \/ activity' = [b \in Threads |-> New(b)]
  BY DEF removeInactiveActivities
<1>2. ASSUME NEW b \in Threads
      PROVE  /\ New(b).nested = activity[b].nested
             /\ New(b).attach = activity[b].attach
             /\ b \notin Inactive => New(b) = activity[b]
  BY DEF ActivitiesOK
<1> HIDE DEF New
<1>3. \A b \in Threads :
         /\ activity'[b].nested = activity[b].nested
         /\ activity'[b].attach = activity[b].attach
         /\ b \notin Inactive => activity'[b] = activity[b]
  <2>1. CASE UNCHANGED activity
    BY <2>1
  <2>2. CASE activity' = [b \in Threads |-> New(b)]
    BY <1>2, <2>2
  <2> QED  BY <1>1, <2>1, <2>2
<1>4. CASE AlreadyTerminating
  BY <1>3, <1>4 DEF removeInactiveActivities, lists, access, shutdown
<1>5. CASE ~AlreadyTerminating
  <2>1. ~instance.terminating
    BY <1>5 DEF AlreadyTerminating
  <2>2. /\ instance' = [instance EXCEPT !.terminating = TRUE]
        /\ Go(a, "gate", "reenter") \/ Go(a, "gate", "waiting")
        /\ UNCHANGED <<known, pool, access, terminationSem, created, spawns>>
    BY <1>5 DEF removeInactiveActivities
  <2> QED  BY <1>3, <2>1, <2>2
<1> QED  BY <1>4, <1>5

(* Only terminate() attaches a thread once more.                           *)
LEMMA AttachStep ==
  PlacesOK /\ ActivitiesOK /\ AttachInv /\ TerminatingInv /\ InstanceOK /\
  [Next]_vars => AttachInv'
<1> SUFFICES ASSUME PlacesOK /\ ActivitiesOK /\ AttachInv /\ TerminatingInv
    /\ InstanceOK, [Next]_vars PROVE AttachInv'
  OBVIOUS
<1> USE InstanceAssumption DEF PlacesOK, ActivitiesOK, access, lists,
    shutdown, Threads, AttachInv, Past, Through, Dismantling
<1>1. ASSUME NEW a \in Threads, nestAttach(a) PROVE AttachInv'
  BY <1>1 DEF nestAttach, MayCall
<1>2. ASSUME NEW a \in Threads, attachThread(a) PROVE AttachInv'
  BY <1>2 DEF attachThread, MayCall, Go, request, NewActivity
<1>3. ASSUME NEW a \in Threads, setupAttachedActivity(a) PROVE AttachInv'
  BY <1>3 DEF setupAttachedActivity, Go, releaseAccess, unlockKernel
<1>4. ASSUME NEW a \in Threads, returnAttach(a) PROVE AttachInv'
  BY <1>4 DEF returnAttach, MayCall, isNestedAttach
<1>5. ASSUME NEW a \in Threads, detachThread(a) PROVE AttachInv'
  BY <1>5 DEF detachThread, MayCall, isNestedAttach, Leave, LastOne,
      NewActivity
<1>6. ASSUME NEW a \in Threads, enterCurrentThread(a) PROVE AttachInv'
  BY <1>6 DEF enterCurrentThread, MayCall, request
<1>7. ASSUME NEW a \in Threads, NEW w \in Workers, spawnActivity(a, w) PROVE
    AttachInv'
  <2>1. pc[w] \notin {"claim"} \cup Dismantling
    BY DEF NativePlaces
  <2>2. /\ pc' = [pc EXCEPT ![w] = "start"]
        /\ activity' = [activity EXCEPT ![w] = reset(@)]
        /\ UNCHANGED instance
    BY <1>7 DEF spawnActivity
  <2> QED  BY <2>1, <2>2 DEF reset
<1>8. ASSUME NEW a \in Threads, isInstanceActive(a) PROVE AttachInv'
  BY <1>8 DEF isInstanceActive, MayCall, isActive, Go
<1>9. ASSUME NEW a \in Threads, activate(a) PROVE AttachInv'
  BY <1>9 DEF activate, Go
<1>10. ASSUME NEW a \in Threads, deactivate(a) PROVE AttachInv'
  BY <1>10 DEF deactivate, Go
<1>11. ASSUME NEW a \in Threads, exitCurrentThread(a) PROVE AttachInv'
  BY <1>11 DEF exitCurrentThread, Go, isActive, releaseAccess, unlockKernel
<1>12. ASSUME NEW a \in Threads, rootInactive(a) PROVE AttachInv'
  BY <1>12 DEF rootInactive, Go, isActive
<1>13. ASSUME NEW a \in Threads, removeInactiveActivities(a) PROVE AttachInv'
  <2> QED  BY <1>13, Removed DEF Go, InstanceOK
<1>14. ASSUME NEW a \in Threads, terminationWait(a) PROVE AttachInv'
  BY <1>14 DEF terminationWait, Go
<1>15. ASSUME NEW a \in Threads, reenterNested(a) PROVE AttachInv'
  BY <1>15 DEF reenterNested, Go
<1>16. ASSUME NEW a \in Threads, reenterNew(a) PROVE AttachInv'
  BY <1>16 DEF reenterNew, Go
<1>17. ASSUME NEW a \in Threads, requestApiAccess(a) PROVE AttachInv'
  BY <1>17 DEF requestApiAccess, Go, request
<1>18. ASSUME NEW a \in Threads, terminateInterpreterInstance(a) PROVE
    AttachInv'
  BY <1>18 DEF terminateInterpreterInstance, Go
<1>19. ASSUME NEW a \in Threads, exitAfterUninit(a) PROVE AttachInv'
  BY <1>19 DEF exitAfterUninit, Go, releaseAccess, unlockKernel
<1>20. ASSUME NEW a \in Threads, returnRootActivity(a) PROVE AttachInv'
  BY <1>20 DEF returnRootActivity, Go
<1>21. ASSUME NEW a \in Threads, terminated(a) PROVE AttachInv'
  <2>1. a \in Natives /\ ~instance.root
    BY <1>21 DEF terminated, Go, WorkerPlaces, CallPlaces, NativePlaces,
        TerminatingInv
  <2> QED  BY <1>21, <2>1 DEF terminated, Go
<1>22. ASSUME NEW a \in Threads, pause(a) PROVE AttachInv'
  BY <1>22 DEF pause, isActive, Paused, releaseAccess, unlockKernel
<1>23. ASSUME NEW a \in Threads, resume(a) PROVE AttachInv'
  BY <1>23 DEF resume, Go, Paused, request
<1>24. ASSUME NEW w \in Workers, runThread(w) PROVE AttachInv'
  BY <1>24 DEF runThread, Go, request
<1>25. ASSUME NEW w \in Workers, workDone(w) PROVE AttachInv'
  BY <1>25 DEF workDone, Go
<1>26. ASSUME NEW w \in Workers, poolActivity(w) PROVE AttachInv'
  BY <1>26 DEF poolActivity, Leave, LastOne, releaseAccess, unlockKernel,
      pooled, notPooled, PoolFull
<1>27. ASSUME NEW w \in Workers, activityEnded(w) PROVE AttachInv'
  BY <1>27 DEF activityEnded, Go, NewActivity
<1>28. CASE UNCHANGED vars
  BY <1>28 DEF vars
<1> QED
  BY <1>1, <1>2, <1>3, <1>4, <1>5, <1>6, <1>7, <1>8, <1>9, <1>10, <1>11,
      <1>12, <1>13, <1>14, <1>15, <1>16, <1>17, <1>18, <1>19, <1>20, <1>21,
      <1>22, <1>23, <1>24, <1>25, <1>26, <1>27, <1>28
  DEF Next, Attach, Begin, Call, Terminate, Worker

(* Nobody passes the check of terminating while another thread is past it: *)
(* that thread has set it.                                                 *)
LEMMA OneStep ==
  PlacesOK /\ ActivitiesOK /\ InstanceOK /\ OneShutdown /\ TerminatingInv /\
  [Next]_vars => OneShutdown'
<1> SUFFICES ASSUME PlacesOK /\ ActivitiesOK /\ InstanceOK /\ OneShutdown /\
    TerminatingInv, [Next]_vars PROVE OneShutdown'
  OBVIOUS
<1> USE InstanceAssumption DEF PlacesOK, Threads, access, lists, shutdown,
    OneShutdown, Past, Through, Dismantling
<1>1. ASSUME NEW a \in Threads, nestAttach(a) PROVE OneShutdown'
  BY <1>1 DEF nestAttach, MayCall
<1>2. ASSUME NEW a \in Threads, attachThread(a) PROVE OneShutdown'
  BY <1>2 DEF attachThread, MayCall, Go, request, NewActivity
<1>3. ASSUME NEW a \in Threads, setupAttachedActivity(a) PROVE OneShutdown'
  BY <1>3 DEF setupAttachedActivity, Go, releaseAccess, unlockKernel
<1>4. ASSUME NEW a \in Threads, returnAttach(a) PROVE OneShutdown'
  BY <1>4 DEF returnAttach, MayCall, isNestedAttach
<1>5. ASSUME NEW a \in Threads, detachThread(a) PROVE OneShutdown'
  BY <1>5 DEF detachThread, MayCall, isNestedAttach, Leave, LastOne,
      NewActivity
<1>6. ASSUME NEW a \in Threads, enterCurrentThread(a) PROVE OneShutdown'
  BY <1>6 DEF enterCurrentThread, MayCall, request
<1>7. ASSUME NEW a \in Threads, NEW w \in Workers, spawnActivity(a, w) PROVE
    OneShutdown'
  BY <1>7 DEF spawnActivity, reset
<1>8. ASSUME NEW a \in Threads, isInstanceActive(a) PROVE OneShutdown'
  BY <1>8 DEF isInstanceActive, MayCall, isActive, Go
<1>9. ASSUME NEW a \in Threads, activate(a) PROVE OneShutdown'
  BY <1>9 DEF activate, Go
<1>10. ASSUME NEW a \in Threads, deactivate(a) PROVE OneShutdown'
  BY <1>10 DEF deactivate, Go
<1>11. ASSUME NEW a \in Threads, exitCurrentThread(a) PROVE OneShutdown'
  BY <1>11 DEF exitCurrentThread, Go, isActive, releaseAccess, unlockKernel
<1>12. ASSUME NEW a \in Threads, rootInactive(a) PROVE OneShutdown'
  BY <1>12 DEF rootInactive, Go, isActive
<1>13. ASSUME NEW a \in Threads, removeInactiveActivities(a) PROVE
    OneShutdown'
  <2> QED  BY <1>13, Removed DEF Go, TerminatingInv
<1>14. ASSUME NEW a \in Threads, terminationWait(a) PROVE OneShutdown'
  BY <1>14 DEF terminationWait, Go
<1>15. ASSUME NEW a \in Threads, reenterNested(a) PROVE OneShutdown'
  BY <1>15 DEF reenterNested, Go
<1>16. ASSUME NEW a \in Threads, reenterNew(a) PROVE OneShutdown'
  BY <1>16 DEF reenterNew, Go
<1>17. ASSUME NEW a \in Threads, requestApiAccess(a) PROVE OneShutdown'
  BY <1>17 DEF requestApiAccess, Go, request
<1>18. ASSUME NEW a \in Threads, terminateInterpreterInstance(a) PROVE
    OneShutdown'
  BY <1>18 DEF terminateInterpreterInstance, Go
<1>19. ASSUME NEW a \in Threads, exitAfterUninit(a) PROVE OneShutdown'
  BY <1>19 DEF exitAfterUninit, Go, releaseAccess, unlockKernel
<1>20. ASSUME NEW a \in Threads, returnRootActivity(a) PROVE OneShutdown'
  BY <1>20 DEF returnRootActivity, Go
<1>21. ASSUME NEW a \in Threads, terminated(a) PROVE OneShutdown'
  BY <1>21 DEF terminated, Go, ReleaseAgain, unlockKernel
<1>22. ASSUME NEW a \in Threads, pause(a) PROVE OneShutdown'
  BY <1>22 DEF pause, isActive, Paused, releaseAccess, unlockKernel
<1>23. ASSUME NEW a \in Threads, resume(a) PROVE OneShutdown'
  BY <1>23 DEF resume, Go, Paused, request
<1>24. ASSUME NEW w \in Workers, runThread(w) PROVE OneShutdown'
  BY <1>24 DEF runThread, Go, request
<1>25. ASSUME NEW w \in Workers, workDone(w) PROVE OneShutdown'
  BY <1>25 DEF workDone, Go
<1>26. ASSUME NEW w \in Workers, poolActivity(w) PROVE OneShutdown'
  BY <1>26 DEF poolActivity, Leave, LastOne, releaseAccess, unlockKernel,
      pooled, notPooled, PoolFull
<1>27. ASSUME NEW w \in Workers, activityEnded(w) PROVE OneShutdown'
  BY <1>27 DEF activityEnded, Go, NewActivity
<1>28. CASE UNCHANGED vars
  BY <1>28 DEF vars
<1> QED
  BY <1>1, <1>2, <1>3, <1>4, <1>5, <1>6, <1>7, <1>8, <1>9, <1>10, <1>11,
      <1>12, <1>13, <1>14, <1>15, <1>16, <1>17, <1>18, <1>19, <1>20, <1>21,
      <1>22, <1>23, <1>24, <1>25, <1>26, <1>27, <1>28
  DEF Next, Attach, Begin, Call, Terminate, Worker

(* What is true once terminating is set, and only then.                    *)
LEMMA TerminatingStep ==
  PlacesOK /\ ActivitiesOK /\ InstanceOK /\ OneShutdown /\ TerminatingInv /\
  [Next]_vars => TerminatingInv'
<1> SUFFICES ASSUME PlacesOK /\ ActivitiesOK /\ InstanceOK /\ OneShutdown /\
    TerminatingInv, [Next]_vars PROVE TerminatingInv'
  OBVIOUS
<1> USE InstanceAssumption DEF PlacesOK, ActivitiesOK, access, lists,
    shutdown, Threads, TerminatingInv, InstanceOK, Past, Through, Dismantling
<1>1. ASSUME NEW a \in Threads, nestAttach(a) PROVE TerminatingInv'
  BY <1>1 DEF nestAttach, MayCall
<1>2. ASSUME NEW a \in Threads, attachThread(a) PROVE TerminatingInv'
  BY <1>2 DEF attachThread, MayCall, Go, request, NewActivity
<1>3. ASSUME NEW a \in Threads, setupAttachedActivity(a) PROVE TerminatingInv'
  BY <1>3 DEF setupAttachedActivity, Go, releaseAccess, unlockKernel
<1>4. ASSUME NEW a \in Threads, returnAttach(a) PROVE TerminatingInv'
  BY <1>4 DEF returnAttach, MayCall, isNestedAttach
<1>5. ASSUME NEW a \in Threads, detachThread(a) PROVE TerminatingInv'
  BY <1>5 DEF detachThread, MayCall, isNestedAttach, Leave, LastOne,
      NewActivity
<1>6. ASSUME NEW a \in Threads, enterCurrentThread(a) PROVE TerminatingInv'
  BY <1>6 DEF enterCurrentThread, MayCall, request
<1>7. ASSUME NEW a \in Threads, NEW w \in Workers, spawnActivity(a, w) PROVE
    TerminatingInv'
  BY <1>7 DEF spawnActivity, reset
<1>8. ASSUME NEW a \in Threads, isInstanceActive(a) PROVE TerminatingInv'
  BY <1>8 DEF isInstanceActive, MayCall, isActive, Go
<1>9. ASSUME NEW a \in Threads, activate(a) PROVE TerminatingInv'
  BY <1>9 DEF activate, Go
<1>10. ASSUME NEW a \in Threads, deactivate(a) PROVE TerminatingInv'
  BY <1>10 DEF deactivate, Go
<1>11. ASSUME NEW a \in Threads, exitCurrentThread(a) PROVE TerminatingInv'
  BY <1>11 DEF exitCurrentThread, Go, isActive, releaseAccess, unlockKernel
<1>12. ASSUME NEW a \in Threads, rootInactive(a) PROVE TerminatingInv'
  BY <1>12 DEF rootInactive, Go, isActive
<1>13. ASSUME NEW a \in Threads, removeInactiveActivities(a) PROVE
    TerminatingInv'
  <2>1. a \in Natives
    BY <1>13, Removed DEF Go, WorkerPlaces, CallPlaces
  <2>2. \A b \in Threads : activity'[b].exit =>
           activity[b].exit \/ instance'.terminating
    BY <1>13, Removed
  <2> QED  BY <1>13, <2>1, <2>2, Removed DEF Go
<1>14. ASSUME NEW a \in Threads, terminationWait(a) PROVE TerminatingInv'
  BY <1>14 DEF terminationWait, Go
<1>15. ASSUME NEW a \in Threads, reenterNested(a) PROVE TerminatingInv'
  BY <1>15 DEF reenterNested, Go
<1>16. ASSUME NEW a \in Threads, reenterNew(a) PROVE TerminatingInv'
  <2>1. pc[a] = "reattached" /\ a \in Natives /\ instance.terminating
    BY <1>16 DEF reenterNew, Go, WorkerPlaces, CallPlaces
  <2>2. \A b \in Natives : b # a => pc[b] \notin Through
    BY <2>1 DEF OneShutdown
  <2>3. /\ pc' = [pc EXCEPT ![a] = "claim"]
        /\ UNCHANGED <<instance, terminationSem>>
        /\ \A b \in Threads : activity'[b].exit = activity[b].exit
    BY <1>16 DEF reenterNew, Go
  <2> QED  BY <2>1, <2>2, <2>3
<1>17. ASSUME NEW a \in Threads, requestApiAccess(a) PROVE TerminatingInv'
  BY <1>17 DEF requestApiAccess, Go, request
<1>18. ASSUME NEW a \in Threads, terminateInterpreterInstance(a) PROVE
    TerminatingInv'
  BY <1>18 DEF terminateInterpreterInstance, Go
<1>19. ASSUME NEW a \in Threads, exitAfterUninit(a) PROVE TerminatingInv'
  BY <1>19 DEF exitAfterUninit, Go, releaseAccess, unlockKernel
<1>20. ASSUME NEW a \in Threads, returnRootActivity(a) PROVE TerminatingInv'
  <2>1. pc[a] = "closing" /\ a \in Natives /\ instance.terminating
    BY <1>20 DEF returnRootActivity, Go, WorkerPlaces, CallPlaces
  <2>2. \A b \in Natives : b # a => pc[b] \notin Past
    BY <2>1 DEF OneShutdown
  <2>3. /\ pc' = [pc EXCEPT ![a] = "closed"]
        /\ instance' = [instance EXCEPT !.root = FALSE]
        /\ UNCHANGED <<activity, created>>
    BY <1>20 DEF returnRootActivity, Go
  <2> QED  BY <2>1, <2>2, <2>3
<1>21. ASSUME NEW a \in Threads, terminated(a) PROVE TerminatingInv'
  BY <1>21 DEF terminated, Go, ReleaseAgain, unlockKernel
<1>22. ASSUME NEW a \in Threads, pause(a) PROVE TerminatingInv'
  BY <1>22 DEF pause, isActive, Paused, releaseAccess, unlockKernel
<1>23. ASSUME NEW a \in Threads, resume(a) PROVE TerminatingInv'
  BY <1>23 DEF resume, Go, Paused, request
<1>24. ASSUME NEW w \in Workers, runThread(w) PROVE TerminatingInv'
  BY <1>24 DEF runThread, Go, request
<1>25. ASSUME NEW w \in Workers, workDone(w) PROVE TerminatingInv'
  BY <1>25 DEF workDone, Go
<1>26. ASSUME NEW w \in Workers, poolActivity(w) PROVE TerminatingInv'
  BY <1>26 DEF poolActivity, Leave, LastOne, releaseAccess, unlockKernel,
      pooled, notPooled, PoolFull
<1>27. ASSUME NEW w \in Workers, activityEnded(w) PROVE TerminatingInv'
  BY <1>27 DEF activityEnded, Go, NewActivity
<1>28. CASE UNCHANGED vars
  BY <1>28 DEF vars
<1> QED
  BY <1>1, <1>2, <1>3, <1>4, <1>5, <1>6, <1>7, <1>8, <1>9, <1>10, <1>11,
      <1>12, <1>13, <1>14, <1>15, <1>16, <1>17, <1>18, <1>19, <1>20, <1>21,
      <1>22, <1>23, <1>24, <1>25, <1>26, <1>27, <1>28
  DEF Next, Attach, Begin, Call, Terminate, Worker

(* Who is in the instance's list.                                          *)
LEMMA ListStep ==
  PlacesOK /\ ActivitiesOK /\ InstanceOK /\ TerminatingInv /\ OneShutdown /\
  DepthInv /\ WorkKept /\ ListInv /\ [Next]_vars => ListInv'
<1> SUFFICES ASSUME PlacesOK /\ ActivitiesOK /\ InstanceOK /\ TerminatingInv
    /\ OneShutdown /\ DepthInv /\ WorkKept /\ ListInv, [Next]_vars PROVE
    ListInv'
  OBVIOUS
<1> USE InstanceAssumption DEF PlacesOK, ActivitiesOK, access, lists,
    shutdown, Threads, ListInv, InstanceOK, Past, Through, Dismantling
<1>1. ASSUME NEW a \in Threads, nestAttach(a) PROVE ListInv'
  BY <1>1 DEF nestAttach, MayCall
<1>2. ASSUME NEW a \in Threads, attachThread(a) PROVE ListInv'
  BY <1>2 DEF attachThread, MayCall, Go, request, NewActivity
<1>3. ASSUME NEW a \in Threads, setupAttachedActivity(a) PROVE ListInv'
  BY <1>3 DEF setupAttachedActivity, Go, releaseAccess, unlockKernel
<1>4. ASSUME NEW a \in Threads, returnAttach(a) PROVE ListInv'
  BY <1>4 DEF returnAttach, MayCall, isNestedAttach
<1>5. ASSUME NEW a \in Threads, detachThread(a) PROVE ListInv'
  BY <1>5 DEF detachThread, MayCall, isNestedAttach, Leave, LastOne,
      NewActivity
<1>6. ASSUME NEW a \in Threads, enterCurrentThread(a) PROVE ListInv'
  BY <1>6 DEF enterCurrentThread, MayCall, request
<1>7. ASSUME NEW a \in Threads, NEW w \in Workers, spawnActivity(a, w) PROVE
    ListInv'
  <2>1. activity[w].attach = 0 /\ ~activity[w].exit
    BY <1>7 DEF spawnActivity, WorkKept, NewActivity
  <2>2. /\ pc' = [pc EXCEPT ![w] = "start"]
        /\ activity' = [activity EXCEPT ![w] = reset(@)]
        /\ allActivities' = allActivities \cup {w}
        /\ UNCHANGED <<instance, terminationSem>>
    BY <1>7 DEF spawnActivity
  <2>3. w \notin Natives
    OBVIOUS
  <2> QED  BY <2>1, <2>2, <2>3 DEF reset
<1>8. ASSUME NEW a \in Threads, isInstanceActive(a) PROVE ListInv'
  BY <1>8 DEF isInstanceActive, MayCall, isActive, Go
<1>9. ASSUME NEW a \in Threads, activate(a) PROVE ListInv'
  BY <1>9 DEF activate, Go
<1>10. ASSUME NEW a \in Threads, deactivate(a) PROVE ListInv'
  BY <1>10 DEF deactivate, Go
<1>11. ASSUME NEW a \in Threads, exitCurrentThread(a) PROVE ListInv'
  BY <1>11 DEF exitCurrentThread, Go, isActive, releaseAccess, unlockKernel
<1>12. ASSUME NEW a \in Threads, rootInactive(a) PROVE ListInv'
  BY <1>12 DEF rootInactive, Go, isActive
<1>13. ASSUME NEW a \in Threads, removeInactiveActivities(a) PROVE ListInv'
  <2>1. a \in Natives
    BY <1>13, Removed DEF Go, WorkerPlaces, CallPlaces
  <2>2. \E p \in {"out", "reenter", "waiting"} : pc' = [pc EXCEPT ![a] = p]
    BY <1>13, Removed DEF Go
  <2>3. allActivities' \subseteq allActivities
        /\ (Root \in allActivities => Root \in allActivities')
    BY <1>13 DEF removeInactiveActivities, Inactive
  <2>4. \A w \in Workers : pc[w] \in {"none", "start"} => w \notin Inactive
    BY DEF Inactive, isActive, DepthInv, Once
  <2>5. \A w \in Workers :
           pc[w] \in {"none", "start"} => activity'[w] = activity[w]
    BY <1>13, <2>4, Removed
  <2>6. pc' = [pc EXCEPT ![a] = "out"] \/ terminationSem # "closed"
    BY <1>13, Removed DEF Go, TerminatingInv
  <2>7. UNCHANGED terminationSem
    BY <1>13, Removed
  <2> QED  BY <2>1, <2>2, <2>3, <2>5, <2>6, <2>7
<1>14. ASSUME NEW a \in Threads, terminationWait(a) PROVE ListInv'
  BY <1>14 DEF terminationWait, Go
<1>15. ASSUME NEW a \in Threads, reenterNested(a) PROVE ListInv'
  BY <1>15 DEF reenterNested, Go
<1>16. ASSUME NEW a \in Threads, reenterNew(a) PROVE ListInv'
  BY <1>16 DEF reenterNew, Go
<1>17. ASSUME NEW a \in Threads, requestApiAccess(a) PROVE ListInv'
  BY <1>17 DEF requestApiAccess, Go, request
<1>18. ASSUME NEW a \in Threads, terminateInterpreterInstance(a) PROVE
    ListInv'
  BY <1>18 DEF terminateInterpreterInstance, Go
<1>19. ASSUME NEW a \in Threads, exitAfterUninit(a) PROVE ListInv'
  BY <1>19 DEF exitAfterUninit, Go, releaseAccess, unlockKernel
<1>20. ASSUME NEW a \in Threads, returnRootActivity(a) PROVE ListInv'
  <2>1. pc[a] = "closing" /\ a \in Natives
    BY <1>20 DEF returnRootActivity, Go, WorkerPlaces, CallPlaces
  <2>2. \A b \in Natives : b # a => pc[b] \notin Past
    BY <2>1 DEF OneShutdown
  <2>3. /\ pc' = [pc EXCEPT ![a] = "closed"]
        /\ terminationSem' = "closed"
        /\ UNCHANGED <<activity, allActivities>>
    BY <1>20 DEF returnRootActivity, Go
  <2> QED  BY <2>1, <2>2, <2>3
<1>21. ASSUME NEW a \in Threads, terminated(a) PROVE ListInv'
  <2>1. pc[a] = "closed" /\ a \in Natives /\ terminationSem = "closed"
    BY <1>21 DEF terminated, Go, WorkerPlaces, CallPlaces
  <2> QED  BY <1>21, <2>1 DEF terminated, Go
<1>22. ASSUME NEW a \in Threads, pause(a) PROVE ListInv'
  BY <1>22 DEF pause, isActive, Paused, releaseAccess, unlockKernel
<1>23. ASSUME NEW a \in Threads, resume(a) PROVE ListInv'
  BY <1>23 DEF resume, Go, Paused, request
<1>24. ASSUME NEW w \in Workers, runThread(w) PROVE ListInv'
  BY <1>24 DEF runThread, Go, request
<1>25. ASSUME NEW w \in Workers, workDone(w) PROVE ListInv'
  BY <1>25 DEF workDone, Go
<1>26. ASSUME NEW w \in Workers, poolActivity(w) PROVE ListInv'
  BY <1>26 DEF poolActivity, Leave, LastOne, releaseAccess, unlockKernel,
      pooled, notPooled, PoolFull
<1>27. ASSUME NEW w \in Workers, activityEnded(w) PROVE ListInv'
  BY <1>27 DEF activityEnded, Go, NewActivity
<1>28. CASE UNCHANGED vars
  BY <1>28 DEF vars
<1> QED
  BY <1>1, <1>2, <1>3, <1>4, <1>5, <1>6, <1>7, <1>8, <1>9, <1>10, <1>11,
      <1>12, <1>13, <1>14, <1>15, <1>16, <1>17, <1>18, <1>19, <1>20, <1>21,
      <1>22, <1>23, <1>24, <1>25, <1>26, <1>27, <1>28
  DEF Next, Attach, Begin, Call, Terminate, Worker

(* Spawned threads run what they were given.                               *)
LEMMA WorkStep ==
  PlacesOK /\ ActivitiesOK /\ InstanceOK /\ DepthInv /\ ListInv /\
  TerminatingInv /\ WorkKept /\ ListsOK /\ [Next]_vars => WorkKept'
<1> SUFFICES ASSUME PlacesOK /\ ActivitiesOK /\ InstanceOK /\ DepthInv /\
    ListInv /\ TerminatingInv /\ WorkKept /\ ListsOK, [Next]_vars PROVE
    WorkKept'
  OBVIOUS
<1> USE InstanceAssumption DEF PlacesOK, ActivitiesOK, access, lists,
    shutdown, Threads, WorkKept, ListsOK
<1>1. ASSUME NEW a \in Threads, nestAttach(a) PROVE WorkKept'
  BY <1>1 DEF nestAttach, MayCall
<1>2. ASSUME NEW a \in Threads, attachThread(a) PROVE WorkKept'
  BY <1>2 DEF attachThread, MayCall, Go, request, NewActivity
<1>3. ASSUME NEW a \in Threads, setupAttachedActivity(a) PROVE WorkKept'
  BY <1>3 DEF setupAttachedActivity, Go, releaseAccess, unlockKernel
<1>4. ASSUME NEW a \in Threads, returnAttach(a) PROVE WorkKept'
  BY <1>4 DEF returnAttach, MayCall, isNestedAttach
<1>5. ASSUME NEW a \in Threads, detachThread(a) PROVE WorkKept'
  BY <1>5 DEF detachThread, MayCall, isNestedAttach, Leave, LastOne,
      NewActivity
<1>6. ASSUME NEW a \in Threads, enterCurrentThread(a) PROVE WorkKept'
  BY <1>6 DEF enterCurrentThread, MayCall, request
<1>7. ASSUME NEW a \in Threads, NEW w \in Workers, spawnActivity(a, w) PROVE
    WorkKept'
  <2>1. activity[w].nested = 0 /\ ~activity[w].exit
    BY <1>7 DEF spawnActivity, WorkKept, NewActivity, ListInv, DepthInv, Idle
  <2>2. /\ pc' = [pc EXCEPT ![w] = "start"]
        /\ activity' = [activity EXCEPT ![w] = reset(@)]
        /\ pool' = pool \ {w} /\ allActivities' = allActivities \cup {w}
    BY <1>7 DEF spawnActivity
  <2> QED  BY <2>1, <2>2 DEF reset
<1>8. ASSUME NEW a \in Threads, isInstanceActive(a) PROVE WorkKept'
  BY <1>8 DEF isInstanceActive, MayCall, isActive, Go
<1>9. ASSUME NEW a \in Threads, activate(a) PROVE WorkKept'
  BY <1>9 DEF activate, Go
<1>10. ASSUME NEW a \in Threads, deactivate(a) PROVE WorkKept'
  BY <1>10 DEF deactivate, Go
<1>11. ASSUME NEW a \in Threads, exitCurrentThread(a) PROVE WorkKept'
  BY <1>11 DEF exitCurrentThread, Go, isActive, releaseAccess, unlockKernel
<1>12. ASSUME NEW a \in Threads, rootInactive(a) PROVE WorkKept'
  BY <1>12 DEF rootInactive, Go, isActive
<1>13. ASSUME NEW a \in Threads, removeInactiveActivities(a) PROVE WorkKept'
  <2>1. \A w \in Workers : pc'[w] = pc[w]
    BY <1>13, Removed DEF Go, WorkerPlaces, CallPlaces, NativePlaces
  <2>2. allActivities' \subseteq allActivities /\ UNCHANGED pool
    BY <1>13, Removed DEF removeInactiveActivities, lists
  <2>3. \A w \in Workers : pc[w] = "start" => w \notin Inactive
    BY DEF Inactive, isActive, DepthInv, Once
  <2>4. \A w \in Workers : w \in pool => w \notin Inactive
    BY DEF Inactive
  <2>5. \A b \in Threads : b \notin Inactive => activity'[b] = activity[b]
    BY <1>13, Removed
  <2> QED  BY <2>1, <2>2, <2>3, <2>4, <2>5
<1>14. ASSUME NEW a \in Threads, terminationWait(a) PROVE WorkKept'
  BY <1>14 DEF terminationWait, Go
<1>15. ASSUME NEW a \in Threads, reenterNested(a) PROVE WorkKept'
  BY <1>15 DEF reenterNested, Go
<1>16. ASSUME NEW a \in Threads, reenterNew(a) PROVE WorkKept'
  BY <1>16 DEF reenterNew, Go
<1>17. ASSUME NEW a \in Threads, requestApiAccess(a) PROVE WorkKept'
  BY <1>17 DEF requestApiAccess, Go, request
<1>18. ASSUME NEW a \in Threads, terminateInterpreterInstance(a) PROVE
    WorkKept'
  BY <1>18 DEF terminateInterpreterInstance, Go
<1>19. ASSUME NEW a \in Threads, exitAfterUninit(a) PROVE WorkKept'
  BY <1>19 DEF exitAfterUninit, Go, releaseAccess, unlockKernel
<1>20. ASSUME NEW a \in Threads, returnRootActivity(a) PROVE WorkKept'
  BY <1>20 DEF returnRootActivity, Go
<1>21. ASSUME NEW a \in Threads, terminated(a) PROVE WorkKept'
  BY <1>21 DEF terminated, Go, ReleaseAgain, unlockKernel
<1>22. ASSUME NEW a \in Threads, pause(a) PROVE WorkKept'
  BY <1>22 DEF pause, isActive, Paused, releaseAccess, unlockKernel
<1>23. ASSUME NEW a \in Threads, resume(a) PROVE WorkKept'
  BY <1>23 DEF resume, Go, Paused, request
<1>24. ASSUME NEW w \in Workers, runThread(w) PROVE WorkKept'
  BY <1>24 DEF runThread, Go, request
<1>25. ASSUME NEW w \in Workers, workDone(w) PROVE WorkKept'
  BY <1>25 DEF workDone, Go
<1>26. ASSUME NEW w \in Workers, poolActivity(w) PROVE WorkKept'
  <2>1. allActivities' = allActivities \ {w}
    BY <1>26 DEF poolActivity, Leave
  <2>2. activity' = [activity EXCEPT ![w].attach = 0]
    BY <1>26 DEF poolActivity
  <2>3. activity[w].nested = 0 /\ pc[w] = "ending"
    BY <1>26 DEF poolActivity, DepthInv, Idle
  <2>4. CASE pc' = [pc EXCEPT ![w] = "idle"]
    <3>1. ~instance.terminating /\ pool' = pool \cup {w}
      BY <1>26, <2>3, <2>4 DEF poolActivity, notPooled, pooled
    <3>2. activity'[w] = NewActivity
      BY <2>2, <2>3, <3>1 DEF NewActivity, TerminatingInv
    <3>3. \A v \in Workers :
             v # w => activity'[v] = activity[v] /\ pc'[v] = pc[v]
      BY <2>2, <2>4
    <3> HIDE DEF PlacesOK
    <3>4. pc'[w] = "idle"
      BY <2>4 DEF PlacesOK
    <3> QED  BY <2>1, <3>1, <3>2, <3>3, <3>4
  <2>5. CASE pc' = [pc EXCEPT ![w] = "ended"] /\ UNCHANGED pool
    BY <2>1, <2>2, <2>3, <2>5
  <2>6. CASE pc' = [pc EXCEPT ![w] = "refused"] /\ UNCHANGED pool
    BY <2>1, <2>2, <2>3, <2>6
  <2> QED  BY <1>26, <2>4, <2>5, <2>6 DEF poolActivity, notPooled, pooled
<1>27. ASSUME NEW w \in Workers, activityEnded(w) PROVE WorkKept'
  BY <1>27 DEF activityEnded, Go, NewActivity
<1>28. CASE UNCHANGED vars
  BY <1>28 DEF vars
<1> QED
  BY <1>1, <1>2, <1>3, <1>4, <1>5, <1>6, <1>7, <1>8, <1>9, <1>10, <1>11,
      <1>12, <1>13, <1>14, <1>15, <1>16, <1>17, <1>18, <1>19, <1>20, <1>21,
      <1>22, <1>23, <1>24, <1>25, <1>26, <1>27, <1>28
  DEF Next, Attach, Begin, Call, Terminate, Worker

(* A worker's activity stays in the manager's list.                        *)
LEMMA AnchoredStep ==
  PlacesOK /\ WorkKept /\ Anchored /\ [Next]_vars => Anchored'
<1> SUFFICES ASSUME PlacesOK /\ WorkKept /\ Anchored, [Next]_vars PROVE
    Anchored'
  OBVIOUS
<1> USE InstanceAssumption DEF PlacesOK, Threads, access, lists, shutdown,
    Anchored
<1>1. ASSUME NEW a \in Threads, nestAttach(a) PROVE Anchored'
  BY <1>1 DEF nestAttach, MayCall
<1>2. ASSUME NEW a \in Threads, attachThread(a) PROVE Anchored'
  BY <1>2 DEF attachThread, MayCall, Go, request, NewActivity
<1>3. ASSUME NEW a \in Threads, setupAttachedActivity(a) PROVE Anchored'
  BY <1>3 DEF setupAttachedActivity, Go, releaseAccess, unlockKernel
<1>4. ASSUME NEW a \in Threads, returnAttach(a) PROVE Anchored'
  BY <1>4 DEF returnAttach, MayCall, isNestedAttach
<1>5. ASSUME NEW a \in Threads, detachThread(a) PROVE Anchored'
  BY <1>5 DEF detachThread, MayCall, isNestedAttach, Leave, LastOne,
      NewActivity
<1>6. ASSUME NEW a \in Threads, enterCurrentThread(a) PROVE Anchored'
  BY <1>6 DEF enterCurrentThread, MayCall, request
<1>7. ASSUME NEW a \in Threads, NEW w \in Workers, spawnActivity(a, w) PROVE
    Anchored'
  BY <1>7 DEF spawnActivity, reset
<1>8. ASSUME NEW a \in Threads, isInstanceActive(a) PROVE Anchored'
  BY <1>8 DEF isInstanceActive, MayCall, isActive, Go
<1>9. ASSUME NEW a \in Threads, activate(a) PROVE Anchored'
  BY <1>9 DEF activate, Go
<1>10. ASSUME NEW a \in Threads, deactivate(a) PROVE Anchored'
  BY <1>10 DEF deactivate, Go
<1>11. ASSUME NEW a \in Threads, exitCurrentThread(a) PROVE Anchored'
  BY <1>11 DEF exitCurrentThread, Go, isActive, releaseAccess, unlockKernel
<1>12. ASSUME NEW a \in Threads, rootInactive(a) PROVE Anchored'
  BY <1>12 DEF rootInactive, Go, isActive
<1>13. ASSUME NEW a \in Threads, removeInactiveActivities(a) PROVE Anchored'
  BY <1>13 DEF removeInactiveActivities, Go, isActive, Inactive, AtWork,
      AlreadyTerminating
<1>14. ASSUME NEW a \in Threads, terminationWait(a) PROVE Anchored'
  BY <1>14 DEF terminationWait, Go
<1>15. ASSUME NEW a \in Threads, reenterNested(a) PROVE Anchored'
  BY <1>15 DEF reenterNested, Go
<1>16. ASSUME NEW a \in Threads, reenterNew(a) PROVE Anchored'
  BY <1>16 DEF reenterNew, Go
<1>17. ASSUME NEW a \in Threads, requestApiAccess(a) PROVE Anchored'
  BY <1>17 DEF requestApiAccess, Go, request
<1>18. ASSUME NEW a \in Threads, terminateInterpreterInstance(a) PROVE
    Anchored'
  BY <1>18 DEF terminateInterpreterInstance, Go
<1>19. ASSUME NEW a \in Threads, exitAfterUninit(a) PROVE Anchored'
  BY <1>19 DEF exitAfterUninit, Go, releaseAccess, unlockKernel
<1>20. ASSUME NEW a \in Threads, returnRootActivity(a) PROVE Anchored'
  BY <1>20 DEF returnRootActivity, Go
<1>21. ASSUME NEW a \in Threads, terminated(a) PROVE Anchored'
  BY <1>21 DEF terminated, Go, ReleaseAgain, unlockKernel
<1>22. ASSUME NEW a \in Threads, pause(a) PROVE Anchored'
  BY <1>22 DEF pause, isActive, Paused, releaseAccess, unlockKernel
<1>23. ASSUME NEW a \in Threads, resume(a) PROVE Anchored'
  BY <1>23 DEF resume, Go, Paused, request
<1>24. ASSUME NEW w \in Workers, runThread(w) PROVE Anchored'
  BY <1>24 DEF runThread, Go, request
<1>25. ASSUME NEW w \in Workers, workDone(w) PROVE Anchored'
  BY <1>25 DEF workDone, Go
<1>26. ASSUME NEW w \in Workers, poolActivity(w) PROVE Anchored'
  BY <1>26 DEF poolActivity, Leave, LastOne, releaseAccess, unlockKernel,
      pooled, notPooled, PoolFull
<1>27. ASSUME NEW w \in Workers, activityEnded(w) PROVE Anchored'
  BY <1>27 DEF activityEnded, Go, NewActivity
<1>28. CASE UNCHANGED vars
  BY <1>28 DEF vars
<1> QED
  BY <1>1, <1>2, <1>3, <1>4, <1>5, <1>6, <1>7, <1>8, <1>9, <1>10, <1>11,
      <1>12, <1>13, <1>14, <1>15, <1>16, <1>17, <1>18, <1>19, <1>20, <1>21,
      <1>22, <1>23, <1>24, <1>25, <1>26, <1>27, <1>28
  DEF Next, Attach, Begin, Call, Terminate, Worker

(* Where running code may pause.                                           *)
LEMMA PausedPlaces == DOMAIN Paused = {"in", "left", "uninit", "exiting"}
BY DEF Paused

(* Access is taken and given up in pairs.                                  *)
LEMMA AccessStep ==
  PlacesOK /\ ActivitiesOK /\ KernelOK /\ InstanceOK /\ FreeLock /\
  TerminatingInv /\ WorkKept /\ OneShutdown /\ AccessBalanced /\ [Next]_vars
  => AccessBalanced'
<1> SUFFICES ASSUME PlacesOK /\ ActivitiesOK /\ KernelOK /\ InstanceOK /\
    FreeLock /\ TerminatingInv /\ WorkKept /\ OneShutdown /\ AccessBalanced,
    [Next]_vars PROVE AccessBalanced'
  OBVIOUS
<1> USE InstanceAssumption, PausedPlaces DEF PlacesOK, KernelOK, FreeLock,
    Threads, access, lists, shutdown, AccessBalanced, Inside, Dismantling
<1>1. ASSUME NEW a \in Threads, nestAttach(a) PROVE AccessBalanced'
  BY <1>1 DEF nestAttach, MayCall
<1>2. ASSUME NEW a \in Threads, attachThread(a) PROVE AccessBalanced'
  BY <1>2 DEF attachThread, MayCall, Go, request, NewActivity
<1>3. ASSUME NEW a \in Threads, setupAttachedActivity(a) PROVE AccessBalanced'
  BY <1>3 DEF setupAttachedActivity, Go, releaseAccess, unlockKernel
<1>4. ASSUME NEW a \in Threads, returnAttach(a) PROVE AccessBalanced'
  BY <1>4 DEF returnAttach, MayCall, isNestedAttach
<1>5. ASSUME NEW a \in Threads, detachThread(a) PROVE AccessBalanced'
  BY <1>5 DEF detachThread, MayCall, isNestedAttach, Leave, LastOne,
      NewActivity
<1>6. ASSUME NEW a \in Threads, enterCurrentThread(a) PROVE AccessBalanced'
  BY <1>6 DEF enterCurrentThread, MayCall, request
<1>7. ASSUME NEW a \in Threads, NEW w \in Workers, spawnActivity(a, w) PROVE
    AccessBalanced'
  <2>1. pc[w] \in {"none", "idle"} /\ w \in Threads /\ w \notin Natives
    BY <1>7 DEF spawnActivity, WorkKept
  <2>2. /\ pc' = [pc EXCEPT ![w] = "start"]
        /\ UNCHANGED <<kernelLock, currentActivity, created>>
    BY <1>7 DEF spawnActivity
  <2> QED  BY <2>1, <2>2
<1>8. ASSUME NEW a \in Threads, isInstanceActive(a) PROVE AccessBalanced'
  BY <1>8 DEF isInstanceActive, MayCall, isActive, Go
<1>9. ASSUME NEW a \in Threads, activate(a) PROVE AccessBalanced'
  BY <1>9 DEF activate, Go
<1>10. ASSUME NEW a \in Threads, deactivate(a) PROVE AccessBalanced'
  BY <1>10 DEF deactivate, Go
<1>11. ASSUME NEW a \in Threads, exitCurrentThread(a) PROVE AccessBalanced'
  BY <1>11 DEF exitCurrentThread, Go, isActive, releaseAccess, unlockKernel
<1>12. ASSUME NEW a \in Threads, rootInactive(a) PROVE AccessBalanced'
  BY <1>12 DEF rootInactive, Go, isActive
<1>13. ASSUME NEW a \in Threads, removeInactiveActivities(a) PROVE
    AccessBalanced'
  <2>1. /\ \E p \in {"out", "reenter", "waiting"} : Go(a, "gate", p)
        /\ UNCHANGED <<kernelLock, currentActivity, created>>
    BY <1>13, Removed
  <2> QED  BY <2>1 DEF Go
<1>14. ASSUME NEW a \in Threads, terminationWait(a) PROVE AccessBalanced'
  BY <1>14 DEF terminationWait, Go
<1>15. ASSUME NEW a \in Threads, reenterNested(a) PROVE AccessBalanced'
  <2>1. pc[a] = "reenter" /\ a \in Natives
    BY <1>15 DEF reenterNested, Go, WorkerPlaces, CallPlaces
  <2>2. ~created
    BY <2>1 DEF TerminatingInv
  <2>3. /\ pc' = [pc EXCEPT ![a] = "claim"]
        /\ UNCHANGED <<kernelLock, currentActivity, created>>
    BY <1>15 DEF reenterNested, Go
  <2> QED  BY <2>1, <2>2, <2>3
<1>16. ASSUME NEW a \in Threads, reenterNew(a) PROVE AccessBalanced'
  <2>1. pc[a] = "reattached" /\ a \in Natives
    BY <1>16 DEF reenterNew, Go, WorkerPlaces, CallPlaces
  <2>2. ~created
    BY <2>1 DEF TerminatingInv
  <2>3. /\ pc' = [pc EXCEPT ![a] = "claim"] /\ created'
        /\ UNCHANGED <<kernelLock, currentActivity>>
    BY <1>16 DEF reenterNew, Go
  <2>4. \A b \in Threads : b # a => pc[b] \notin {"claim"} \cup Dismantling
    BY <2>1 DEF OneShutdown, Through, WorkerPlaces, CallPlaces, NativePlaces
  <2>5. kernelLock.owner = a /\ kernelLock.count = 1 /\ currentActivity = a
    BY <2>1
  <2> QED  BY <2>1, <2>2, <2>3, <2>4, <2>5
<1>17. ASSUME NEW a \in Threads, requestApiAccess(a) PROVE AccessBalanced'
  BY <1>17 DEF requestApiAccess, Go, request
<1>18. ASSUME NEW a \in Threads, terminateInterpreterInstance(a) PROVE
    AccessBalanced'
  BY <1>18 DEF terminateInterpreterInstance, Go
<1>19. ASSUME NEW a \in Threads, exitAfterUninit(a) PROVE AccessBalanced'
  BY <1>19 DEF exitAfterUninit, Go, releaseAccess, unlockKernel
<1>20. ASSUME NEW a \in Threads, returnRootActivity(a) PROVE AccessBalanced'
  BY <1>20 DEF returnRootActivity, Go
<1>21. ASSUME NEW a \in Threads, terminated(a) PROVE AccessBalanced'
  BY <1>21 DEF terminated, Go, ReleaseAgain, unlockKernel
<1>22. ASSUME NEW a \in Threads, pause(a) PROVE AccessBalanced'
  BY <1>22 DEF pause, isActive, Paused, releaseAccess, unlockKernel
<1>23. ASSUME NEW a \in Threads, resume(a) PROVE AccessBalanced'
  BY <1>23 DEF resume, Go, Paused, request
<1>24. ASSUME NEW w \in Workers, runThread(w) PROVE AccessBalanced'
  BY <1>24 DEF runThread, Go, request
<1>25. ASSUME NEW w \in Workers, workDone(w) PROVE AccessBalanced'
  BY <1>25 DEF workDone, Go
<1>26. ASSUME NEW w \in Workers, poolActivity(w) PROVE AccessBalanced'
  BY <1>26 DEF poolActivity, Leave, LastOne, releaseAccess, unlockKernel,
      pooled, notPooled, PoolFull
<1>27. ASSUME NEW w \in Workers, activityEnded(w) PROVE AccessBalanced'
  BY <1>27 DEF activityEnded, Go, NewActivity
<1>28. CASE UNCHANGED vars
  BY <1>28 DEF vars
<1> QED
  BY <1>1, <1>2, <1>3, <1>4, <1>5, <1>6, <1>7, <1>8, <1>9, <1>10, <1>11,
      <1>12, <1>13, <1>14, <1>15, <1>16, <1>17, <1>18, <1>19, <1>20, <1>21,
      <1>22, <1>23, <1>24, <1>25, <1>26, <1>27, <1>28
  DEF Next, Attach, Begin, Call, Terminate, Worker

(* Whoever leaves last posts the semaphore: the root activity is left.     *)
LEMMA LeaveLast ==
  ASSUME ListsOK, NEW a \in Threads, Leave(a), Root \in allActivities, a #
      Root,
         terminationSem = "reset", terminationSem' # "reset"
  PROVE  allActivities' = {Root}
<1> USE InstanceAssumption
<1>1. allActivities' \subseteq Threads /\ Root \in allActivities'
  BY DEF Leave, ListsOK
<1>2. IsFiniteSet(allActivities')
  BY <1>1, FS_Subset
<1>3. Cardinality(allActivities') <= 1
  BY DEF Leave, LastOne
<1>4. IsFiniteSet({Root}) /\ Cardinality({Root}) = 1
  BY FS_Singleton
<1>5. Cardinality(allActivities') \in Nat
  BY <1>2, FS_CardinalityType
<1>6. /\ Cardinality({Root}) <= Cardinality(allActivities')
      /\ Cardinality({Root}) = Cardinality(allActivities')
           => {Root} = allActivities'
  BY <1>1, <1>2, FS_Subset
<1> QED  BY <1>3, <1>4, <1>5, <1>6

(* Those terminate() waits for are in the list or on the point of leaving. *)
LEMMA HeldStep ==
  PlacesOK /\ ActivitiesOK /\ ListsOK /\ InstanceOK /\ DepthInv /\
  TerminatingInv /\ ListInv /\ WorkKept /\ ThreadsFinishFirst /\ HeldInv /\
  [Next]_vars => HeldInv'
<1> SUFFICES ASSUME PlacesOK /\ ActivitiesOK /\ ListsOK /\ InstanceOK /\
    DepthInv /\ TerminatingInv /\ ListInv /\ WorkKept /\ ThreadsFinishFirst /\
    HeldInv, [Next]_vars PROVE HeldInv'
  OBVIOUS
<1> USE InstanceAssumption, PausedPlaces DEF PlacesOK, ListsOK, access,
    lists, shutdown, Threads, HeldInv, AboutToLeave, Past, Through, Dismantling
<1>1. ASSUME NEW a \in Threads, nestAttach(a) PROVE HeldInv'
  BY <1>1 DEF nestAttach, MayCall
<1>2. ASSUME NEW a \in Threads, attachThread(a) PROVE HeldInv'
  BY <1>2 DEF attachThread, MayCall, Go, request, NewActivity
<1>3. ASSUME NEW a \in Threads, setupAttachedActivity(a) PROVE HeldInv'
  BY <1>3 DEF setupAttachedActivity, Go, releaseAccess, unlockKernel
<1>4. ASSUME NEW a \in Threads, returnAttach(a) PROVE HeldInv'
  BY <1>4 DEF returnAttach, MayCall, isNestedAttach
<1>5. ASSUME NEW a \in Threads, detachThread(a) PROVE HeldInv'
  <2>1. /\ allActivities' = allActivities \ {a} /\ held' = held \ {a}
        /\ UNCHANGED pc /\ a # Root
        /\ terminationSem # "reset" => UNCHANGED terminationSem
    BY <1>5 DEF detachThread, Leave
  <2>2. ASSUME terminationSem = "reset", terminationSem' # "reset"
        PROVE  allActivities' = {Root}
    BY <1>5, <2>1, <2>2, LeaveLast DEF detachThread, ListInv
  <2> QED  BY <2>1, <2>2
<1>6. ASSUME NEW a \in Threads, enterCurrentThread(a) PROVE HeldInv'
  BY <1>6 DEF enterCurrentThread, MayCall, request
<1>7. ASSUME NEW a \in Threads, NEW w \in Workers, spawnActivity(a, w) PROVE
    HeldInv'
  <2>1. /\ pc' = [pc EXCEPT ![w] = "start"]
        /\ allActivities' = allActivities \cup {w}
        /\ held' = IF a \in held THEN held \cup {w} ELSE held
        /\ UNCHANGED terminationSem
        /\ pc[w] \in {"idle", "none"}
    BY <1>7 DEF spawnActivity, WorkKept
  <2>2. pc[a] # "ending"
    BY <1>7 DEF spawnActivity
  <2>3. w # Root /\ w \notin Natives
    OBVIOUS
  <2>4. CASE a \in held
    BY <2>1, <2>2, <2>3, <2>4
  <2>5. CASE a \notin held
    BY <2>1, <2>3, <2>5
  <2> QED  BY <2>4, <2>5
<1>8. ASSUME NEW a \in Threads, isInstanceActive(a) PROVE HeldInv'
  BY <1>8 DEF isInstanceActive, MayCall, isActive, Go
<1>9. ASSUME NEW a \in Threads, activate(a) PROVE HeldInv'
  BY <1>9 DEF activate, Go
<1>10. ASSUME NEW a \in Threads, deactivate(a) PROVE HeldInv'
  BY <1>10 DEF deactivate, Go
<1>11. ASSUME NEW a \in Threads, exitCurrentThread(a) PROVE HeldInv'
  BY <1>11 DEF exitCurrentThread, Go, isActive, releaseAccess, unlockKernel
<1>12. ASSUME NEW a \in Threads, rootInactive(a) PROVE HeldInv'
  BY <1>12 DEF rootInactive, Go, isActive
<1>13. ASSUME NEW a \in Threads, removeInactiveActivities(a) PROVE HeldInv'
  <2>1. CASE AlreadyTerminating
    BY <1>13, <2>1 DEF removeInactiveActivities, Go
  <2>2. CASE ~AlreadyTerminating
    <3>1. /\ held' = AtWork /\ allActivities' = allActivities \ Inactive
          /\ terminationSem = "reset" /\ terminationSem' = "reset"
          /\ Root \in allActivities
      BY <1>13, <2>2 DEF removeInactiveActivities, AlreadyTerminating,
                        TerminatingInv, ListInv
    <3>2. \A b \in AtWork : b \in allActivities' \ {Root} \/ b \in AboutToLeave
      <4> SUFFICES ASSUME NEW b \in AtWork, b \in Inactive
                   PROVE  b \in AboutToLeave
        BY <3>1 DEF AtWork
      <4>1. b \in Workers /\ b \in allActivities /\ ~isActive(b)
        BY DEF AtWork, Inactive
      <4>2. activity[b].nested = 0
        BY <4>1 DEF isActive, ActivitiesOK
      <4> QED
        BY <4>1, <4>2 DEF ListInv, DepthInv, Once, WorkerPlaces, CallPlaces,
                          NativePlaces
    <3>3. \A b \in Natives : b # a => pc[b] \notin Past
      BY <2>2 DEF AlreadyTerminating, TerminatingInv
    <3>4. CASE pc' = [pc EXCEPT ![a] = "waiting"] /\ pc[a] = "gate"
      BY <3>1, <3>2, <3>3, <3>4
    <3>5. CASE /\ pc' = [pc EXCEPT ![a] = "reenter"] /\ pc[a] = "gate"
               /\ Cardinality(allActivities') = 1
      <4>1. allActivities' \subseteq Threads /\ {Root} \subseteq allActivities'
        BY <3>1 DEF Inactive
      <4>2. IsFiniteSet(allActivities')
        BY <4>1, FS_Subset
      <4>3. Cardinality({Root}) = 1
        BY FS_Singleton
      <4>4. allActivities' = {Root}
        BY <3>5, <4>1, <4>2, <4>3, FS_Subset
      <4> QED  BY <3>1, <3>2, <3>3, <3>5, <4>4
    <3> QED  BY <1>13, <2>2, <3>4, <3>5 DEF removeInactiveActivities, Go
  <2> QED  BY <2>1, <2>2
<1>14. ASSUME NEW a \in Threads, terminationWait(a) PROVE HeldInv'
  <2> QED  BY <1>14 DEF terminationWait, Go
<1>15. ASSUME NEW a \in Threads, reenterNested(a) PROVE HeldInv'
  BY <1>15 DEF reenterNested, Go
<1>16. ASSUME NEW a \in Threads, reenterNew(a) PROVE HeldInv'
  BY <1>16 DEF reenterNew, Go
<1>17. ASSUME NEW a \in Threads, requestApiAccess(a) PROVE HeldInv'
  BY <1>17 DEF requestApiAccess, Go, request
<1>18. ASSUME NEW a \in Threads, terminateInterpreterInstance(a) PROVE
    HeldInv'
  BY <1>18 DEF terminateInterpreterInstance, Go
<1>19. ASSUME NEW a \in Threads, exitAfterUninit(a) PROVE HeldInv'
  BY <1>19 DEF exitAfterUninit, Go, releaseAccess, unlockKernel
<1>20. ASSUME NEW a \in Threads, returnRootActivity(a) PROVE HeldInv'
  <2>1. a \in Natives /\ pc[a] = "closing"
    BY <1>20 DEF returnRootActivity, Go, WorkerPlaces, CallPlaces
  <2>2. held = {} /\ held' = {}
    BY <1>20, <2>1 DEF returnRootActivity, ThreadsFinishFirst
  <2> QED  BY <2>2
<1>21. ASSUME NEW a \in Threads, terminated(a) PROVE HeldInv'
  <2>1. a \in Natives /\ pc[a] = "closed"
    BY <1>21 DEF terminated, Go, WorkerPlaces, CallPlaces
  <2>2. held = {} /\ held' = {}
    BY <1>21, <2>1 DEF terminated, ThreadsFinishFirst
  <2> QED  BY <2>2
<1>22. ASSUME NEW a \in Threads, pause(a) PROVE HeldInv'
  BY <1>22 DEF pause, isActive, Paused, releaseAccess, unlockKernel
<1>23. ASSUME NEW a \in Threads, resume(a) PROVE HeldInv'
  BY <1>23 DEF resume, Go, Paused, request
<1>24. ASSUME NEW w \in Workers, runThread(w) PROVE HeldInv'
  BY <1>24 DEF runThread, Go, request
<1>25. ASSUME NEW w \in Workers, workDone(w) PROVE HeldInv'
  BY <1>25 DEF workDone, Go
<1>26. ASSUME NEW w \in Workers, poolActivity(w) PROVE HeldInv'
  <2>1. /\ allActivities' = allActivities \ {w} /\ held' = held \ {w}
        /\ terminationSem # "reset" => UNCHANGED terminationSem
    BY <1>26 DEF poolActivity, Leave
  <2>2. \A b \in Threads : b # w => pc'[b] = pc[b]
    BY <1>26 DEF poolActivity, notPooled, pooled
  <2>3. ASSUME terminationSem = "reset", terminationSem' # "reset"
        PROVE  allActivities' = {Root}
    BY <1>26, <2>3, LeaveLast DEF poolActivity, ListInv
  <2> QED  BY <2>1, <2>2, <2>3
<1>27. ASSUME NEW w \in Workers, activityEnded(w) PROVE HeldInv'
  BY <1>27 DEF activityEnded, Go, NewActivity
<1>28. CASE UNCHANGED vars
  BY <1>28 DEF vars
<1> QED
  BY <1>1, <1>2, <1>3, <1>4, <1>5, <1>6, <1>7, <1>8, <1>9, <1>10, <1>11,
      <1>12, <1>13, <1>14, <1>15, <1>16, <1>17, <1>18, <1>19, <1>20, <1>21,
      <1>22, <1>23, <1>24, <1>25, <1>26, <1>27, <1>28
  DEF Next, Attach, Begin, Call, Terminate, Worker

(* When terminate() gets access, nobody is on the point of leaving: such a *)
(* thread would have it.                                                   *)
LEMMA FinishStep ==
  PlacesOK /\ ActivitiesOK /\ InstanceOK /\ ListsOK /\ TerminatingInv /\
  AccessBalanced /\ HeldInv /\ ThreadsFinishFirst /\ [Next]_vars =>
  ThreadsFinishFirst'
<1> SUFFICES ASSUME PlacesOK /\ ActivitiesOK /\ InstanceOK /\ ListsOK /\
    TerminatingInv /\ AccessBalanced /\ HeldInv /\ ThreadsFinishFirst,
    [Next]_vars PROVE ThreadsFinishFirst'
  OBVIOUS
<1> USE InstanceAssumption DEF PlacesOK, ListsOK, access, lists, shutdown,
    Threads, ThreadsFinishFirst, Past, Through, Dismantling
<1>1. ASSUME NEW a \in Threads, nestAttach(a) PROVE ThreadsFinishFirst'
  BY <1>1 DEF nestAttach, MayCall
<1>2. ASSUME NEW a \in Threads, attachThread(a) PROVE ThreadsFinishFirst'
  BY <1>2 DEF attachThread, MayCall, Go, request, NewActivity
<1>3. ASSUME NEW a \in Threads, setupAttachedActivity(a) PROVE
    ThreadsFinishFirst'
  BY <1>3 DEF setupAttachedActivity, Go, releaseAccess, unlockKernel
<1>4. ASSUME NEW a \in Threads, returnAttach(a) PROVE ThreadsFinishFirst'
  BY <1>4 DEF returnAttach, MayCall, isNestedAttach
<1>5. ASSUME NEW a \in Threads, detachThread(a) PROVE ThreadsFinishFirst'
  BY <1>5 DEF detachThread, MayCall, isNestedAttach, Leave, LastOne,
      NewActivity
<1>6. ASSUME NEW a \in Threads, enterCurrentThread(a) PROVE
    ThreadsFinishFirst'
  BY <1>6 DEF enterCurrentThread, MayCall, request
<1>7. ASSUME NEW a \in Threads, NEW w \in Workers, spawnActivity(a, w) PROVE
    ThreadsFinishFirst'
  BY <1>7 DEF spawnActivity, reset
<1>8. ASSUME NEW a \in Threads, isInstanceActive(a) PROVE ThreadsFinishFirst'
  BY <1>8 DEF isInstanceActive, MayCall, isActive, Go
<1>9. ASSUME NEW a \in Threads, activate(a) PROVE ThreadsFinishFirst'
  BY <1>9 DEF activate, Go
<1>10. ASSUME NEW a \in Threads, deactivate(a) PROVE ThreadsFinishFirst'
  BY <1>10 DEF deactivate, Go
<1>11. ASSUME NEW a \in Threads, exitCurrentThread(a) PROVE
    ThreadsFinishFirst'
  BY <1>11 DEF exitCurrentThread, Go, isActive, releaseAccess, unlockKernel
<1>12. ASSUME NEW a \in Threads, rootInactive(a) PROVE ThreadsFinishFirst'
  BY <1>12 DEF rootInactive, Go, isActive
<1>13. ASSUME NEW a \in Threads, removeInactiveActivities(a) PROVE
    ThreadsFinishFirst'
  <2>1. CASE UNCHANGED held /\ Go(a, "gate", "out")
    BY <2>1 DEF Go
  <2>2. CASE /\ ~instance.terminating
             /\ Go(a, "gate", "reenter") \/ Go(a, "gate", "waiting")
    BY <2>2 DEF Go, TerminatingInv
  <2> QED  BY <1>13, <2>1, <2>2, Removed
<1>14. ASSUME NEW a \in Threads, terminationWait(a) PROVE ThreadsFinishFirst'
  BY <1>14 DEF terminationWait, Go
<1>15. ASSUME NEW a \in Threads, reenterNested(a) PROVE ThreadsFinishFirst'
  BY <1>15 DEF reenterNested, Go
<1>16. ASSUME NEW a \in Threads, reenterNew(a) PROVE ThreadsFinishFirst'
  BY <1>16 DEF reenterNew, Go
<1>17. ASSUME NEW a \in Threads, requestApiAccess(a) PROVE ThreadsFinishFirst'
  <2>1. pc[a] = "claim" /\ a \in Natives /\ kernelLock.owner \in {None, a}
    BY <1>17 DEF requestApiAccess, request, Go, WorkerPlaces, CallPlaces
  <2>2. AboutToLeave = {}
    BY <2>1 DEF AboutToLeave, AccessBalanced, Inside
  <2>3. held = {}
    BY <2>1, <2>2 DEF HeldInv
  <2> QED  BY <1>17, <2>3 DEF requestApiAccess
<1>18. ASSUME NEW a \in Threads, terminateInterpreterInstance(a) PROVE
    ThreadsFinishFirst'
  BY <1>18 DEF terminateInterpreterInstance, Go
<1>19. ASSUME NEW a \in Threads, exitAfterUninit(a) PROVE ThreadsFinishFirst'
  BY <1>19 DEF exitAfterUninit, Go, releaseAccess, unlockKernel
<1>20. ASSUME NEW a \in Threads, returnRootActivity(a) PROVE
    ThreadsFinishFirst'
  BY <1>20 DEF returnRootActivity, Go
<1>21. ASSUME NEW a \in Threads, terminated(a) PROVE ThreadsFinishFirst'
  BY <1>21 DEF terminated, Go, ReleaseAgain, unlockKernel
<1>22. ASSUME NEW a \in Threads, pause(a) PROVE ThreadsFinishFirst'
  BY <1>22 DEF pause, isActive, Paused, releaseAccess, unlockKernel
<1>23. ASSUME NEW a \in Threads, resume(a) PROVE ThreadsFinishFirst'
  BY <1>23 DEF resume, Go, Paused, request
<1>24. ASSUME NEW w \in Workers, runThread(w) PROVE ThreadsFinishFirst'
  BY <1>24 DEF runThread, Go, request
<1>25. ASSUME NEW w \in Workers, workDone(w) PROVE ThreadsFinishFirst'
  BY <1>25 DEF workDone, Go
<1>26. ASSUME NEW w \in Workers, poolActivity(w) PROVE ThreadsFinishFirst'
  BY <1>26 DEF poolActivity, Leave, LastOne, releaseAccess, unlockKernel,
      pooled, notPooled, PoolFull
<1>27. ASSUME NEW w \in Workers, activityEnded(w) PROVE ThreadsFinishFirst'
  BY <1>27 DEF activityEnded, Go, NewActivity
<1>28. CASE UNCHANGED vars
  BY <1>28 DEF vars
<1> QED
  BY <1>1, <1>2, <1>3, <1>4, <1>5, <1>6, <1>7, <1>8, <1>9, <1>10, <1>11,
      <1>12, <1>13, <1>14, <1>15, <1>16, <1>17, <1>18, <1>19, <1>20, <1>21,
      <1>22, <1>23, <1>24, <1>25, <1>26, <1>27, <1>28
  DEF Next, Attach, Begin, Call, Terminate, Worker

-----------------------------------------------------------------------------
LEMMA Types ==
  TypeOK <=> PlacesOK /\ ActivitiesOK /\ KernelOK /\ InstanceOK /\ ListsOK
BY DEF TypeOK, PlacesOK, ActivitiesOK, KernelOK, InstanceOK, ListsOK

LEMMA TypesNext ==
  TypeOK' <=> PlacesOK' /\ ActivitiesOK' /\ KernelOK' /\ InstanceOK' /\ ListsOK'
BY DEF TypeOK, PlacesOK, ActivitiesOK, KernelOK, InstanceOK, ListsOK

(* The state createInstance() leaves.                                      *)
LEMMA InitInv == Init => IInv
<1> SUFFICES ASSUME Init PROVE IInv
  OBVIOUS
<1> USE InstanceAssumption DEF Init, Threads
<1>1. PlacesOK
  BY DEF PlacesOK, CallPlaces, NativePlaces, WorkerPlaces, Dismantling
<1>2. ASSUME NEW a \in Threads
      PROVE  /\ activity[a].nested = 0 /\ ~activity[a].exit
             /\ activity[a].attach \in 0..1
             /\ a \in Workers => activity[a] = NewActivity
             /\ a \in Workers => activity[a].attach = 0
  <2>1. activity[a] = [nested |-> 0, attach |-> IF a = Root THEN 1 ELSE 0,
                       exit |-> FALSE]
    BY <1>2
  <2>2. a \in Workers => a # Root
    BY DEF InstanceAssumption
  <2> HIDE DEF Init
  <2>3. /\ activity[a].nested = 0 /\ activity[a].exit = FALSE
        /\ activity[a].attach = IF a = Root THEN 1 ELSE 0
    BY <2>1
  <2>4. CASE a = Root
    BY <2>2, <2>3, <2>4
  <2>5. CASE a # Root
    BY <2>1, <2>3, <2>5 DEF NewActivity
  <2> QED  BY <2>4, <2>5
<1>3. ActivitiesOK
  <2> DEFINE Fresh(a) ==
        [nested |-> 0, attach |-> IF a = Root THEN 1 ELSE 0, exit |-> FALSE]
  <2>1. ASSUME NEW a \in Threads
        PROVE  /\ Fresh(a) \in [nested : Nat, attach : 0..(MaxAttach + 1),
                                exit : BOOLEAN]
               /\ Fresh(a).nested <= MaxNest[a]
    <3> HIDE DEF Init
    <3>1. MaxAttach \in Nat /\ MaxNest[a] \in Nat
      BY DEF InstanceAssumption
    <3> QED  BY <3>1
  <2>2. activity = [a \in Threads |-> Fresh(a)]
    OBVIOUS
  <2> HIDE DEF Fresh, Init
  <2> QED  BY <2>1, <2>2 DEF ActivitiesOK
<1>4. KernelOK /\ FreeLock
  BY DEF KernelOK, FreeLock
<1>5. InstanceOK
  <2>1. /\ instance = [listed |-> TRUE, terminating |-> FALSE, root |-> TRUE]
        /\ terminationSem = "reset" /\ created = FALSE /\ spawns = 0
    OBVIOUS
  <2> HIDE DEF Init
  <2>2. instance \in [listed : BOOLEAN, terminating : BOOLEAN, root : BOOLEAN]
    BY <2>1
  <2>3. spawns \in 0..MaxSpawns
    BY <2>1 DEF InstanceAssumption
  <2> QED  BY <2>1, <2>2, <2>3 DEF InstanceOK
<1>6. ListsOK
  BY FS_EmptySet DEF ListsOK
<1>7. DepthInv
  BY <1>2 DEF DepthInv, Idle, Once
<1>8. AttachInv
  <2>1. \A a \in Threads : activity[a].attach <= MaxAttach
    <3> HIDE DEF Init
    <3> QED  BY <1>2 DEF InstanceAssumption
  <2> QED  BY <2>1 DEF AttachInv
<1>9. TerminatingInv
  BY <1>2 DEF TerminatingInv, Past, Through, Dismantling
<1>10. ListInv
  BY <1>2 DEF ListInv, Past, Through, Dismantling
<1>11. HeldInv
  BY DEF HeldInv
<1>12. OneShutdown /\ ThreadsFinishFirst
  BY DEF OneShutdown, ThreadsFinishFirst, Through, Dismantling
<1>13. AccessBalanced
  BY PausedPlaces DEF AccessBalanced, Inside, Dismantling
<1>14. WorkKept /\ Anchored
  BY DEF WorkKept, Anchored
<1> QED
  BY <1>1, <1>3, <1>4, <1>5, <1>6, <1>7, <1>8, <1>9, <1>10, <1>11, <1>12,
     <1>13, <1>14, Types DEF IInv

(* Every step keeps the invariant.                                         *)
LEMMA InvStep == IInv /\ [Next]_vars => IInv'
BY Types, PlaceStep, ActivityStep, KernelStep, InstanceStep, ListsStep,
   DepthStep, AttachStep, OneStep, TerminatingStep, ListStep, WorkStep,
   AnchoredStep, AccessStep, HeldStep, FinishStep, TypesNext DEF IInv

(* The inductive invariant holds in every reachable state of an instance.  *)
THEOREM Invariant == Spec => []IInv
<1>1. Init => IInv  BY InitInv
<1>2. IInv /\ [Next]_vars => IInv'  BY InvStep
<1> QED  BY <1>1, <1>2, PTL DEF Spec

(* The types of the variables; the pool never holds more than one thread   *)
(* above MAX_THREAD_POOL_SIZE (ActivityManager.cpp:650).                   *)
THEOREM TypesHold == Spec => []TypeOK
BY Invariant, PTL DEF IInv

(* terminate() takes the instance apart only after the threads that worked *)
(* for it, and the ones they spawned, have left it                         *)
(* (InterpreterInstance.cpp:558).                                          *)
THEOREM FinishFirst == Spec => []ThreadsFinishFirst
BY Invariant, PTL DEF IInv

(* However many threads call terminate(), one takes the instance apart     *)
(* (InterpreterInstance.cpp:540).                                          *)
THEOREM ShutdownOnce == Spec => []OneShutdown
BY Invariant, PTL DEF IInv

(* Kernel access is held where Rexx code runs and nowhere else, apart from *)
(* a terminate() on a thread it has attached itself                        *)
(* (InterpreterInstance.cpp:638).                                          *)
THEOREM AccessPaired == Spec => []AccessBalanced
BY Invariant, PTL DEF IInv

(* A thread given work is never told to exit instead of running it         *)
(* (Activity.cpp:419).                                                     *)
THEOREM WorkNotLost == Spec => []WorkKept
BY Invariant, PTL DEF IInv

(* The activity of a thread that still runs is in the manager's list, but  *)
(* for one a full pool has refused (ActivityManager.cpp:656).              *)
THEOREM StaysAnchored == Spec => []Anchored
BY Invariant, PTL DEF IInv
-----------------------------------------------------------------------------
(* The abstract shutdown.  Four steps of terminate() move its stage; no    *)
(* other step takes a thread into terminate(), past the check, or out.     *)
Turning ==
    \E a \in Threads :
        \/ removeInactiveActivities(a) /\ ~AlreadyTerminating
        \/ requestApiAccess(a) \/ returnRootActivity(a) \/ terminated(a)
SamePlaces ==
    /\ instance'.terminating = instance.terminating
    /\ instance'.root = instance.root
    /\ \A b \in Natives : /\ pc'[b] \in Through <=> pc[b] \in Through
                          /\ pc'[b] \in Dismantling <=> pc[b] \in Dismantling

LEMMA OnlyTerminateTurns ==
  PlacesOK /\ InstanceOK /\ [Next]_vars => Turning \/ SamePlaces
<1> SUFFICES ASSUME PlacesOK /\ InstanceOK, [Next]_vars
             PROVE  Turning \/ SamePlaces
  OBVIOUS
<1> USE InstanceAssumption, PausedPlaces DEF PlacesOK, InstanceOK, Threads,
    access, lists, shutdown, SamePlaces, Through, Dismantling
<1>1. ASSUME NEW a \in Threads, nestAttach(a) PROVE Turning \/ SamePlaces
  BY <1>1 DEF nestAttach, MayCall
<1>2. ASSUME NEW a \in Threads, attachThread(a) PROVE Turning \/ SamePlaces
  BY <1>2 DEF attachThread, MayCall, Go, request, NewActivity
<1>3. ASSUME NEW a \in Threads, setupAttachedActivity(a) PROVE
    Turning \/ SamePlaces
  BY <1>3 DEF setupAttachedActivity, Go, releaseAccess, unlockKernel
<1>4. ASSUME NEW a \in Threads, returnAttach(a) PROVE Turning \/ SamePlaces
  BY <1>4 DEF returnAttach, MayCall, isNestedAttach
<1>5. ASSUME NEW a \in Threads, detachThread(a) PROVE Turning \/ SamePlaces
  BY <1>5 DEF detachThread, MayCall, isNestedAttach, Leave, LastOne,
      NewActivity
<1>6. ASSUME NEW a \in Threads, enterCurrentThread(a) PROVE
    Turning \/ SamePlaces
  BY <1>6 DEF enterCurrentThread, MayCall, request
<1>7. ASSUME NEW a \in Threads, NEW w \in Workers, spawnActivity(a, w) PROVE
    Turning \/ SamePlaces
  BY <1>7 DEF spawnActivity, reset
<1>8. ASSUME NEW a \in Threads, isInstanceActive(a) PROVE
    Turning \/ SamePlaces
  BY <1>8 DEF isInstanceActive, MayCall, isActive, Go
<1>9. ASSUME NEW a \in Threads, activate(a) PROVE Turning \/ SamePlaces
  BY <1>9 DEF activate, Go
<1>10. ASSUME NEW a \in Threads, deactivate(a) PROVE Turning \/ SamePlaces
  BY <1>10 DEF deactivate, Go
<1>11. ASSUME NEW a \in Threads, exitCurrentThread(a) PROVE
    Turning \/ SamePlaces
  BY <1>11 DEF exitCurrentThread, Go, isActive, releaseAccess, unlockKernel
<1>12. ASSUME NEW a \in Threads, rootInactive(a) PROVE Turning \/ SamePlaces
  BY <1>12 DEF rootInactive, Go, isActive
<1>13. ASSUME NEW a \in Threads, removeInactiveActivities(a) PROVE
    Turning \/ SamePlaces
  <2>1. CASE AlreadyTerminating
    BY <1>13, <2>1 DEF removeInactiveActivities, Go
  <2>2. CASE ~AlreadyTerminating
    BY <1>13, <2>2 DEF Turning
  <2> QED  BY <2>1, <2>2
<1>14. ASSUME NEW a \in Threads, terminationWait(a) PROVE
    Turning \/ SamePlaces
  BY <1>14 DEF terminationWait, Go
<1>15. ASSUME NEW a \in Threads, reenterNested(a) PROVE Turning \/ SamePlaces
  BY <1>15 DEF reenterNested, Go
<1>16. ASSUME NEW a \in Threads, reenterNew(a) PROVE Turning \/ SamePlaces
  BY <1>16 DEF reenterNew, Go
<1>17. ASSUME NEW a \in Threads, requestApiAccess(a) PROVE
    Turning \/ SamePlaces
  BY <1>17 DEF Turning
<1>18. ASSUME NEW a \in Threads, terminateInterpreterInstance(a) PROVE
    Turning \/ SamePlaces
  BY <1>18 DEF terminateInterpreterInstance, Go
<1>19. ASSUME NEW a \in Threads, exitAfterUninit(a) PROVE
    Turning \/ SamePlaces
  BY <1>19 DEF exitAfterUninit, Go, releaseAccess, unlockKernel
<1>20. ASSUME NEW a \in Threads, returnRootActivity(a) PROVE
    Turning \/ SamePlaces
  BY <1>20 DEF Turning
<1>21. ASSUME NEW a \in Threads, terminated(a) PROVE Turning \/ SamePlaces
  BY <1>21 DEF Turning
<1>22. ASSUME NEW a \in Threads, pause(a) PROVE Turning \/ SamePlaces
  BY <1>22 DEF pause, isActive, Paused, releaseAccess, unlockKernel
<1>23. ASSUME NEW a \in Threads, resume(a) PROVE Turning \/ SamePlaces
  BY <1>23 DEF resume, Go, Paused, request
<1>24. ASSUME NEW w \in Workers, runThread(w) PROVE Turning \/ SamePlaces
  BY <1>24 DEF runThread, Go, request
<1>25. ASSUME NEW w \in Workers, workDone(w) PROVE Turning \/ SamePlaces
  BY <1>25 DEF workDone, Go
<1>26. ASSUME NEW w \in Workers, poolActivity(w) PROVE Turning \/ SamePlaces
  BY <1>26 DEF poolActivity, Leave, LastOne, releaseAccess, unlockKernel,
      pooled, notPooled, PoolFull
<1>27. ASSUME NEW w \in Workers, activityEnded(w) PROVE Turning \/ SamePlaces
  BY <1>27 DEF activityEnded, Go, NewActivity
<1>28. CASE UNCHANGED vars
  BY <1>28 DEF vars
<1> QED
  BY <1>1, <1>2, <1>3, <1>4, <1>5, <1>6, <1>7, <1>8, <1>9, <1>10, <1>11,
     <1>12, <1>13, <1>14, <1>15, <1>16, <1>17, <1>18, <1>19, <1>20, <1>21,
     <1>22, <1>23, <1>24, <1>25, <1>26, <1>27, <1>28
  DEF Next, Attach, Begin, Call, Terminate, Worker, Turning

(* Whom terminate() has to wait for: one may leave, and one of them may    *)
(* spawn one more.                                                         *)
HeldMoves ==
    \/ held' = held
    \/ \E b \in Threads : held' = held \ {b}
    \/ \E b \in held, c \in Threads : held' = held \cup {c}

LEMMA HeldOnlyShared ==
  InstanceOK /\ TerminatingInv /\ instance.terminating /\ [Next]_vars
     => HeldMoves
<1> SUFFICES ASSUME InstanceOK, TerminatingInv, instance.terminating,
                    [Next]_vars
             PROVE  HeldMoves
  OBVIOUS
<1> USE DEF Threads, access, lists, shutdown, HeldMoves
<1>1. ASSUME NEW a \in Threads, nestAttach(a) PROVE HeldMoves
  BY <1>1 DEF nestAttach, MayCall
<1>2. ASSUME NEW a \in Threads, attachThread(a) PROVE HeldMoves
  BY <1>2 DEF attachThread, MayCall, Go, request, NewActivity
<1>3. ASSUME NEW a \in Threads, setupAttachedActivity(a) PROVE HeldMoves
  BY <1>3 DEF setupAttachedActivity, Go, releaseAccess, unlockKernel
<1>4. ASSUME NEW a \in Threads, returnAttach(a) PROVE HeldMoves
  BY <1>4 DEF returnAttach, MayCall, isNestedAttach
<1>5. ASSUME NEW a \in Threads, detachThread(a) PROVE HeldMoves
  BY <1>5 DEF detachThread, MayCall, isNestedAttach, Leave, LastOne,
      NewActivity
<1>6. ASSUME NEW a \in Threads, enterCurrentThread(a) PROVE HeldMoves
  BY <1>6 DEF enterCurrentThread, MayCall, request
<1>7. ASSUME NEW a \in Threads, NEW w \in Workers, spawnActivity(a, w) PROVE
    HeldMoves
  BY <1>7 DEF spawnActivity, reset
<1>8. ASSUME NEW a \in Threads, isInstanceActive(a) PROVE HeldMoves
  BY <1>8 DEF isInstanceActive, MayCall, isActive, Go
<1>9. ASSUME NEW a \in Threads, activate(a) PROVE HeldMoves
  BY <1>9 DEF activate, Go
<1>10. ASSUME NEW a \in Threads, deactivate(a) PROVE HeldMoves
  BY <1>10 DEF deactivate, Go
<1>11. ASSUME NEW a \in Threads, exitCurrentThread(a) PROVE HeldMoves
  BY <1>11 DEF exitCurrentThread, Go, isActive, releaseAccess, unlockKernel
<1>12. ASSUME NEW a \in Threads, rootInactive(a) PROVE HeldMoves
  BY <1>12 DEF rootInactive, Go, isActive
<1>13. ASSUME NEW a \in Threads, removeInactiveActivities(a) PROVE HeldMoves
  BY <1>13 DEF removeInactiveActivities, AlreadyTerminating
<1>14. ASSUME NEW a \in Threads, terminationWait(a) PROVE HeldMoves
  BY <1>14 DEF terminationWait, Go
<1>15. ASSUME NEW a \in Threads, reenterNested(a) PROVE HeldMoves
  BY <1>15 DEF reenterNested, Go
<1>16. ASSUME NEW a \in Threads, reenterNew(a) PROVE HeldMoves
  BY <1>16 DEF reenterNew, Go
<1>17. ASSUME NEW a \in Threads, requestApiAccess(a) PROVE HeldMoves
  BY <1>17 DEF requestApiAccess, Go, request
<1>18. ASSUME NEW a \in Threads, terminateInterpreterInstance(a) PROVE
    HeldMoves
  BY <1>18 DEF terminateInterpreterInstance, Go
<1>19. ASSUME NEW a \in Threads, exitAfterUninit(a) PROVE HeldMoves
  BY <1>19 DEF exitAfterUninit, Go, releaseAccess, unlockKernel
<1>20. ASSUME NEW a \in Threads, returnRootActivity(a) PROVE HeldMoves
  BY <1>20 DEF returnRootActivity, Go
<1>21. ASSUME NEW a \in Threads, terminated(a) PROVE HeldMoves
  BY <1>21 DEF terminated, Go, ReleaseAgain, unlockKernel
<1>22. ASSUME NEW a \in Threads, pause(a) PROVE HeldMoves
  BY <1>22 DEF pause, isActive, Paused, releaseAccess, unlockKernel
<1>23. ASSUME NEW a \in Threads, resume(a) PROVE HeldMoves
  BY <1>23 DEF resume, Go, Paused, request
<1>24. ASSUME NEW w \in Workers, runThread(w) PROVE HeldMoves
  BY <1>24 DEF runThread, Go, request
<1>25. ASSUME NEW w \in Workers, workDone(w) PROVE HeldMoves
  BY <1>25 DEF workDone, Go
<1>26. ASSUME NEW w \in Workers, poolActivity(w) PROVE HeldMoves
  BY <1>26 DEF poolActivity, Leave, LastOne, releaseAccess, unlockKernel,
      pooled, notPooled, PoolFull
<1>27. ASSUME NEW w \in Workers, activityEnded(w) PROVE HeldMoves
  BY <1>27 DEF activityEnded, Go, NewActivity
<1>28. CASE UNCHANGED vars
  BY <1>28 DEF vars
<1> QED
  BY <1>1, <1>2, <1>3, <1>4, <1>5, <1>6, <1>7, <1>8, <1>9, <1>10, <1>11,
     <1>12, <1>13, <1>14, <1>15, <1>16, <1>17, <1>18, <1>19, <1>20, <1>21,
     <1>22, <1>23, <1>24, <1>25, <1>26, <1>27, <1>28
  DEF Next, Attach, Begin, Call, Terminate, Worker, Turning

(* Before it is called: one thread comes to work or goes.                  *)
WorkMoves ==
    \/ AtWork' = AtWork
    \/ \E b \in Threads : AtWork' = AtWork \ {b} \/ AtWork' = AtWork \cup {b}

LEMMA WorkUnchanged ==
  ASSUME UNCHANGED allActivities,
         \A b \in Natives : b \in allActivities => isActive(b)' = isActive(b),
         ListsOK
  PROVE  WorkMoves
BY DEF WorkMoves, AtWork, ListsOK, Threads

LEMMA WorkComesAndGoes ==
  /\ PlacesOK /\ ActivitiesOK /\ ListsOK /\ InstanceOK /\ DepthInv
  /\ TerminatingInv
  /\ ~instance.terminating /\ ~instance'.terminating /\ [Next]_vars
  => WorkMoves
<1> SUFFICES ASSUME PlacesOK, ActivitiesOK, ListsOK, InstanceOK, DepthInv,
                    TerminatingInv,
                    ~instance.terminating, ~instance'.terminating, [Next]_vars
             PROVE  WorkMoves
  OBVIOUS
<1> USE InstanceAssumption DEF Threads, access, lists, shutdown, WorkMoves,
    PlacesOK, ActivitiesOK, ListsOK, InstanceOK
<1>1. ASSUME NEW a \in Threads, nestAttach(a) PROVE WorkMoves
  <2>1. \A b \in Threads : activity'[b].nested = activity[b].nested
    BY <1>1 DEF nestAttach
  <2> QED  BY <1>1, <2>1, WorkUnchanged DEF nestAttach, isActive
<1>2. ASSUME NEW a \in Threads, attachThread(a) PROVE WorkMoves
  <2>1. \A b \in allActivities : activity'[b] = activity[b]
    BY <1>2 DEF attachThread
  <2> QED  BY <1>2, <2>1, WorkUnchanged DEF attachThread, isActive
<1>3. ASSUME NEW a \in Threads, setupAttachedActivity(a) PROVE WorkMoves
  <2>1. a \notin Workers /\ activity[a].nested = 0
    BY <1>3 DEF setupAttachedActivity, Go, PlacesOK, NativePlaces,
        DepthInv, Idle
  <2>2. \A b \in Threads : activity'[b].nested = activity[b].nested
    BY <1>3 DEF setupAttachedActivity
  <2>3. AtWork' = AtWork
    BY <1>3, <2>1, <2>2 DEF setupAttachedActivity, AtWork, isActive
  <2> QED  BY <2>3
<1>4. ASSUME NEW a \in Threads, returnAttach(a) PROVE WorkMoves
  <2>1. \A b \in Threads : activity'[b].nested = activity[b].nested
    BY <1>4 DEF returnAttach
  <2> QED  BY <1>4, <2>1, WorkUnchanged DEF returnAttach, isActive
<1>5. ASSUME NEW a \in Threads, detachThread(a) PROVE WorkMoves
  <2>1. \A b \in allActivities \ {a} : activity'[b] = activity[b]
    BY <1>5 DEF detachThread
  <2>2. AtWork' = AtWork \ {a}
    BY <1>5, <2>1 DEF detachThread, Leave, AtWork, isActive
  <2> QED  BY <2>2
<1>6. ASSUME NEW a \in Threads, enterCurrentThread(a) PROVE WorkMoves
  BY <1>6, WorkUnchanged DEF enterCurrentThread, isActive
<1>7. ASSUME NEW a \in Threads, NEW w \in Workers, spawnActivity(a, w) PROVE
    WorkMoves
  <2>1. \A b \in Threads \ {w} : activity'[b] = activity[b]
    BY <1>7 DEF spawnActivity
  <2>2. AtWork' = AtWork \cup {w}
    BY <1>7, <2>1 DEF spawnActivity, AtWork, isActive
  <2> QED  BY <2>2
<1>8. ASSUME NEW a \in Threads, isInstanceActive(a) PROVE WorkMoves
  BY <1>8, WorkUnchanged DEF isInstanceActive, isActive
<1>9. ASSUME NEW a \in Threads, activate(a) PROVE WorkMoves
  <2>1. \A b \in Threads \ {a} : activity'[b] = activity[b]
    BY <1>9 DEF activate
  <2>2. activity'[a].nested = activity[a].nested + 1
    BY <1>9 DEF activate
  <2>3. isActive(a)'
    BY <2>2 DEF isActive
  <2>4. UNCHANGED allActivities
    BY <1>9 DEF activate
  <2>5. \A b \in Threads \ {a} : isActive(b)' = isActive(b)
    BY <2>1 DEF isActive
  <2> HIDE DEF isActive
  <2>6. AtWork' = AtWork \/ AtWork' = AtWork \cup {a}
    BY <2>3, <2>4, <2>5 DEF AtWork
  <2> QED  BY <2>6
<1>10. ASSUME NEW a \in Threads, deactivate(a) PROVE WorkMoves
  <2>1. \A b \in Threads \ {a} : activity'[b] = activity[b]
    BY <1>10 DEF deactivate
  <2>2. activity'[a].nested = activity[a].nested - 1
    BY <1>10 DEF deactivate
  <2>3. UNCHANGED allActivities
    BY <1>10 DEF deactivate
  <2>4. isActive(a)' => isActive(a)
    BY <2>2 DEF isActive
  <2>5. \A b \in Threads \ {a} : isActive(b)' = isActive(b)
    BY <2>1 DEF isActive
  <2>6. AtWork' = AtWork \/ AtWork' = AtWork \ {a}
    BY <2>3, <2>4, <2>5 DEF AtWork
  <2> QED  BY <2>6
<1>11. ASSUME NEW a \in Threads, exitCurrentThread(a) PROVE WorkMoves
  BY <1>11, WorkUnchanged DEF exitCurrentThread, isActive
<1>12. ASSUME NEW a \in Threads, rootInactive(a) PROVE WorkMoves
  BY <1>12, WorkUnchanged DEF rootInactive, isActive
<1>13. ASSUME NEW a \in Threads, removeInactiveActivities(a) PROVE WorkMoves
  BY <1>13 DEF removeInactiveActivities, AlreadyTerminating
<1>14. ASSUME NEW a \in Threads, terminationWait(a) PROVE WorkMoves
  BY <1>14 DEF terminationWait, Go, TerminatingInv, Past, Through, Dismantling,
      WorkerPlaces, CallPlaces
<1>15. ASSUME NEW a \in Threads, reenterNested(a) PROVE WorkMoves
  BY <1>15 DEF reenterNested, Go, TerminatingInv, Past, Through, Dismantling,
      WorkerPlaces, CallPlaces
<1>16. ASSUME NEW a \in Threads, reenterNew(a) PROVE WorkMoves
  BY <1>16 DEF reenterNew, Go, TerminatingInv, Past, Through, Dismantling,
      WorkerPlaces, CallPlaces
<1>17. ASSUME NEW a \in Threads, requestApiAccess(a) PROVE WorkMoves
  BY <1>17 DEF requestApiAccess, Go, TerminatingInv, Past, Through,
      Dismantling, WorkerPlaces, CallPlaces
<1>18. ASSUME NEW a \in Threads, terminateInterpreterInstance(a) PROVE
    WorkMoves
  BY <1>18 DEF terminateInterpreterInstance, Go, TerminatingInv, Past,
      Through, Dismantling, WorkerPlaces, CallPlaces
<1>19. ASSUME NEW a \in Threads, exitAfterUninit(a) PROVE WorkMoves
  BY <1>19 DEF exitAfterUninit, Go, TerminatingInv, Past, Through, Dismantling,
      WorkerPlaces, CallPlaces
<1>20. ASSUME NEW a \in Threads, returnRootActivity(a) PROVE WorkMoves
  BY <1>20 DEF returnRootActivity, Go, TerminatingInv, Past, Through,
      Dismantling, WorkerPlaces, CallPlaces
<1>21. ASSUME NEW a \in Threads, terminated(a) PROVE WorkMoves
  BY <1>21 DEF terminated, Go, TerminatingInv, Past, Through, Dismantling,
      WorkerPlaces, CallPlaces
<1>22. ASSUME NEW a \in Threads, pause(a) PROVE WorkMoves
  BY <1>22, WorkUnchanged DEF pause, isActive
<1>23. ASSUME NEW a \in Threads, resume(a) PROVE WorkMoves
  BY <1>23, WorkUnchanged DEF resume, isActive
<1>24. ASSUME NEW w \in Workers, runThread(w) PROVE WorkMoves
  BY <1>24, WorkUnchanged DEF runThread, isActive
<1>25. ASSUME NEW w \in Workers, workDone(w) PROVE WorkMoves
  <2>1. \A b \in Natives : activity'[b] = activity[b]
    BY <1>25 DEF workDone
  <2> QED  BY <1>25, <2>1, WorkUnchanged DEF workDone, isActive
<1>26. ASSUME NEW w \in Workers, poolActivity(w) PROVE WorkMoves
  <2>1. \A b \in Threads : activity'[b].nested = activity[b].nested
    BY <1>26 DEF poolActivity
  <2>2. AtWork' = AtWork \ {w}
    BY <1>26, <2>1 DEF poolActivity, Leave, AtWork, isActive
  <2> QED  BY <2>2
<1>27. ASSUME NEW w \in Workers, activityEnded(w) PROVE WorkMoves
  <2>1. \A b \in Natives : activity'[b] = activity[b]
    BY <1>27 DEF activityEnded
  <2> QED  BY <1>27, <2>1, WorkUnchanged DEF activityEnded, isActive
<1>28. CASE UNCHANGED vars
  BY <1>28 DEF vars, AtWork, isActive
<1> QED
  BY <1>1, <1>2, <1>3, <1>4, <1>5, <1>6, <1>7, <1>8, <1>9, <1>10, <1>11,
     <1>12, <1>13, <1>14, <1>15, <1>16, <1>17, <1>18, <1>19, <1>20, <1>21,
     <1>22, <1>23, <1>24, <1>25, <1>26, <1>27, <1>28
  DEF Next, Attach, Begin, Call, Terminate, Worker, Turning

(* ... and so every step of the threads is one of the abstract shutdown.   *)
LEMMA OneCloser ==
  ASSUME IInv, NEW a \in Natives, pc[a] \in Past
  PROVE  /\ Closers = {a}
         /\ instance.terminating
         /\ Stage = IF ~instance.root THEN "gone"
                    ELSE IF pc[a] \in Dismantling THEN "apart" ELSE "draining"
<1>1. \A b \in Natives : pc[b] \in Past => b = a
  BY DEF IInv, OneShutdown, Past
<1>2. instance.terminating
  BY DEF IInv, TerminatingInv
<1> QED  BY <1>1, <1>2 DEF Closers, Stage, Past

LEMMA TurnRefines ==
  IInv /\ IInv' /\ Turning => [IS!GateNext]_(IS!gateVars)
<1> SUFFICES ASSUME IInv, IInv', Turning PROVE IS!GateNext
  OBVIOUS
<1> USE InstanceAssumption, Types DEF IInv, IS!GateNext, Threads
<1>1. ASSUME NEW a \in Threads, removeInactiveActivities(a),
             ~AlreadyTerminating
      PROVE  IS!Close(a)
  <2>1. a \in Natives /\ activity[a].nested = 0
    BY <1>1 DEF removeInactiveActivities, Go, PlacesOK, CallPlaces,
        WorkerPlaces, DepthInv, Idle
  <2>2. /\ \E p \in {"reenter", "waiting"} : pc' = [pc EXCEPT ![a] = p]
        /\ held' = AtWork
        /\ instance' = [instance EXCEPT !.terminating = TRUE]
    BY <1>1 DEF removeInactiveActivities, Go, AlreadyTerminating
  <2>3. ~instance.terminating /\ instance.root
    BY <1>1 DEF AlreadyTerminating, TerminatingInv
  <2>4. instance'.terminating /\ instance'.root
    BY <2>2, <2>3 DEF InstanceOK
  <2>5. Closers = {}
    BY <2>3 DEF Closers, TerminatingInv, Past
  <2>6. pc'[a] \in Past \ Dismantling
    BY <2>1, <2>2 DEF PlacesOK, Past, Through, Dismantling
  <2>7. Closers' = {a} /\ Stage' = "draining"
    <3>1. \A b \in Natives : pc'[b] \in Past => b = a
      BY <2>1, <2>6 DEF OneShutdown, Past
    <3> QED  BY <2>1, <2>4, <2>6, <3>1 DEF Closers, Stage, Past
  <2>8. Busy' = Busy /\ a \notin Busy
    BY <2>1, <2>2, <2>3, <2>4 DEF Busy, AtWork, isActive
  <2> QED  BY <2>3, <2>5, <2>7, <2>8 DEF IS!Close, Stage
<1>2. ASSUME NEW a \in Threads, requestApiAccess(a) PROVE IS!TakeApart(a)
  <2>1. a \in Natives /\ pc[a] = "claim" /\ pc'[a] = "uninit"
    BY <1>2 DEF requestApiAccess, Go, PlacesOK, CallPlaces, WorkerPlaces
  <2>2. UNCHANGED <<instance, held>>
    BY <1>2 DEF requestApiAccess, shutdown
  <2>3. pc[a] \in Past \ Dismantling /\ pc'[a] \in Dismantling
    BY <2>1 DEF Past, Through, Dismantling
  <2>4. instance.root
    BY <2>1 DEF TerminatingInv, Past, Through, Dismantling
  <2>5. Closers = {a} /\ instance.terminating /\ Stage = "draining"
    BY <2>1, <2>3, <2>4, OneCloser
  <2>6. \A b \in Natives : pc'[b] \in Past => b = a
    BY <2>1, <2>3 DEF OneShutdown, Past
  <2>7. Closers' = {a} /\ Stage' = "apart"
    BY <2>1, <2>2, <2>3, <2>4, <2>5, <2>6 DEF Closers, Stage, Past
  <2>8. Busy = {} /\ Busy' = {}
    BY <2>1, <2>2, <2>3, <2>5 DEF ThreadsFinishFirst, Busy
  <2> QED  BY <2>5, <2>7, <2>8 DEF IS!TakeApart
<1>3. ASSUME NEW a \in Threads, returnRootActivity(a) PROVE IS!Gone(a)
  <2>1. a \in Natives /\ pc[a] = "closing" /\ pc'[a] = "closed"
    BY <1>3 DEF returnRootActivity, Go, PlacesOK, CallPlaces, WorkerPlaces
  <2>2. instance' = [instance EXCEPT !.root = FALSE] /\ UNCHANGED held
    BY <1>3 DEF returnRootActivity
  <2>3. /\ pc[a] \in Dismantling /\ pc'[a] \in Dismantling
        /\ pc[a] \in Past \ {"closed"}
    BY <2>1 DEF Past, Dismantling
  <2>4. instance.root
    BY <2>1, <2>3 DEF TerminatingInv
  <2>5. Closers = {a} /\ instance.terminating /\ Stage = "apart"
    BY <2>1, <2>3, <2>4, OneCloser
  <2>6. instance'.terminating /\ ~instance'.root
    BY <2>2, <2>5 DEF InstanceOK
  <2>7. \A b \in Natives : pc'[b] \in Past => b = a
    BY <2>1, <2>3 DEF OneShutdown, Past
  <2>8. Closers' = {a} /\ Stage' = "gone"
    BY <2>1, <2>3, <2>6, <2>7 DEF Closers, Stage, Past
  <2> QED  BY <2>2, <2>5, <2>6, <2>8 DEF IS!Gone, Busy
<1>4. ASSUME NEW a \in Threads, terminated(a) PROVE IS!Return(a)
  <2>1. a \in Natives /\ pc[a] = "closed" /\ pc' = [pc EXCEPT ![a] = "out"]
    BY <1>4 DEF terminated, Go, PlacesOK, CallPlaces, WorkerPlaces
  <2>2. UNCHANGED <<instance, held>>
    BY <1>4 DEF terminated, shutdown
  <2>3. pc[a] \in Past
    BY <2>1 DEF Past, Dismantling
  <2>4. ~instance.root
    BY <2>1 DEF TerminatingInv
  <2>5. Closers = {a} /\ instance.terminating /\ Stage = "gone"
    BY <2>1, <2>3, <2>4, OneCloser
  <2>6. Closers' = {}
    BY <2>1, <2>5 DEF Closers, PlacesOK, Through, Dismantling
  <2> QED  BY <2>2, <2>4, <2>5, <2>6 DEF IS!Return, Busy, Stage
<1> QED  BY <1>1, <1>2, <1>3, <1>4 DEF Turning

LEMMA WorkRefines ==
  IInv /\ IInv' /\ [Next]_vars /\ SamePlaces => [IS!GateNext]_(IS!gateVars)
<1> SUFFICES ASSUME IInv, [Next]_vars, SamePlaces
             PROVE  [IS!GateNext]_(IS!gateVars)
  OBVIOUS
<1> USE Types DEF IInv
<1>1. UNCHANGED <<Stage, Closers>>
  BY DEF SamePlaces, Stage, Closers
<1>2. CASE instance.terminating
  <2>1. HeldMoves
    BY <1>2, HeldOnlyShared
  <2>2. Busy = held /\ Busy' = held'
    BY <1>2 DEF Busy, SamePlaces
  <2>3. \A b \in Busy : b \in Threads
    BY <2>2 DEF ListsOK
  <2> QED
    BY <1>1, <2>1, <2>2, <2>3
    DEF HeldMoves, IS!GateNext, IS!gateVars, IS!Finish, IS!Spawn
<1>3. CASE ~instance.terminating
  <2>1. ~instance'.terminating
    BY <1>3 DEF SamePlaces
  <2>2. WorkMoves
    BY <1>3, <2>1, WorkComesAndGoes
  <2>3. Busy = AtWork /\ Busy' = AtWork' /\ Stage = "open"
    BY <1>3, <2>1 DEF Busy, Stage
  <2> QED
    BY <1>1, <2>2, <2>3
    DEF WorkMoves, IS!GateNext, IS!gateVars, IS!Finish, IS!Come
<1> QED  BY <1>2, <1>3

(* terminate() keeps what it promises of the instance: one thread closes   *)
(* it, from then on nobody joins but on behalf of somebody at work, and    *)
(* that thread takes it apart when all of those have left                  *)
(* (InterpreterInstance.cpp:531-652).                                      *)
THEOREM ShutdownImplemented == Spec => ImplementsShutdown
<1>1. Init => IS!GateInit
  <2> SUFFICES ASSUME Init PROVE IS!GateInit
    OBVIOUS
  <2>1. ~instance.terminating /\ allActivities = {Root}
    BY DEF Init
  <2>2. Closers = {}
    BY InstanceAssumption DEF Init, Closers, Threads, Through, Dismantling
  <2> QED  BY <2>1, <2>2 DEF IS!GateInit, Stage, Busy, AtWork
<1>2. IInv /\ IInv' /\ [Next]_vars => [IS!GateNext]_(IS!gateVars)
  BY TurnRefines, WorkRefines, OnlyTerminateTurns, Types DEF IInv
<1> QED
  BY <1>1, <1>2, Invariant, PTL DEF Spec, ImplementsShutdown, IS!GateSpec
=============================================================================
