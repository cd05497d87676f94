------------------------- MODULE InstanceLifecycle -------------------------
(***************************************************************************)
(* The life of an interpreter instance (InterpreterInstance): threads of   *)
(* the application attach to it, call into it and detach; Rexx code spawns *)
(* workers, whose activities are pooled when they are done; and any thread *)
(* may terminate it, which waits for the threads that have work to do and  *)
(* then takes the instance apart.                                          *)
(*                                                                         *)
(* Two locks order this.  Kernel access (a recursive mutex, and            *)
(* ActivityManager::currentActivity) is taken first.  The resource lock is *)
(* held for short sections that wait for nothing: each is part of one      *)
(* action here.  terminate() looks at the list of activities under the     *)
(* resource lock alone, so threads with access run on meanwhile.           *)
(*                                                                         *)
(* An activity has the name of its thread.  What applications must not do  *)
(* is left out: the thread that created the instance does not detach, no   *)
(* thread detaches or terminates in the middle of a call, and none begins  *)
(* a call after terminate() has finished.                                  *)
(***************************************************************************)
EXTENDS Integers, FiniteSets

CONSTANTS Natives,      \* threads of the application,
          Root,         \*   one of which has created the instance
          Workers,      \* threads for spawned activities
          MaxPool,      \* MAX_THREAD_POOL_SIZE
          MaxNest,      \* bound: calls of a thread that are under way,
          MaxAttach,    \*   attaches of a thread,
          MaxSpawns,    \*   activities spawned
          None          \* OREF_NULL

Threads == Natives \cup Workers

ASSUME InstanceAssumption ==
    /\ Root \in Natives /\ Natives \cap Workers = {} /\ None \notin Threads
    /\ IsFiniteSet(Threads)
    /\ MaxPool \in Nat /\ MaxSpawns \in Nat
    /\ MaxNest \in [Threads -> Nat \ {0}] /\ MaxAttach \in Nat \ {0}

VARIABLES
    pc,             \* where a thread is
    activity,       \* Activity: nestedCount, attachCount, exit
    allActivities,  \* InterpreterInstance::allActivities
    known,          \* ActivityManager::allActivities
    pool,           \* ActivityManager::availableActivities
    kernelLock,     \* its owner, and how often it has it
    currentActivity,
    instance,       \* listed in interpreterInstances, terminating,
                    \*   rootActivity still set
    terminationSem, \* "reset", "posted", "closed"
    created,        \* terminate(): activityCreated
    spawns,         \* activities spawned so far
    held            \* history: those terminate() has to wait for

vars == <<pc, activity, allActivities, known, pool, kernelLock, currentActivity,
          instance, terminationSem, created, spawns, held>>
access == <<kernelLock, currentActivity>>
lists == <<allActivities, known, pool>>
shutdown == <<instance, terminationSem, created>>

(* In terminate(): checked, gate, waiting, reenter, (reattached,) claim,   *)
(* uninit, exiting, closing, closed.                                       *)
Dismantling == {"uninit", "uninitAway", "exiting", "exitingAway", "closing", "closed"}
NativePlaces == {"out", "attached", "crashed", "checked", "gate", "waiting",
                 "reenter", "reattached", "claim"} \cup Dismantling
WorkerPlaces == {"none", "start", "ending", "idle", "ended", "refused"}
CallPlaces == {"entered", "in", "away", "left", "leftAway"}
(* Where Rexx code runs, and the same without access.                      *)
Paused == [in |-> "away", left |-> "leftAway", uninit |-> "uninitAway",
           exiting |-> "exitingAway"]

NewActivity == [nested |-> 0, attach |-> 0, exit |-> FALSE]

(* createInstance() has returned: the root activity is attached, and not   *)
(* active.                                                                 *)
Init ==
    /\ pc = [a \in Threads |-> IF a \in Natives THEN "out" ELSE "none"]
    /\ activity = [a \in Threads |->
           [nested |-> 0, attach |-> IF a = Root THEN 1 ELSE 0, exit |-> FALSE]]
    /\ allActivities = {Root} /\ known = {Root} /\ pool = {}
    /\ kernelLock = [owner |-> None, count |-> 0] /\ currentActivity = None
    /\ instance = [listed |-> TRUE, terminating |-> FALSE, root |-> TRUE]
    /\ terminationSem = "reset" /\ created = FALSE /\ spawns = 0
    /\ held = {}

-----------------------------------------------------------------------------
Go(a, from, to) == pc[a] = from /\ pc' = [pc EXCEPT ![a] = to]
isActive(a) == activity[a].nested > 0

(* requestAccess(), requestApiAccess(): the mutex is recursive.            *)
request(a) ==
    /\ kernelLock.owner \in {None, a}
    /\ kernelLock' = [owner |-> a, count |-> kernelLock.count + 1]
    /\ currentActivity' = a

(* ActivityManager::releaseAccess(), by thread a.                          *)
unlockKernel(a) ==
    /\ currentActivity' = None
    /\ kernelLock' =
         CASE kernelLock.owner # a -> kernelLock
           [] kernelLock.count = 1 -> [owner |-> None, count |-> 0]
           [] OTHER -> [kernelLock EXCEPT !.count = @ - 1]

(* Activity::releaseAccess(): "make sure we're really the holder".         *)
releaseAccess(a) ==
    IF currentActivity = a THEN unlockKernel(a) ELSE UNCHANGED access

PostAtMutant == 2
NoPostMutant == 0
(* ... the root activity only is left.                                     *)
LastOne == 1

(* Whoever leaves the instance last tells terminate(), in the resource     *)
(* section that takes it off the list.                                     *)
Leave(a) ==
    /\ allActivities' = allActivities \ {a}
    /\ held' = held \ {a}
    /\ terminationSem' =
         IF /\ instance.terminating /\ Cardinality(allActivities') <= LastOne
            /\ terminationSem = "reset"
         THEN "posted" ELSE terminationSem
    /\ UNCHANGED <<instance, created>>

-----------------------------------------------------------------------------
(* AttachThread on a thread that has an activity: nestAttach() takes       *)
(* access for a moment.                                                    *)
MayCall(a) == instance.root /\ pc[a] \in {"out", "away"}
nestAttach(a) ==
    /\ MayCall(a) /\ a \in allActivities
    /\ activity[a].attach < MaxAttach
    /\ kernelLock.owner = None
    /\ activity' = [activity EXCEPT ![a].attach = @ + 1]
    /\ UNCHANGED <<pc, lists, access, shutdown, spawns, held>>

(* ... and on one that has none: ActivityManager::attachThread(), which    *)
(* terminate() uses too.                                                   *)
attachThread(a) ==
    /\ \/ MayCall(a) /\ Go(a, "out", "attached")
       \/ Go(a, "reenter", "reattached")
    /\ a \notin allActivities
    /\ kernelLock.owner = None /\ request(a)
    /\ known' = known \cup {a}
    /\ activity' = [activity EXCEPT ![a] = NewActivity]
    /\ UNCHANGED <<allActivities, pool, shutdown, spawns, held>>

(* The rest of InterpreterInstance::attachThread(), and the end of the API *)
(* call.                                                                   *)
setupAttachedActivity(a) ==
    /\ Go(a, "attached", "out")
    /\ allActivities' = allActivities \cup {a}
    /\ activity' = [activity EXCEPT ![a].attach = 1]
    /\ releaseAccess(a)
    /\ UNCHANGED <<known, pool, shutdown, spawns, held>>

(* detachThread(): a worker's activity only ever has nested attaches.      *)
isNestedAttach(a) ==
    activity[a].attach > (IF a \in Workers THEN 0 ELSE 1)
returnAttach(a) ==
    /\ MayCall(a) /\ isNestedAttach(a)
    /\ activity' = [activity EXCEPT ![a].attach = @ - 1]
    /\ UNCHANGED <<pc, lists, access, shutdown, spawns, held>>
detachThread(a) ==
    /\ MayCall(a) /\ pc[a] = "out" /\ a # Root
    /\ activity[a].attach > 0 /\ ~isNestedAttach(a)
    /\ Leave(a)
    /\ known' = known \ {a}
    /\ activity' = [activity EXCEPT ![a] = NewActivity]
    /\ UNCHANGED <<pc, pool, access, spawns>>

-----------------------------------------------------------------------------
(* An API call: enterCurrentThread() gets access, and then activates.      *)
enterCurrentThread(a) ==
    /\ MayCall(a)
    /\ a \in Natives => activity[a].attach > 0
    /\ activity[a].nested < MaxNest[a]
    /\ kernelLock.owner = None /\ request(a)
    /\ pc' = [pc EXCEPT ![a] = "entered"]
    /\ UNCHANGED <<activity, lists, shutdown, spawns, held>>
activate(a) ==
    /\ Go(a, "entered", "in")
    /\ activity' = [activity EXCEPT ![a].nested = @ + 1]
    /\ UNCHANGED <<lists, access, shutdown, spawns, held>>

(* exitCurrentThread(): deactivates, runs pending uninits if that leaves   *)
(* the thread inactive, and then releases access.                          *)
deactivate(a) ==
    /\ a \in Natives \/ activity[a].nested > 1
    /\ Go(a, "in", "left")
    /\ activity' = [activity EXCEPT ![a].nested = @ - 1]
    /\ UNCHANGED <<lists, access, shutdown, spawns, held>>
exitCurrentThread(a) ==
    /\ Go(a, "left", IF isActive(a) THEN "away" ELSE "out")
    /\ releaseAccess(a)
    /\ UNCHANGED <<activity, lists, shutdown, spawns, held>>

(* Code that runs lets others have access, or is out in native code.       *)
pause(a) ==
    /\ pc[a] \in DOMAIN Paused
    /\ pc[a] = "left" => ~isActive(a)
    /\ pc' = [pc EXCEPT ![a] = Paused[@]]
    /\ releaseAccess(a)
    /\ UNCHANGED <<activity, lists, shutdown, spawns, held>>
resume(a) ==
    /\ \E p \in DOMAIN Paused : Go(a, Paused[p], p)
    /\ request(a)
    /\ UNCHANGED <<activity, lists, shutdown, spawns, held>>

-----------------------------------------------------------------------------
(* Activity::reset(), and the constructor of one that runs on a thread of  *)
(* its own: "mark this as active now to prevent this from getting          *)
(* terminated before it has a chance to run".                              *)
NotActiveMutant(r) == r
reset(r) == [r EXCEPT !.nested = @ + 1]

(* spawnActivity() and Activity::run(): a pooled activity or a new one.    *)
spawnActivity(a, w) ==
    /\ pc[a] \in DOMAIN Paused
    /\ spawns < MaxSpawns
    /\ w \in pool \/ (pool = {} /\ pc[w] = "none")
    /\ pc' = [pc EXCEPT ![w] = "start"]
    /\ activity' = [activity EXCEPT ![w] = reset(@)]
    /\ pool' = pool \ {w} /\ known' = known \cup {w}
    /\ allActivities' = allActivities \cup {w}
    /\ held' = IF a \in held THEN held \cup {w} ELSE held
    /\ spawns' = spawns + 1
    /\ UNCHANGED <<access, shutdown>>

(* runThread(): the thread finds that it has to exit, or requests access.  *)
runThread(w) ==
    /\ IF activity[w].exit
       THEN Go(w, "start", "ended") /\ UNCHANGED access
       ELSE Go(w, "start", "in") /\ kernelLock.owner = None /\ request(w)
    /\ UNCHANGED <<activity, lists, shutdown, spawns, held>>

(* The work is done: the activity is inactive, but still in the list.      *)
workDone(w) ==
    /\ w \in Workers /\ activity[w].nested = 1
    /\ Go(w, "in", "ending")
    /\ activity' = [activity EXCEPT ![w].nested = 0]
    /\ UNCHANGED <<lists, access, shutdown, spawns, held>>

PoolFullMutant == FALSE
PoolFull == Cardinality(pool) > MaxPool

(* "don't allow this to be pooled", or ActivityManager::poolActivity().    *)
ForgetMutant(w) ==
    pc' = [pc EXCEPT ![w] = "ended"] /\ known' = known \ {w} /\ UNCHANGED pool
notPooled(w) ==
    pc' = [pc EXCEPT ![w] = "ended"] /\ UNCHANGED <<known, pool>>
pooled(w) ==
    IF PoolFull
    THEN /\ pc' = [pc EXCEPT ![w] = "refused"]
         /\ known' = known \ {w}
         /\ UNCHANGED pool
    ELSE /\ pc' = [pc EXCEPT ![w] = "idle"]
         /\ pool' = pool \cup {w}
         /\ UNCHANGED known

(* poolActivity(), then releaseAccess().                                   *)
poolActivity(w) ==
    /\ pc[w] = "ending"
    /\ Leave(w)
    /\ activity' = [activity EXCEPT ![w].attach = 0]
    /\ releaseAccess(w)
    /\ IF instance.terminating THEN notPooled(w) ELSE pooled(w)
    /\ UNCHANGED spawns

(* The thread has left its loop.                                           *)
activityEnded(w) ==
    /\ Go(w, "ended", "none") \/ Go(w, "refused", "none")
    /\ known' = known \ {w}
    /\ activity' = [activity EXCEPT ![w] = NewActivity]
    /\ UNCHANGED <<allActivities, pool, access, shutdown, spawns, held>>

-----------------------------------------------------------------------------
(* terminate(): is the instance there ...                                  *)
isInstanceActive(a) ==
    /\ MayCall(a) /\ ~isActive(a)
    /\ instance.listed
    /\ Go(a, "out", "checked")
    /\ UNCHANGED <<activity, lists, access, shutdown, spawns, held>>

(* ... and its root activity idle?  Another thread may have finished       *)
(* terminate() and cleared rootActivity since.                             *)
rootInactive(a) ==
    /\ Go(a, "checked", IF ~instance.root THEN "crashed"
                        ELSE IF isActive(Root) THEN "out" ELSE "gate")
    /\ UNCHANGED <<activity, lists, access, shutdown, spawns, held>>

(* The resource section: one thread is let through.  The inactive          *)
(* activities leave the list; the threads of workers among them are told   *)
(* to exit.                                                                *)
Inactive == {b \in allActivities \ {Root} : ~isActive(b)}
(* Threads that work for the instance, and must be out of it first.        *)
AtWork == {b \in allActivities \ {Root} : b \in Workers \/ isActive(b)}
AlwaysThroughMutant == FALSE
AlreadyTerminating == instance.terminating
removeInactiveActivities(a) ==
    IF AlreadyTerminating
    THEN /\ Go(a, "gate", "out")
         /\ UNCHANGED <<activity, lists, access, shutdown, spawns, held>>
    ELSE /\ instance' = [instance EXCEPT !.terminating = TRUE]
         /\ allActivities' = allActivities \ Inactive
         /\ activity' = [b \in Threads |->
                [nested |-> activity[b].nested, attach |-> activity[b].attach,
                 exit |-> IF b \in Inactive THEN TRUE ELSE activity[b].exit]]
         /\ held' = AtWork
         /\ LET last == Cardinality(allActivities') = 1
            IN  Go(a, "gate", IF last THEN "reenter" ELSE "waiting")
         /\ UNCHANGED <<known, pool, access, terminationSem, created, spawns>>

terminationWait(a) ==
    /\ terminationSem = "posted"
    /\ Go(a, "waiting", "reenter")
    /\ UNCHANGED <<activity, lists, access, shutdown, spawns, held>>

(* enterOnCurrentThread(), by nestAttach() or by attachThread(); it        *)
(* activates, and then requests access.                                    *)
reenterNested(a) ==
    /\ a \in allActivities
    /\ kernelLock.owner = None
    /\ Go(a, "reenter", "claim")
    /\ activity' = [activity EXCEPT ![a] =
          [nested |-> @.nested + 1, attach |-> @.attach + 1, exit |-> @.exit]]
    /\ UNCHANGED <<lists, access, shutdown, spawns, held>>
reenterNew(a) ==
    /\ Go(a, "reattached", "claim")
    /\ allActivities' = allActivities \cup {a}
    /\ activity' = [activity EXCEPT ![a] =
          [nested |-> @.nested + 1, attach |-> 1, exit |-> @.exit]]
    /\ created' = TRUE
    /\ UNCHANGED <<known, pool, access, instance, terminationSem, spawns, held>>
requestApiAccess(a) ==
    /\ Go(a, "claim", "uninit")
    /\ request(a)
    /\ UNCHANGED <<activity, lists, shutdown, spawns, held>>

(* The uninits have run: terminateInterpreterInstance(), and               *)
(* exitCurrentThread(false), which runs those that are new.                *)
terminateInterpreterInstance(a) ==
    /\ Go(a, "uninit", "exiting")
    /\ instance' = [instance EXCEPT !.listed = FALSE]
    /\ activity' = [activity EXCEPT ![a].nested = @ - 1]
    /\ UNCHANGED <<lists, access, terminationSem, created, spawns, held>>
exitAfterUninit(a) ==
    /\ Go(a, "exiting", "closing")
    /\ releaseAccess(a)
    /\ UNCHANGED <<activity, lists, shutdown, spawns, held>>

(* terminationSem.close(), returnRootActivity().                           *)
returnRootActivity(a) ==
    /\ Go(a, "closing", "closed")
    /\ terminationSem' = "closed"
    /\ instance' = [instance EXCEPT !.root = FALSE]
    /\ known' = known \ {Root}
    /\ UNCHANGED <<activity, allActivities, pool, access, created, spawns, held>>

ReleaseOnceMutant == FALSE
ReleaseAgain == created

(* The rest: terminate() has access once more if it attached its thread.   *)
terminated(a) ==
    /\ Go(a, "closed", "out")
    /\ allActivities' = {}
    /\ IF ReleaseAgain THEN unlockKernel(a) ELSE UNCHANGED access
    /\ UNCHANGED <<activity, known, pool, shutdown, spawns, held>>

-----------------------------------------------------------------------------
Attach(a) ==
    \/ nestAttach(a) \/ attachThread(a) \/ setupAttachedActivity(a)
    \/ returnAttach(a) \/ detachThread(a)
Begin(a) == enterCurrentThread(a) \/ (\E w \in Workers : spawnActivity(a, w))
            \/ isInstanceActive(a)
Worker(w) == runThread(w) \/ workDone(w) \/ poolActivity(w) \/ activityEnded(w)
Call(a) == activate(a) \/ deactivate(a) \/ exitCurrentThread(a)
Terminate(a) ==
    \/ rootInactive(a) \/ removeInactiveActivities(a) \/ terminationWait(a)
    \/ reenterNested(a) \/ reenterNew(a) \/ requestApiAccess(a)
    \/ terminateInterpreterInstance(a) \/ exitAfterUninit(a)
    \/ returnRootActivity(a) \/ terminated(a)

Next ==
    \/ \E a \in Threads :
          \/ Attach(a) \/ Begin(a) \/ Call(a) \/ Terminate(a)
          \/ pause(a) \/ resume(a)
    \/ \E w \in Workers : Worker(w)

Spec == Init /\ [][Next]_vars

(* A thread of the application that has access gives it up, though its     *)
(* calls may go on for ever.  Workers get access in the end, and their     *)
(* calls and their work end, however often they pause.                     *)
Fairness ==
    /\ WF_vars(\E a \in Natives :
                  setupAttachedActivity(a) \/ Call(a) \/ pause(a))
    /\ WF_vars(\E a \in Natives : terminationWait(a))
    /\ \A w \in Workers :
         /\ SF_vars(Worker(w)) /\ SF_vars(Call(w))
         /\ \A n \in 1..MaxNest[w] :
              SF_vars(activity[w].nested = n /\ resume(w))
FairSpec == Spec /\ Fairness

-----------------------------------------------------------------------------
(* Every variable has its type; the pool holds one thread more than        *)
(* MAX_THREAD_POOL_SIZE at most.                                           *)
TypeOK ==
    /\ pc \in [Threads -> CallPlaces \cup NativePlaces \cup WorkerPlaces]
    /\ \A a \in Natives : pc[a] \notin WorkerPlaces
    /\ \A w \in Workers : pc[w] \notin NativePlaces
    /\ activity \in [Threads -> [nested : Nat, attach : 0..(MaxAttach + 1),
                                exit : BOOLEAN]]
    /\ \A a \in Threads : activity[a].nested <= MaxNest[a]
    /\ allActivities \subseteq Threads /\ known \subseteq Threads
    /\ pool \subseteq Workers /\ Cardinality(pool) <= MaxPool + 1
    /\ kernelLock \in [owner : Threads \cup {None}, count : 0..2]
    /\ currentActivity \in Threads \cup {None}
    /\ instance \in [listed : BOOLEAN, terminating : BOOLEAN, root : BOOLEAN]
    /\ terminationSem \in {"reset", "posted", "closed"}
    /\ created \in BOOLEAN /\ spawns \in 0..MaxSpawns /\ held \subseteq Threads

(* terminate(): "if there are active threads still running, we need to     *)
(* wait until they all finish" (InterpreterInstance.cpp:558): the threads  *)
(* that were at work for the instance, and those they have spawned, are    *)
(* out of it before it is taken apart, so none of them posts a semaphore   *)
(* that was closed.  A worker that is just about to return its activity    *)
(* counts; a thread that attaches or enters a call in the meantime does    *)
(* not.                                                                    *)
ThreadsFinishFirst ==
    \A a \in Natives : pc[a] \in Dismantling => held = {}

(* "it's possible to get a call on a second thread": only one thread gets  *)
(* past the check of terminating.                                          *)
Through == {"waiting", "reenter", "reattached", "claim"}
OneShutdown ==
    \A a, b \in Natives :
        /\ pc[a] \in Through \cup Dismantling
        /\ pc[b] \in Through \cup Dismantling
        => a = b

(* Kernel access is given up as often as it was taken: a thread that is    *)
(* out of the interpreter does not have it, one that runs there does.  The *)
(* exception is a terminate() that has attached its own thread: it has     *)
(* access from then on to its end, even while an uninit waits.             *)
Inside == {"attached", "reattached", "entered", "ending"} \cup DOMAIN Paused
AccessBalanced ==
    /\ \A a \in Threads :
         LET twice == created /\ pc[a] \in {"claim"} \cup Dismantling IN
         /\ kernelLock.owner = a <=> pc[a] \in Inside \/ twice
         /\ pc[a] \in Inside => currentActivity = a
         /\ kernelLock.owner = a =>
              kernelLock.count
                = IF twice /\ pc[a] \in {"uninit", "exiting"} THEN 2 ELSE 1
    /\ currentActivity # None => kernelLock.owner = currentActivity

(* A thread that was given work runs it, and is not told to exit instead;  *)
(* the pool holds threads that can be given work.                          *)
WorkKept ==
    \A w \in Workers :
        /\ pc[w] = "start" => ~activity[w].exit
        /\ w \in pool <=> pc[w] = "idle"
        /\ w \in pool => activity[w] = NewActivity /\ w \notin allActivities

(* The collector finds every activity whose thread is still going to use   *)
(* it, unless a full pool has refused it: that one is off the manager's    *)
(* list while its thread has still to end.                                 *)
Anchored ==
    \A w \in Workers : pc[w] \notin {"none", "refused"} => w \in known

(* What terminate() promises, as an abstract specification.  Before it is  *)
(* called, whoever is at work counts; after that, those it has to let      *)
(* finish.                                                                 *)
Closers == {a \in Natives : pc[a] \in Through \cup Dismantling}
Busy == IF instance.terminating THEN held ELSE AtWork
Stage ==
    IF ~instance.terminating THEN "open"
    ELSE IF ~instance.root THEN "gone"
    ELSE IF \E a \in Natives : pc[a] \in Dismantling THEN "apart"
    ELSE "draining"
IS == INSTANCE InstanceShutdown WITH
          stage <- Stage, busy <- Busy, closers <- Closers
ImplementsShutdown == IS!GateSpec

(* Workers alone do not keep terminate() waiting for ever.                 *)
OnlyWorkers == allActivities \cap Natives = {Root}
WorkersLetTerminate ==
    ((\E a \in Natives : pc[a] = "waiting") /\ OnlyWorkers)
        ~> ((\A a \in Natives : pc[a] # "waiting") \/ ~OnlyWorkers)
=============================================================================
