--------------------------- MODULE KernelDispatch ---------------------------
(***************************************************************************)
(* The kernel lock of the interpreter and the dispatch queue in front of   *)
(* it: interpreter/concurrency/ActivityManager.cpp and the access methods  *)
(* of Activity.cpp.                                                        *)
(*                                                                         *)
(* Only the activity that owns the kernel lock may run Rexx code or touch  *)
(* an object.  An activity that finds the lock taken stands in the         *)
(* dispatch queue until another one posts it, or until 50 ms have gone by, *)
(* and then competes for the lock.  API callbacks and thread attaches skip *)
(* the queue, and announce themselves in a counter so that the running     *)
(* activity yields.                                                        *)
(*                                                                         *)
(* A body of code under a DispatchSection is one step: everything it       *)
(* touches is guarded by that lock, except the kernel lock it may release  *)
(* (a step of another thread between the release and the end of the        *)
(* section could as well come after the section).  Nothing waits for the   *)
(* kernel lock inside a section.                                           *)
(*                                                                         *)
(* Left out: the yieldRequested flag (it only makes a relinquish happen    *)
(* sooner, and a running activity may relinquish at any yield point here), *)
(* the numeric settings, and the instance lists.                           *)
(***************************************************************************)
EXTENDS Integers, Sequences, FiniteSets

CONSTANTS Rexx,         \* activities that exist from the start: roots, spawned
          Attachers,    \* activities made by AttachThread on a native thread
          Roots,        \* activities made by RexxCreateInterpreter, RexxStart
          Host,         \* the activity below a nested one on the same thread
          Yielding,     \* activities whose program reaches a yield point
          NoActivity,   \* OREF_NULL
          SizeMax       \* the largest size_t

Nested == Attachers \cup Roots
Activities == Rexx \cup Nested

ASSUME ActivitiesAssumption ==
    /\ IsFiniteSet(Activities)
    /\ NoActivity \notin Activities
    /\ Rexx \cap Nested = {}
    /\ Attachers \cap Roots = {}
    /\ Yielding \subseteq Activities
ASSUME HostAssumption == Host \in [Nested -> Rexx \cup {NoActivity}]
ASSUME SizeAssumption == SizeMax \in Nat /\ Cardinality(Activities) < SizeMax

VARIABLES
    kernel,              \* owner of kernelLock()
    currentActivity,     \* ActivityManager::currentActivity
    queue,               \* WaitingActivityQueue
    waitingAccess,       \* the counters of waiting activities (size_t)
    waitingApiAccess,
    waitingAttaches,
    permitted,           \* activities with runSem posted and dispatchPosted set
    waitingForDispatch,  \* activities with that flag set
    timedOut,            \* the local variable of addWaitingActivity()
    nestedActivity,      \* the activity a nested one has pushed down
    entry,               \* the way in an activity has taken
    pc                   \* where it is

vars == <<kernel, currentActivity, queue, waitingAccess, waitingApiAccess,
          waitingAttaches, permitted, waitingForDispatch, timedOut,
          nestedActivity, entry, pc>>
lockVars == <<kernel, currentActivity>>
counters == <<waitingAccess, waitingApiAccess, waitingAttaches>>
dispatchVars == <<queue, permitted>>
localVars == <<waitingForDispatch, timedOut, nestedActivity>>

Entries == {"request", "api", "attach", "root"}
Places == {"detached",      \* the activity does not exist
           "native",        \* outside the interpreter
           "immediate",     \* lockKernelImmediate() saw no waiters
           "lineUp",        \* the fast path failed
           "dispatchWait",  \* waitForDispatch()
           "selfPost",      \* that wait timed out
           "kernelWait",    \* lockKernel()
           "section",       \* has the kernel lock, needs the dispatch lock
           "attached",      \* attachThread() or getRootActivity() has the lock
           "setup",         \* setupCurrentActivity() comes next
           "running",       \* runs Rexx code
           "relinquish",    \* runs, and has seen waiters at a yield point
           "closing",       \* terminate(): kernel access given up
           "nudge"}         \* terminate(): dispatchNext() comes next

Init ==
    /\ kernel = NoActivity
    /\ currentActivity = NoActivity
    /\ queue = <<>>
    /\ waitingAccess = 0 /\ waitingApiAccess = 0 /\ waitingAttaches = 0
    /\ permitted = {}
    /\ waitingForDispatch = {}
    /\ timedOut = {}
    /\ nestedActivity = [b \in Nested |-> NoActivity]
    /\ entry = [a \in Activities |-> IF a \in Roots THEN "root" ELSE "attach"]
    /\ pc = [a \in Activities |-> IF a \in Rexx THEN "native" ELSE "detached"]

-----------------------------------------------------------------------------
(* Variants named ...Mutant are not part of the model: each is a plausible *)
(* slip in the definition that follows it, kept to show that a property    *)
(* would notice.                                                           *)
DecTwiceMutant(n) == n - 2

(* size_t arithmetic.                                                      *)
Inc(n) == IF n = SizeMax THEN 0 ELSE n + 1
Dec(n) == IF n = 0 THEN SizeMax ELSE n - 1

hasWaiters == waitingAccess # 0 \/ waitingAttaches # 0

At(a, place) == pc[a] = place
Goto(a, place) == pc' = [pc EXCEPT ![a] = place]

(* A thread runs its innermost activity: an activity stands still while a  *)
(* nested one exists on top of it.                                         *)
OnTop(a) == \A b \in Nested : Host[b] = a => At(b, "detached")

RemoveNothingMutant(a) == UNCHANGED queue
RemoveFrontMutant(a) == queue' = SubSeq(queue, 2, Len(queue))

(* DispatchSection::remove(): erase the first entry of the activity, if    *)
(* there is one.                                                           *)
remove(a) ==
    \/ /\ \A i \in 1..Len(queue) : queue[i] # a
       /\ UNCHANGED queue
    \/ \E i \in 1..Len(queue) :
         /\ queue[i] = a
         /\ \A j \in 1..(i - 1) : queue[j] # a
         /\ queue' = SubSeq(queue, 1, i - 1) \o SubSeq(queue, i + 1, Len(queue))

DispatchLastMutant(q) ==
    IF q = <<>>
    THEN queue' = <<>> /\ UNCHANGED permitted
    ELSE /\ queue' = SubSeq(q, 1, Len(q) - 1)
         /\ permitted' = permitted \cup {q[Len(q)]}

(* dispatchNext(): drop the entries that have been posted already, up to   *)
(* the first one that has not, and post that one.                          *)
dispatchNext(q) ==
    \/ /\ \A i \in 1..Len(q) : q[i] \in permitted
       /\ queue' = <<>>
       /\ UNCHANGED permitted
    \/ \E i \in 1..Len(q) :
         /\ q[i] \notin permitted
         /\ \A j \in 1..(i - 1) : q[j] \in permitted
         /\ queue' = SubSeq(q, i + 1, Len(q))
         /\ permitted' = permitted \cup {q[i]}

UnlockOnlyMutant == kernel' = NoActivity /\ UNCHANGED currentActivity

unlockKernel == kernel' = NoActivity /\ currentActivity' = NoActivity

-----------------------------------------------------------------------------
(* requestAccess() and requestApiAccess() from native code, and the start  *)
(* of attachThread(): lockKernelImmediate() looks at the counters first.   *)
Ask(a, way) ==
    /\ OnTop(a)
    /\ entry' = [entry EXCEPT ![a] = way]
    /\ Goto(a, IF hasWaiters THEN "lineUp" ELSE "immediate")
    /\ UNCHANGED <<lockVars, dispatchVars, counters, localVars>>

requestAccess(a) == At(a, "native") /\ Ask(a, "request")
requestApiAccess(a) == At(a, "native") /\ Ask(a, "api")

(* A nested activity needs its host outside the kernel: in native code or, *)
(* where waits pump the message queue, in one of the waits for access.     *)
HostIsNestable(b) ==
    Host[b] # NoActivity =>
        /\ pc[Host[b]] \in {"native", "dispatchWait", "kernelWait"}
        /\ OnTop(Host[b])

attachThread(b) ==
    b \in Attachers /\ At(b, "detached") /\ HostIsNestable(b) /\ Ask(b, "attach")

(* getRootActivity() goes straight for the kernel lock.                    *)
getRootActivity(b) ==
    /\ b \in Roots
    /\ At(b, "detached")
    /\ HostIsNestable(b)
    /\ entry' = [entry EXCEPT ![b] = "root"]
    /\ Goto(b, "kernelWait")
    /\ UNCHANGED <<lockVars, dispatchVars, counters, localVars>>

(* lockKernelImmediate(): the attempt on the lock itself.                  *)
requestImmediate(a) ==
    /\ At(a, "immediate")
    /\ IF kernel = NoActivity
       THEN /\ kernel' = a
            /\ Goto(a, IF entry[a] = "attach" THEN "attached" ELSE "setup")
       ELSE /\ Goto(a, "lineUp")
            /\ UNCHANGED kernel
    /\ UNCHANGED <<currentActivity, dispatchVars, counters, localVars, entry>>

(* addWaitingActivity(a, false), up to the wait.                           *)
addWaitingActivity(a) ==
    /\ At(a, "lineUp")
    /\ entry[a] = "request"
    /\ waitingAccess' = Inc(waitingAccess)
    /\ IF currentActivity # NoActivity
       THEN queue' = Append(queue, a) /\ Goto(a, "dispatchWait")
       ELSE Goto(a, "kernelWait") /\ UNCHANGED queue
    /\ permitted' = permitted \ {a}
    /\ waitingForDispatch' = waitingForDispatch \cup {a}
    /\ UNCHANGED <<lockVars, waitingApiAccess, waitingAttaches, timedOut,
                   nestedActivity, entry>>

(* addWaitingApiActivity(), up to the wait.                                *)
addWaitingApiActivity(a) ==
    /\ At(a, "lineUp")
    /\ entry[a] = "api"
    /\ waitingAccess' = Inc(waitingAccess)
    /\ waitingApiAccess' = Inc(waitingApiAccess)
    /\ waitingForDispatch' = waitingForDispatch \cup {a}
    /\ Goto(a, "kernelWait")
    /\ UNCHANGED <<lockVars, dispatchVars, waitingAttaches, timedOut,
                   nestedActivity, entry>>

UncountedAttachMutant(a) ==
    /\ At(a, "lineUp")
    /\ entry[a] = "attach"
    /\ Goto(a, "kernelWait")
    /\ UNCHANGED <<lockVars, dispatchVars, counters, localVars, entry>>

(* attachThread(), up to its wait.                                         *)
addWaitingAttach(a) ==
    /\ At(a, "lineUp")
    /\ entry[a] = "attach"
    /\ waitingAttaches' = Inc(waitingAttaches)
    /\ Goto(a, "kernelWait")
    /\ UNCHANGED <<lockVars, dispatchVars, waitingAccess, waitingApiAccess,
                   localVars, entry>>

(* waitForDispatch() returns because somebody posted the activity ...      *)
dispatched(a) ==
    /\ At(a, "dispatchWait")
    /\ OnTop(a)
    /\ a \in permitted
    /\ Goto(a, "kernelWait")
    /\ UNCHANGED <<lockVars, dispatchVars, counters, localVars, entry>>

(* ... or because MaxDispatchWait has passed.  A post that comes with the  *)
(* deadline is reported as a timeout.                                      *)
dispatchTimeout(a) ==
    /\ At(a, "dispatchWait")
    /\ OnTop(a)
    /\ timedOut' = timedOut \cup {a}
    /\ Goto(a, "selfPost")
    /\ UNCHANGED <<lockVars, dispatchVars, counters, waitingForDispatch,
                   nestedActivity, entry>>

(* postDispatch() on itself, without the dispatch lock.                    *)
postSelf(a) ==
    /\ At(a, "selfPost")
    /\ permitted' = permitted \cup {a}
    /\ Goto(a, "kernelWait")
    /\ UNCHANGED <<lockVars, queue, counters, localVars, entry>>

lockKernel(a) ==
    /\ At(a, "kernelWait")
    /\ OnTop(a)
    /\ kernel = NoActivity
    /\ kernel' = a
    /\ Goto(a, IF entry[a] = "root" THEN "attached" ELSE "section")
    /\ UNCHANGED <<currentActivity, dispatchVars, counters, localVars, entry>>

-----------------------------------------------------------------------------
(* addWaitingActivity(), from the kernel lock to the end.                  *)
accessGranted(a) ==
    /\ At(a, "section")
    /\ entry[a] = "request"
    /\ waitingForDispatch' = waitingForDispatch \ {a}
    /\ waitingAccess' = Dec(waitingAccess)
    /\ IF a \in timedOut THEN remove(a) ELSE UNCHANGED queue
    /\ timedOut' = timedOut \ {a}
    /\ currentActivity' = a
    /\ Goto(a, "running")
    /\ UNCHANGED <<kernel, permitted, waitingApiAccess, waitingAttaches,
                   nestedActivity, entry>>

(* addWaitingApiActivity(), from the kernel lock to the end.               *)
apiAccessGranted(a) ==
    /\ At(a, "section")
    /\ entry[a] = "api"
    /\ waitingForDispatch' = waitingForDispatch \ {a}
    /\ waitingApiAccess' = Dec(waitingApiAccess)
    /\ waitingAccess' = Dec(waitingAccess)
    /\ dispatchNext(queue)
    /\ currentActivity' = a
    /\ Goto(a, "running")
    /\ UNCHANGED <<kernel, waitingAttaches, timedOut, nestedActivity, entry>>

attachGranted(a) ==
    /\ At(a, "section")
    /\ entry[a] = "attach"
    /\ waitingAttaches' = Dec(waitingAttaches)
    /\ Goto(a, "attached")
    /\ UNCHANGED <<lockVars, dispatchVars, waitingAccess, waitingApiAccess,
                   localVars, entry>>

SuspendApiMutant(host) ==
    /\ waitingAccess' = Dec(waitingAccess)
    /\ remove(host)
    /\ UNCHANGED <<waitingApiAccess, permitted>>

(* suspendDispatch(): the host waits for access and will not wake up while *)
(* the nested activity exists, so it is taken out of the counters and of   *)
(* the queue, and the next in line is posted if the host was the first.    *)
suspendDispatch(host) ==
    /\ waitingAccess' = Dec(waitingAccess)
    /\ waitingApiAccess' = IF entry[host] = "api"
                           THEN Dec(waitingApiAccess) ELSE waitingApiAccess
    /\ IF queue # <<>> /\ Head(queue) = host
       THEN dispatchNext(Tail(queue))
       ELSE remove(host) /\ UNCHANGED permitted

handleNestedActivity(b) ==
    /\ b \in Nested
    /\ At(b, "attached")
    /\ IF Host[b] \in waitingForDispatch
       THEN suspendDispatch(Host[b])
       ELSE UNCHANGED <<dispatchVars, waitingAccess, waitingApiAccess>>
    /\ nestedActivity' = [nestedActivity EXCEPT ![b] = Host[b]]
    /\ Goto(b, "setup")
    /\ UNCHANGED <<lockVars, waitingAttaches, waitingForDispatch, timedOut,
                   entry>>

setupCurrentActivity(a) ==
    /\ At(a, "setup")
    /\ currentActivity' = a
    /\ Goto(a, "running")
    /\ UNCHANGED <<kernel, dispatchVars, counters, localVars, entry>>

-----------------------------------------------------------------------------
ReleaseUnnudgedMutant(a) ==
    /\ At(a, "running")
    /\ unlockKernel
    /\ Goto(a, "native")
    /\ UNCHANGED <<dispatchVars, counters, localVars, entry>>

(* Activity::releaseAccess() and exitCurrentThread(): post the next in     *)
(* line, then let the kernel lock go.                                      *)
releaseAccess(a) ==
    /\ At(a, "running")
    /\ dispatchNext(queue)
    /\ unlockKernel
    /\ Goto(a, "native")
    /\ UNCHANGED <<counters, localVars, entry>>

(* relinquish() and relinquishIfNeeded() at a yield point of the run loop. *)
(* The time slice may or may not be over.                                  *)
relinquish(a) ==
    /\ a \in Yielding
    /\ At(a, "running")
    /\ hasWaiters
    /\ Goto(a, "relinquish")
    /\ UNCHANGED <<lockVars, dispatchVars, counters, localVars, entry>>

(* addWaitingActivity(a, true), up to the wait; its releaseAccess() call   *)
(* takes the default, which is not to dispatch.                            *)
yieldAccess(a) ==
    /\ At(a, "relinquish")
    /\ IF ~hasWaiters
       THEN /\ Goto(a, "running")
            /\ UNCHANGED <<lockVars, dispatchVars, counters, localVars, entry>>
       ELSE /\ waitingAccess' = Inc(waitingAccess)
            /\ unlockKernel
            /\ queue' = Append(queue, a)
            /\ permitted' = permitted \ {a}
            /\ waitingForDispatch' = waitingForDispatch \cup {a}
            /\ entry' = [entry EXCEPT ![a] = "request"]
            /\ Goto(a, "dispatchWait")
            /\ UNCHANGED <<waitingApiAccess, waitingAttaches, timedOut,
                           nestedActivity>>

(* DetachThread from native code: InterpreterInstance::detachThread(), and *)
(* returnActivity(), which hands a host that waits for access back to the  *)
(* dispatcher.                                                             *)
detachThread(b) ==
    /\ b \in Attachers
    /\ At(b, "native")
    /\ LET host == nestedActivity[b] IN
       IF host \in waitingForDispatch
       THEN /\ waitingAccess' = Inc(waitingAccess)
            /\ waitingApiAccess' = IF entry[host] = "api"
                                   THEN Inc(waitingApiAccess) ELSE waitingApiAccess
            /\ permitted' = (permitted \cup {host}) \ {b}
       ELSE /\ permitted' = permitted \ {b}
            /\ UNCHANGED <<waitingAccess, waitingApiAccess>>
    /\ nestedActivity' = [nestedActivity EXCEPT ![b] = NoActivity]
    /\ Goto(b, "detached")
    /\ UNCHANGED <<lockVars, queue, waitingAttaches, waitingForDispatch,
                   timedOut, entry>>

(* The end of InterpreterInstance::terminate() on the root activity:       *)
(* exitCurrentThread(false) ...                                            *)
terminate(b) ==
    /\ b \in Roots
    /\ At(b, "running")
    /\ unlockKernel
    /\ Goto(b, "closing")
    /\ UNCHANGED <<dispatchVars, counters, localVars, entry>>

(* ... returnRootActivity(), which only drops the pointer to the host ...  *)
returnRootActivity(b) ==
    /\ b \in Roots
    /\ At(b, "closing")
    /\ nestedActivity' = [nestedActivity EXCEPT ![b] = NoActivity]
    /\ permitted' = permitted \ {b}
    /\ Goto(b, "nudge")
    /\ UNCHANGED <<lockVars, queue, counters, waitingForDispatch, timedOut,
                   entry>>

(* ... and a nudge of the dispatch queue.                                  *)
nudgeQueue(b) ==
    /\ b \in Roots
    /\ At(b, "nudge")
    /\ dispatchNext(queue)
    /\ Goto(b, "detached")
    /\ UNCHANGED <<lockVars, counters, localVars, entry>>

-----------------------------------------------------------------------------
Acquire(a) ==
    \/ requestImmediate(a) \/ addWaitingActivity(a) \/ addWaitingApiActivity(a)
    \/ addWaitingAttach(a) \/ dispatched(a) \/ dispatchTimeout(a) \/ postSelf(a)
    \/ accessGranted(a) \/ apiAccessGranted(a) \/ attachGranted(a)
    \/ handleNestedActivity(a) \/ setupCurrentActivity(a)

Shed(a) ==
    releaseAccess(a) \/ relinquish(a) \/ yieldAccess(a)

Finish(a) ==
    detachThread(a) \/ terminate(a) \/ returnRootActivity(a) \/ nudgeQueue(a)

Step(a) ==
    \/ requestAccess(a) \/ requestApiAccess(a) \/ attachThread(a)
    \/ getRootActivity(a) \/ Acquire(a) \/ lockKernel(a) \/ Shed(a) \/ Finish(a)

Next == \E a \in Activities : Step(a)

Spec == Init /\ [][Next]_vars

(* A thread that is runnable is run by the operating system, the 50 ms     *)
(* timer expires, and a running activity reaches a yield point.  Nobody is *)
(* obliged to release access of its own accord or to come back for more.   *)
(* The kernel mutex is assumed not to starve a thread for ever.            *)
Scheduling(a) ==
    /\ WF_vars(Acquire(a))
    /\ WF_vars(relinquish(a) \/ yieldAccess(a))
    /\ WF_vars(returnRootActivity(a) \/ nudgeQueue(a))

FairSpec == Spec /\ \A a \in Activities : Scheduling(a) /\ SF_vars(lockKernel(a))

-----------------------------------------------------------------------------
(* Activities taken out of the dispatcher by a nested one on their thread. *)
Suspended == {nestedActivity[b] : b \in Nested}

(* Activities counted in waitingAccess and waitingApiAccess.               *)
Waiters == waitingForDispatch \ Suspended
ApiWaiters == {a \in Waiters : entry[a] = "api"}
AttachWaiters == {a \in Activities : entry[a] = "attach"
                                     /\ pc[a] \in {"kernelWait", "section"}}

(* Every variable has its type (the members of ActivityManager, Activity). *)
TypeOK ==
    /\ kernel \in Activities \cup {NoActivity}
    /\ currentActivity \in Activities \cup {NoActivity}
    /\ queue \in Seq(Activities)
    /\ waitingAccess \in 0..SizeMax
    /\ waitingApiAccess \in 0..SizeMax
    /\ waitingAttaches \in 0..SizeMax
    /\ permitted \subseteq Activities
    /\ waitingForDispatch \subseteq Activities
    /\ timedOut \subseteq Activities
    /\ nestedActivity \in [Nested -> Rexx \cup {NoActivity}]
    /\ entry \in [Activities -> Entries]
    /\ pc \in [Activities -> Places]

(* Kernel access is exclusive: an activity in the part of the code that    *)
(* needs the kernel lock owns it, and the one that runs Rexx code is the   *)
(* current activity, whatever mix of fast path, dispatch, timeout, API     *)
(* priority, attach and nesting brought it there.                          *)
AccessExclusive ==
    /\ \A a \in Activities :
         pc[a] \in {"section", "attached", "setup", "running", "relinquish"}
             => kernel = a
    /\ \A a \in Activities :
         pc[a] \in {"running", "relinquish"} => currentActivity = a
    /\ currentActivity # NoActivity => kernel = currentActivity

(* The three size_t counters say how many activities really wait, so none  *)
(* wraps below zero and hasWaiters() is right: not while an activity is    *)
(* pushed down by a nested one, and not after it has come back.            *)
WaitingCountsExact ==
    /\ waitingAccess = Cardinality(Waiters)
    /\ waitingApiAccess = Cardinality(ApiWaiters)
    /\ waitingAttaches = Cardinality(AttachWaiters)

(* An activity is in the dispatch queue at most once and only while it     *)
(* waits for kernel access: nobody who runs, left, or is pushed down can   *)
(* be posted in the place of one that waits.                               *)
QueueHoldsWaiters ==
    /\ \A i, j \in 1..Len(queue) : queue[i] = queue[j] => i = j
    /\ \A i \in 1..Len(queue) :
         /\ queue[i] \in Waiters
         /\ pc[queue[i]] = "dispatchWait" \/ queue[i] \in timedOut

(* An activity in waitForDispatch() is in the queue, or posted, or pushed  *)
(* down: dispatching loses nobody to the 50 ms timer.                      *)
NobodyForgotten ==
    \A a \in Activities :
        At(a, "dispatchWait") =>
            \/ a \in permitted
            \/ a \in Suspended
            \/ \E i \in 1..Len(queue) : queue[i] = a

-----------------------------------------------------------------------------
(* The thread of a will go on without a post or a timeout.                 *)
Awake(a) ==
    /\ OnTop(a)
    /\ pc[a] \notin {"native", "detached"}
    /\ pc[a] = "dispatchWait" => a \in permitted

(* When an activity waits in line, some activity is awake to take the lock *)
(* or to pass it on ("make sure waiting activites are woken up").          *)
WaitersWokenUp ==
    (\E a \in Activities : At(a, "dispatchWait") /\ OnTop(a))
        => \E a \in Activities : Awake(a)

(* After an activity leaves the kernel through Activity::releaseAccess()   *)
(* nobody depends on the 50 ms timer to go on.                             *)
ReleaseWakesWaiters ==
    [][\A a \in Activities : releaseAccess(a) => WaitersWokenUp']_vars

(* dispatchNext() is fair: the activity it posts has nobody in front of it *)
(* in the queue that is not posted, nor pushed down by a nested one.       *)
DispatchInOrder ==
    [][\A i \in 1..Len(queue) :
         queue[i] \in permitted' \ permitted =>
             \/ postSelf(queue[i])
             \/ \A j \in 1..(i - 1) : queue[j] \in permitted \cup Suspended']_vars

-----------------------------------------------------------------------------
(* Implementation of the abstract access rules.                            *)
Wanting == {a \in Activities :
              pc[a] \in {"immediate", "lineUp", "dispatchWait", "selfPost",
                         "kernelWait", "section", "attached", "setup"}}

KA == INSTANCE KernelAccess WITH holder <- currentActivity, wanting <- Wanting

(* Every step of the dispatcher is a step of the abstract access rules, or *)
(* changes nothing there.                                                  *)
ImplementsAccess == KA!AccessSpec

(* Everyone who asks through requestAccess(), requestApiAccess() or        *)
(* attachThread() is served, even if running programs never leave the      *)
(* kernel of their own accord: yield points and counters are enough.       *)
EveryoneServed == KA!EveryoneServed

(* The same for a thread that creates an interpreter instance ("let other  *)
(* threads run"): getRootActivity() waits without being counted.           *)
RootsServed == \A b \in Roots : At(b, "kernelWait") ~> At(b, "running")
=============================================================================
